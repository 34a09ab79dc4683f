---------------------------- MODULE MCLookahead ----------------------------
(* Small instances of the registry monitor and the lookahead builder. *)
EXTENDS Lookahead, TLC

CONSTANTS a, b, v1, v2, v3

MCKeys == (a :> <<v1, v2>>) @@ (b :> <<v2>>)

Event(kind, r) == [kind |-> kind, root |-> r]
BothOptIn == <<Event("register", a), Event("optin", a), Event("register", b), Event("optin", b)>>
OneOptsIn == <<Event("register", b), Event("register", a), Event("optin", a)>>

\* v3 is no operator's.
MCDuties == 1 :> <<v1, v3, v2, v3>> @@ 2 :> <<v1, v2, v1, v3>> @@ 3 :> <<v2, v3, v3, v3>>
            @@ 4 :> <<v3, v1, v3, v2>> @@ 5 :> <<v3, v3, v3, v3>>
MCValid == [e \in 1 .. 5 |-> IF e = 1 THEN {a} ELSE {a, b}]

L1Moves(faults, height) ==
    [faults |-> faults, chain |-> <<>>, height |-> height, reorgs |-> 1, slot |-> 1, slots |-> 0]
BuilderRuns(faults, events, first) ==
    [faults |-> faults, chain |-> << <<>>, events, <<>>, <<>> >>, height |-> 4, reorgs |-> 0,
     slot |-> first, slots |-> 16]

\* L1 moves while the monitor indexes it; or the builder runs for three epochs.
MCScenarios ==
    {L1Moves({}, 4), L1Moves({"crash"}, 4), L1Moves({"reoptin"}, 4), L1Moves({"start"}, 3)} \cup
    {BuilderRuns(f, BothOptIn, 4) : f \in {{}, {"build"}, {"validity"}}} \cup
    {BuilderRuns(f, OneOptsIn, 7) : f \in {{}, {"crash"}}}
=============================================================================
