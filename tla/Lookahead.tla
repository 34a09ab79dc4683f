----------------------------- MODULE Lookahead -----------------------------
(***************************************************************************)
(* The lookahead builder (urc/src/lookahead), beside the registry monitor  *)
(* whose database it reads.  A caller asks for the next preconfer at most  *)
(* slots, any number of times in a slot; the builder keeps the lookahead   *)
(* of the current and of the next epoch, and the position in the current   *)
(* one of the entry that covers the next slot.                             *)
(***************************************************************************)
EXTENDS Registry, SlotClock

CONSTANTS
    Duties,     \* Duties[e][i]: the validator of the i-th slot of epoch e (external)
    Valid,      \* Valid[e]: the roots isLookaheadOperatorValid accepts for e (external)
    NoRoot

VARIABLES
    slot,       \* the current L1 slot
    ctx,        \* Context
    answer      \* what the last get_lookahead_data returned: "ok", "error", "panic" or "none"

vars == <<registryVars, scenario, slot, ctx, answer>>

IndexMax == -1                      \* U256::MAX: no preconfer is left in this epoch
Epoch(s) == EpochOf(StartOf(s))
NextSlot == slot + 1
Unbuilt == [slot |-> 0, epoch |-> 0, current |-> <<>>, index |-> 0, next |-> <<>>]

Init ==
    /\ RegistryInit
    /\ slot = scenario.slot
    /\ ctx = Unbuilt
    /\ answer = "none"

----------------------------------------------------------------------------
(***************************************************************************)
(* build: for each slot of the epoch, the first operator in the order of   *)
(* the query, which is any order, that has the slot's validator and that   *)
(* the contract accepts; a call of the contract that fails counts as a no. *)
(***************************************************************************)
OperatorsOf(e, i) ==
    LET accepted == OperatorsByPubkey(Duties[e][i]) \cap Valid[e]
    IN IF accepted = {} THEN {NoRoot}
       ELSE accepted \cup IF Without({"validity"}) THEN {} ELSE {NoRoot}

\* The sequence of the elements of a set of numbers, in increasing order.
InOrder(S) ==
    {s \in UNION {[1 .. n -> S] : n \in 0 .. SlotsPerEpoch} :
        /\ \A x \in S : \E i \in DOMAIN s : s[i] = x
        /\ \A i, j \in DOMAIN s : i < j => s[i] < s[j]}

Build(e) ==
    UNION {{[j \in 1 .. Len(s) |-> [timestamp |-> EpochBegin(e) + (s[j] - 1) * SlotDuration,
                                   root |-> pick[s[j]]]] :
               s \in InOrder({i \in 1 .. SlotsPerEpoch : pick[i] # NoRoot})} :
           pick \in {p \in [1 .. SlotsPerEpoch -> Roots \cup {NoRoot}] :
                        \A i \in 1 .. SlotsPerEpoch : p[i] \in OperatorsOf(e, i)}}

\* LookaheadBuilder::new; an error leaves no builder.
New ==
    /\ ctx = Unbuilt /\ slot <= scenario.slots
    /\ LET e == Epoch(slot)
       IN \E current \in Build(e), next \in Build(e + 1) :
             ctx' = [slot |-> 0, epoch |-> e, current |-> current, index |-> 0, next |-> next]
    /\ answer' = answer

\* Faulty: the epoch's lookaheads are not replaced when an epoch was skipped.
MovedEpochKeep(e) ==
    IF e <= ctx.epoch
    THEN {[ctx EXCEPT !.slot = NextSlot]}
    ELSE {[slot |-> NextSlot, epoch |-> e, current |-> ctx.next, index |-> 0, next |-> next] :
            next \in Build(e + 1)}

\* The first half of update_context: the context before the choice of the
\* index, or, when a build fails, what is left behind by the error.
MovedEpoch(e) ==
    IF e <= ctx.epoch
    THEN {[ctx EXCEPT !.slot = NextSlot]}
    ELSE {[slot |-> NextSlot, epoch |-> e, current |-> current, index |-> 0, next |-> next] :
            current \in IF e = ctx.epoch + 1 THEN {ctx.next} ELSE Build(e),
            next \in Build(e + 1)}

FailedBuild(e) ==
    IF Without({"build"}) \/ e <= ctx.epoch THEN {}
    ELSE IF e = ctx.epoch + 1
    THEN {[ctx EXCEPT !.slot = NextSlot, !.current = ctx.next, !.next = <<>>]}
    ELSE {[ctx EXCEPT !.slot = NextSlot]} \cup
         {[ctx EXCEPT !.slot = NextSlot, !.current = current] : current \in Build(e)}

(***************************************************************************)
(* The loop over the lookahead, from position k (counted from 0): the      *)
(* first window starts one slot before the epoch, or at the entry at k,    *)
(* and ends at the entry after k, and leaves the index at k.  Each later   *)
(* one ends at the entry whose position it returns; past the last entry    *)
(* the access is out of bounds.                                            *)
(***************************************************************************)
Time(c, k) == c.current[k + 1].timestamp

\* Faulty: the search starts one entry too late.
SearchAhead(c, k, e, t) ==
    LET last == Len(c.current) - 1
    IN IF k + 2 <= last /\ t <= Time(c, k + 2) THEN k + 2 ELSE last + 1

Search(c, k, e, t) ==
    LET last == Len(c.current) - 1
        first == IF k = 0 THEN EpochBegin(e) - SlotDuration ELSE Time(c, k)
        covers == {j \in k + 1 .. last : t > Time(c, j - 1) /\ t <= Time(c, j)}
    IN CASE t > first /\ t <= Time(c, k + 1) -> k
         [] OTHER -> IF covers = {} THEN last + 1 ELSE CHOOSE j \in covers : TRUE

\* The second half of update_context: at the last slot of an epoch, the next
\* epoch's lookahead; otherwise the entry that covers the next slot.
Position(c, e) ==
    LET t == StartOf(NextSlot)
        k == c.index
        index == IF t <= Time(c, k) THEN k
                 ELSE IF k = Len(c.current) - 1 THEN IndexMax
                 ELSE Search(c, k, e, t)
    IN CASE Epoch(NextSlot) = e + 1 ->
              /\ ctx' = [c EXCEPT !.current = c.next, !.index = 0, !.next = <<>>]
              /\ answer' = "ok"
         [] Epoch(NextSlot) = e /\ c.current = <<>> -> ctx' = c /\ answer' = "ok"
         [] OTHER ->
              IF k = IndexMax THEN ctx' = c /\ answer' = "error"
              ELSE IF index = Len(c.current) THEN ctx' = Unbuilt /\ answer' = "panic"
              ELSE ctx' = [c EXCEPT !.index = index] /\ answer' = "ok"

\* get_next_preconfer, get_lookahead_data, update_context
GetLookaheadData ==
    /\ ctx # Unbuilt
    /\ IF ctx.slot = NextSlot
       THEN ctx' = ctx /\ answer' = "ok"
       ELSE \/ \E c \in MovedEpoch(Epoch(slot)) : Position(c, Epoch(slot))
            \/ ctx' \in FailedBuild(Epoch(slot)) /\ answer' = "error"

Tick ==
    /\ slot < scenario.slots
    /\ slot' = slot + 1 /\ answer' = "none"
    /\ UNCHANGED ctx

----------------------------------------------------------------------------
Builder == New \/ GetLookaheadData

Next ==
    \/ RegistryNext /\ UNCHANGED <<scenario, slot, ctx, answer>>
    \/ Builder /\ UNCHANGED <<registryVars, scenario, slot>>
    \/ Tick /\ UNCHANGED <<registryVars, scenario>>

Spec == Init /\ [][Next]_vars

\* The monitor process is restarted when it ends, its loop goes on, and L1
\* goes on producing blocks.
FairSpec ==
    /\ Spec
    /\ WF_vars(Monitor /\ UNCHANGED <<scenario, slot, ctx, answer>>)
    /\ WF_vars(L1Block /\ UNCHANGED <<scenario, slot, ctx, answer>>)

----------------------------------------------------------------------------
Entries == [timestamp : Nat, root : Roots]

\* The types of the variables.
TypeOK ==
    /\ scenario \in Scenarios
    /\ chain \in Seq(Seq(Events)) /\ peak \in 0 .. MaxBlock /\ Len(chain) <= peak
    /\ db.indexed \in 0 .. MaxBlock
    /\ \A row \in db.rows : row.root \in Roots
    /\ m.pc \in {"down", "idle", "index"} /\ m.end \in 0 .. MaxBlock - ForkDepth
    /\ slot \in Nat /\ answer \in {"ok", "error", "panic", "none"}
    /\ ctx.current \in Seq(Entries) /\ ctx.next \in Seq(Entries)
    /\ ctx.index \in {IndexMax} \cup 0 .. SlotsPerEpoch

(***************************************************************************)
(* A lookahead handed out for the next slot is a lookahead of the epoch of *)
(* the next slot, the epoch whose start get_next_preconfer passes to the   *)
(* contract along with it, whatever slots and epochs the caller skipped,   *)
(* when no build failed.                                                   *)
(***************************************************************************)
LookaheadIsOfEpoch ==
    Without({"build"}) /\ answer = "ok" =>
        \A i \in 1 .. Len(ctx.current) :
            EpochOf(ctx.current[i].timestamp) = Epoch(NextSlot)

(***************************************************************************)
(* The index never passes over the preconfer of the next slot: every entry *)
(* before it is of an earlier slot, and the index that says no preconfer   *)
(* is left is only given when all of them are over.                        *)
(***************************************************************************)
NoPreconferSkipped ==
    Without({"build"}) /\ answer = "ok" =>
        \A i \in 1 .. Len(ctx.current) :
            (ctx.index = IndexMax \/ i <= ctx.index) =>
                ctx.current[i].timestamp < StartOf(NextSlot)

(***************************************************************************)
(* Every entry of a lookahead is an operator that opted in on L1, in a     *)
(* block that a reorg of up to max_l1_fork_depth blocks cannot remove.     *)
(***************************************************************************)
EntriesAreOptedIn ==
    \A i \in 1 .. Len(ctx.current) :
        Row("protocols", ctx.current[i].root, 0) \in RowsUpTo(Final)
=============================================================================
