------------------------------ MODULE Operator ------------------------------
(***************************************************************************)
(* Who preconfirms and who submits: the operators of several nodes         *)
(* (pacaya/src/node/operator/), each with its own cache of the whitelist   *)
(* (pacaya/src/l1/operators_cache/).  Once per heartbeat a node derives    *)
(* its roles from the time, the operators of this and the next epoch as    *)
(* its L1 RPC shows them, and the state of its driver.                     *)
(***************************************************************************)
EXTENDS SlotClock, FiniteSets

CONSTANTS
    Nodes,
    HandoverBuffer, \* handover_start_buffer_ms
    Grace,          \* ejection_grace_period_sec
    ForkTime,       \* the time of the next fork
    ForkTransition, \* fork_switch_transition_period
    MaxLag,         \* how long an L1 RPC may be behind
    MaxTime,        \* bound: the time
    Scenarios       \* sets of Faults, one is fixed in Init

\* "lag"      the L1 RPC is behind, or a read of the operators fails
\* "cold"     the L1 RPC does not answer a node that has just started
\* "driver"   the driver or the inbox cannot be read
\* "unsynced" the driver is not synced
\* "gossip"   the end-of-sequencing block does not reach everyone
\* "eject"    the current operator is replaced, once
\* "early"    the current operator is replaced, once, at the start of its epoch
\* "replace"  the next operator is replaced, once
\* "restart"  a node is restarted, once
\* "fork"     there is a next fork
Faults == {"lag", "cold", "driver", "unsynced", "gossip", "eject", "early", "replace", "restart", "fork"}

Zero == "zero"      \* Address::ZERO

ASSUME OperatorAssumption ==
    /\ HandoverBuffer \in Nat /\ Grace \in Nat /\ MaxTime \in Nat /\ MaxTime >= Genesis
    /\ ForkTime \in Nat /\ ForkTransition \in Nat
    /\ MaxLag \in Nat /\ MaxLag <= (SlotsPerEpoch - HandoverSlots) * SlotDuration
    /\ Zero \notin Nodes
    /\ Scenarios \subseteq SUBSET Faults

VARIABLES
    now,        \* the time of the heartbeat
    schedule,   \* the operator of each epoch, as L1 has it
    cache,      \* per node, OperatorsCacheState: [ts, current, next]
    op,         \* per node, Operator: [next, continuing, wasSynced, cancel, current, ejected]
    status,     \* per node, the last Status
    eosHead,    \* the L2 head ends the sequencing of its preconfer
    ready,      \* nodes that have not had this heartbeat yet
    spent,      \* faults that have happened
    scenario

vars == <<now, schedule, cache, op, status, eosHead, ready, spent, scenario>>

None == -1

Epochs == 0 .. EpochOf(MaxTime) + 1

NewOperator == [next |-> FALSE, continuing |-> FALSE, wasSynced |-> FALSE, cancel |-> 0,
                current |-> Zero, ejected |-> None]
NoCache == [ts |-> None, current |-> Zero, next |-> Zero]
NoStatus == [preconfer |-> FALSE, submitter |-> FALSE, started |-> FALSE, eos |-> FALSE]

Init ==
    /\ now = Genesis
    /\ schedule \in [Epochs -> Nodes]
    /\ cache = [n \in Nodes |-> NoCache]
    /\ op = [n \in Nodes |-> NewOperator]
    /\ status = [n \in Nodes |-> NoStatus]
    /\ eosHead = FALSE
    /\ ready = Nodes
    /\ spent = {}
    /\ scenario \in Scenarios
-----------------------------------------------------------------------------
(* The whitelist as a node sees it                                         *)

\* External: the whitelist at the block of this slot.
Whitelist ==
    [ts |-> SlotBegin(now), current |-> schedule[EpochOf(now)], next |-> schedule[EpochOf(now) + 1]]

\* A stale entry is used for at most MaxLag; a node without an entry fails.
MayBeBehind(n) ==
    /\ "lag" \in scenario
    /\ cache[n] # NoCache /\ cache[n].ts # SlotBegin(now) /\ now - cache[n].ts <= MaxLag

\* get_operators_for_current_and_next_epoch
ReadOperators(n, behind) ==
    IF cache[n].ts = SlotBegin(now) \/ behind THEN cache[n] ELSE Whitelist
-----------------------------------------------------------------------------
(* get_status                                                              *)

\* Faulty: every change of the operator counts as an ejection.
HandleOperatorChangeAlways(n, o, c) ==
    IF c.current = o.current THEN o
    ELSE [o EXCEPT !.current = c.current,
                   !.ejected = IF c.current = n /\ o.current # Zero THEN SlotBegin(now) ELSE @]

\* handle_operator_change
HandleOperatorChange(n, o, c) ==
    IF c.current = o.current THEN o
    ELSE [o EXCEPT !.current = c.current,
                   !.ejected = IF ~o.wasSynced /\ c.current = n /\ o.current # Zero
                               THEN SlotBegin(now) ELSE @]

\* is_within_ejection_grace
WithinGrace(o) == o.ejected # None /\ L2SlotBegin(now) <= o.ejected + Grace

\* Faulty: an entry of the last epoch counts as this epoch's.
IsCurrentOperatorStale(n, o, c) ==
    LET g == HandleOperatorChange(n, o, c)
    IN  IF WithinGrace(g)
        THEN [op |-> [g EXCEPT !.next = FALSE, !.continuing = FALSE], current |-> FALSE]
        ELSE [op |-> [g EXCEPT !.ejected = None, !.next = (c.next = n),
                               !.continuing = (c.current = n /\ c.next = n)],
              current |-> c.current = n]

\* Faulty: no grace period.
IsCurrentOperatorNoGrace(n, o, c) ==
    IF c.ts < EpochBegin(EpochOf(now)) THEN [op |-> o, current |-> o.next]
    ELSE [op |-> [o EXCEPT !.current = c.current, !.next = (c.next = n),
                           !.continuing = (c.current = n /\ c.next = n)],
          current |-> c.current = n]

\* is_current_operator
IsCurrentOperator(n, o, c) ==
    LET g == HandleOperatorChange(n, o, c)
    IN  IF c.ts < EpochBegin(EpochOf(now))
        THEN [op |-> o, current |-> o.next]
        ELSE IF WithinGrace(g)
        THEN [op |-> [g EXCEPT !.next = FALSE, !.continuing = FALSE], current |-> FALSE]
        ELSE [op |-> [g EXCEPT !.ejected = None, !.next = (c.next = n),
                               !.continuing = (c.current = n /\ c.next = n)],
              current |-> c.current = n]

\* is_fork_switch_transition_period
InForkTransition ==
    /\ "fork" \in scenario
    /\ now <= ForkTime /\ now >= ForkTime - ForkTransition

\* is_handover_buffer
IsHandoverBuffer(marker) == TimeFromWindow(now) <= HandoverBuffer /\ ~marker

\* is_preconfer
IsPreconfer(o, current, marker) ==
    /\ ~InForkTransition
    /\ IF InHandoverWindow(now)
       THEN o.next /\ (o.wasSynced \/ ~IsHandoverBuffer(marker))
       ELSE current

\* is_end_of_sequencing
IsEndOfSequencing(o, preconfer, submitter) ==
    ~o.continuing /\ preconfer /\ submitter /\ IsBeforeWindow(now)

\* The status that follows, and what get_status leaves in the operator.
Derive(o, current, synced, marker) ==
    LET preconfer == IsPreconfer(o, current, marker)
        started   == ~o.wasSynced /\ preconfer /\ synced
    IN  [op |-> [o EXCEPT !.wasSynced = preconfer /\ (@ \/ started),
                          !.cancel = IF synced THEN 0 ELSE @ + 1],
         status |-> [preconfer |-> preconfer, submitter |-> current, started |-> started,
                     eos |-> IsEndOfSequencing(o, preconfer, current)]]

\* cancel_if_not_synced_for_sufficient_long_time: the process starts the node
\* again.
Cancels(o) == o.cancel > L2SlotsPerEpoch \div 2

\* A preconfer builds a block, the last one of its sequencing in any case.
Builds(s, synced, built) ==
    IF s.preconfer /\ synced /\ (built \/ s.eos) THEN eosHead' = s.eos ELSE UNCHANGED eosHead

\* is_driver_synced
IsDriverSynced(synced) == synced \/ "unsynced" \in scenario

\* end_of_sequencing_marker_received
MarkerReceived(marker) == IF eosHead THEN marker \/ "gossip" \in scenario ELSE ~marker

\* One heartbeat of node n.
GetStatus(n, behind, synced, marker, built) ==
    LET c == ReadOperators(n, behind)
        r == IsCurrentOperator(n, op[n], c)
        d == Derive(r.op, r.current, synced, marker)
    IN  /\ n \in ready
        /\ behind => MayBeBehind(n)
        /\ IsDriverSynced(synced) /\ MarkerReceived(marker)
        /\ cache' = [cache EXCEPT ![n] = c]
        /\ op' = [op EXCEPT ![n] = IF Cancels(d.op) THEN NewOperator ELSE d.op]
        /\ status' = [status EXCEPT ![n] = d.status]
        /\ Builds(d.status, synced, built)
        /\ ready' = ready \ {n}
        /\ UNCHANGED <<now, schedule, spent, scenario>>

\* The driver or the inbox cannot be read: the step fails after the operator
\* has been checked.
GetStatusFails(n, behind) ==
    LET c == ReadOperators(n, behind)
    IN  /\ n \in ready
        /\ behind => MayBeBehind(n)
        /\ "driver" \in scenario
        /\ cache' = [cache EXCEPT ![n] = c]
        /\ op' = [op EXCEPT ![n] = IsCurrentOperator(n, op[n], c).op]
        /\ status' = [status EXCEPT ![n] = NoStatus]
        /\ ready' = ready \ {n}
        /\ UNCHANGED <<now, schedule, eosHead, spent, scenario>>

\* No entry and no answer: the step fails at once.
GetStatusEmpty(n) ==
    /\ n \in ready
    /\ "cold" \in scenario /\ cache[n] = NoCache
    /\ status' = [status EXCEPT ![n] = NoStatus]
    /\ ready' = ready \ {n}
    /\ UNCHANGED <<now, schedule, cache, op, eosHead, spent, scenario>>

\* The process of a node starts again.
Restart(n) ==
    /\ "restart" \in scenario \ spent
    /\ spent' = spent \cup {"restart"}
    /\ cache' = [cache EXCEPT ![n] = NoCache]
    /\ op' = [op EXCEPT ![n] = NewOperator]
    /\ status' = [status EXCEPT ![n] = NoStatus]
    /\ UNCHANGED <<now, schedule, eosHead, ready, scenario>>
-----------------------------------------------------------------------------
(* The environment                                                         *)

\* External: an operator leaves the whitelist, with the block of a new slot.
Replaced(fault, epoch) ==
    /\ fault \in scenario \ spent
    /\ spent' = spent \cup {fault}
    /\ \E n \in Nodes \ {schedule[epoch]} : schedule' = [schedule EXCEPT ![epoch] = n]

\* The next heartbeat.
Tick ==
    /\ ready = {}
    /\ now + Heartbeat <= MaxTime
    /\ now' = now + Heartbeat
    /\ ready' = Nodes
    /\ \/ UNCHANGED <<schedule, spent>>
       \/ /\ SlotBegin(now') = now'
          /\ \/ now' > EpochBegin(EpochOf(now')) + MaxLag /\ Replaced("eject", EpochOf(now'))
             \/ now' <= EpochBegin(EpochOf(now')) + MaxLag /\ Replaced("early", EpochOf(now'))
             \/ Replaced("replace", EpochOf(now') + 1)
    /\ UNCHANGED <<cache, op, status, eosHead, scenario>>

Next ==
    \/ \E n \in Nodes :
        \/ \E behind, synced, marker, built \in BOOLEAN :
                GetStatus(n, behind, synced, marker, built)
        \/ \E behind \in BOOLEAN : GetStatusFails(n, behind)
        \/ GetStatusEmpty(n) \/ Restart(n)
    \/ Tick

Spec == Init /\ [][Next]_vars
-----------------------------------------------------------------------------
Without(fs) == scenario \cap fs = {}

Operators == Nodes \cup {Zero}

TypeOK ==
    /\ now \in Nat /\ now >= Genesis
    /\ schedule \in [Epochs -> Nodes]
    /\ cache \in [Nodes -> [ts : Int, current : Operators, next : Operators]]
    /\ op \in [Nodes -> [next : BOOLEAN, continuing : BOOLEAN, wasSynced : BOOLEAN, cancel : Nat,
                         current : Operators, ejected : Int]]
    /\ status \in [Nodes -> [preconfer : BOOLEAN, submitter : BOOLEAN, started : BOOLEAN,
                             eos : BOOLEAN]]
    /\ \A n \in Nodes : op[n].cancel <= L2SlotsPerEpoch \div 2
    /\ eosHead \in BOOLEAN
    /\ ready \subseteq Nodes
    /\ scenario \subseteq Faults

\* Whose turn it is.
Submitter == schedule[EpochOf(now)]
Preconfer == schedule[IF InHandoverWindow(now) THEN EpochOf(now) + 1 ELSE EpochOf(now)]

\* As long as no operator is replaced, a node takes itself for the preconfer
\* or the submitter only in its turn, however stale its view of L1 is, up to
\* MaxLag: an entry of the last epoch is used for what it says about the next
\* one (is_current_operator).
OnlyInTurn ==
    Without({"eject", "early", "replace"}) =>
        \A n \in Nodes \ ready :
            /\ status[n].preconfer => n = Preconfer
            /\ status[n].submitter => n = Submitter

\* The grace period covers the lag of an L1 RPC.  An operator is replaced while
\* an L1 RPC is behind only when every node has run since the last epoch with a
\* driver that it can read: one that has started again, or that was cold, knows
\* of no operator before (handle_operator_change), and does not wait.
GraceFits == MaxLag <= Grace
SeparateFaults ==
    \A s \in Scenarios :
        \/ s \cap {"eject", "early", "replace"} = {}
        \/ "lag" \notin s
        \/ s \subseteq {"lag", "gossip", "eject"}

\* No two nodes preconfirm in the same heartbeat.  When an operator is ejected
\* in the middle of its epoch, its successor waits for the grace period, in
\* which the ejected one learns about it (handle_operator_change,
\* is_within_ejection_grace).
OnePreconfer ==
    \A m, n \in Nodes \ ready : status[m].preconfer /\ status[n].preconfer => m = n

\* The buffer is over in the handover window: the defaults are 8 slots of 12
\* seconds, a buffer of 6 seconds and heartbeats of 2 seconds
\* (shasta/src/config/mod.rs).
HandoverFits == HandoverBuffer + Heartbeat < HandoverSlots * SlotDuration

\* Without failures of the drivers the node whose turn it is preconfirms, in
\* particular from the first heartbeat of its epoch, after the handover
\* buffer at the latest: the grace period is only for ejections.
TurnIsTaken ==
    ready = {} /\ Without({"cold", "driver", "unsynced", "eject", "early", "replace", "restart",
                           "fork"}) =>
        \/ status[Preconfer].preconfer
        \/ InHandoverWindow(now) /\ TimeFromWindow(now) <= HandoverBuffer

\* There is a handover window, and no entry of the last epoch is used in the
\* heartbeat before it.
WindowFits == HandoverSlots # 0 /\ MaxLag < (SlotsPerEpoch - HandoverSlots) * SlotDuration

\* The preconfer that stops with the handover window has marked its last block
\* as the end of its sequencing, and one that has marked a block stops
\* (is_end_of_sequencing).
EndIsTold ==
    [][Without({"driver", "unsynced", "replace", "fork"}) =>
        \A n \in ready \ ready' :
            /\ status[n].eos => ~status'[n].preconfer
            /\ InHandoverWindow(now) /\ status[n].preconfer /\ ~status'[n].preconfer
                => status[n].eos]_vars
=============================================================================
