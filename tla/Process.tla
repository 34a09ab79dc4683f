------------------------------ MODULE Process ------------------------------
(***************************************************************************)
(* The process and what runs in it: the supervisor, the chain monitors of  *)
(* the iterations of a Shasta node, and the loops of the iterations of a   *)
(* permissionless node.                                                    *)
(***************************************************************************)
EXTENDS ChainMonitor, Permissionless

vars == <<supVars, monVars, loopVars, scenario>>

ASSUME ProcessAssumption ==
    /\ MaxIter \in Nat \ {0} /\ WatchdogMax \in Nat
    /\ MaxPerPoll \in Nat /\ QueueSize \in Nat \ {0} /\ ProposalBlocks \in Nat \ {0}
    /\ \A s \in Scenarios : /\ s.fork \in {"shasta", "permissionless"}
                           /\ s.faults \subseteq Faults /\ s.iters \in Iter

Init ==
    /\ scenario \in Scenarios
    /\ SupervisorInit /\ MonitorInit /\ LoopInit

Open == sup.pc # "closed"
Shasta == scenario.fork = "shasta"

Next ==
    /\ UNCHANGED scenario
    /\ \/ SupervisorSteps /\ UNCHANGED <<monVars, loopVars>>
       \/ Open /\ Shasta /\ (ChainSteps \/ MonitorSteps) /\ UNCHANGED <<supVars, loopVars>>
       \/ \E i \in Iter : LoopSteps(i) /\ UNCHANGED monVars
       \/ ~Shasta /\ EnvSteps /\ UNCHANGED monVars

Spec == Init /\ [][Next]_vars

\* main goes on, a cancelled task ends, a loop takes its next step.
Task(i) ==
    \/ TaskEnds(i) /\ UNCHANGED <<monVars, loopVars, scenario>>
    \/ LoopSteps(i) /\ UNCHANGED <<monVars, scenario>>

Main ==
    /\ RunNode \/ StartNode \/ Cancelled \/ Recreate \/ Close
    /\ UNCHANGED <<monVars, loopVars, scenario>>

FairSpec == Spec /\ WF_vars(Main) /\ \A i \in Iter : WF_vars(Task(i))

----------------------------------------------------------------------------
\* The types of the variables.
TypeOK ==
    /\ sup.pc \in {"new", "monitored", "waiting", "failed", "stopped", "closing", "closed"}
    /\ sup.iter \in Iter /\ hook \in {0} \cup Iter
    /\ \A i \in Iter : /\ token[i] \in BOOLEAN
                       /\ tasks[i] \subseteq MonitorTasks \cup NodeTasks
                       /\ node[i].pc \in {"idle", "step"}
                       /\ node[i].counter \in 0 .. WatchdogMax + 1
                       /\ Len(mon[i].queue) <= QueueSize
                       /\ ev[i].mode \in {"down", "sub", "poll"}
                       /\ Len(ev[i].out) <= scenario.l1 \/ ~Without({"rpclag"})

(***************************************************************************)
(* The driver never receives two commitments of this process to the same   *)
(* block number, although a cancelled iteration leaves its loop, its       *)
(* transaction monitor and its unproposed blocks behind, and although a    *)
(* publication may fail with the block published.  It takes a geth that is *)
(* up to date with the driver at the next heartbeat, and steps that do not *)
(* outlast the wait of main: no other check guards the number.             *)
(***************************************************************************)
OneCommitment ==
    Without({"lag", "slow"}) =>
        \A j, k \in 1 .. Len(commits) : j < k => commits[j] # commits[k]

(***************************************************************************)
(* The blocks on L1 are proposed in the order of their numbers and none is *)
(* proposed twice, whatever iteration proposed them.                       *)
(***************************************************************************)
ProposedInOrder ==
    Without({"lag", "slow"}) =>
        \A j, k \in 1 .. Len(proposed) : j < k => proposed[j] < proposed[k]

(***************************************************************************)
(* The metric counts no reorg that the node itself announced: at most the  *)
(* reorgs that came as a surprise, across reorgs, reanchorings and         *)
(* recreated nodes.  A missed header looks like a reorg, and so the        *)
(* subscription must not fail; a second announcement replaces the first    *)
(* one, and so the headers of the first must have been dispatched; and a   *)
(* chain monitor left behind by a constructor that failed counts every     *)
(* reorg once more.                                                        *)
(***************************************************************************)
ReorgsAreReal ==
    Without({"reconnect", "backlog", "create", "slow"}) => observed <= surprises

(***************************************************************************)
(* A listener never delivers an event twice or out of order, whether it    *)
(* polls or subscribes, loses its connection or skips over a gap, as long  *)
(* as the head it reads never goes back; and it leaves out no event        *)
(* between two that it delivers while its connection holds and it keeps up.*)
(***************************************************************************)
EventsInOrder ==
    Without({"rpclag"}) =>
        \A i \in Iter : \A k \in 1 .. Len(ev[i].out) - 1 :
            /\ ev[i].out[k] < ev[i].out[k + 1]
            /\ Without({"reconnect", "slowpoll"}) => ev[i].out[k + 1] = ev[i].out[k] + 1

(***************************************************************************)
(* Every task of an iteration ends once the process has gone on to another *)
(* one.  Not so when a constructor failed after the chain monitor was      *)
(* started: nothing cancels its token.                                     *)
(***************************************************************************)
TasksEnd ==
    \A i \in Iter : (Without({"create"}) /\ sup.iter > i) ~> (tasks[i] = {})

(***************************************************************************)
(* The watchdog: a node whose steps all fail is replaced, whether the slot *)
(* cannot be read or the front of the queue was handed over before, while  *)
(* its steps go on preconfirming blocks in between.  It takes a node that  *)
(* is the preconfer of every slot: a step without a part in it is a        *)
(* success, and resets the watchdog.                                       *)
(***************************************************************************)
DeadNodeIsReplaced ==
    \A i \in Iter :
        (/\ sup = [pc |-> "waiting", iter |-> i] /\ i < scenario.iters
         /\ ~Without({"dead"}) \/ (Without({"other"}) /\ node[i].pending /\ sent[i] = <<>>))
            ~> (sup.iter > i \/ sup.pc = "closed")
=============================================================================
