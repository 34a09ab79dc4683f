---------------------------- MODULE Supervisor -----------------------------
(***************************************************************************)
(* The process of the node (node/src/main.rs): a loop whose every          *)
(* iteration creates a node with a cancellation token of its own, starts   *)
(* its tasks, waits for the token or for a signal, and starts over.  The   *)
(* tasks are detached: nothing joins them.  A task ends when it sees that  *)
(* the token of its iteration is cancelled.                                *)
(***************************************************************************)
EXTENDS Naturals, FiniteSets, Sequences

CONSTANTS
    MaxIter,        \* bound: the number of iterations
    WatchdogMax,    \* watchdog_max_counter
    Scenarios       \* [fork, faults, iters, blocks, l1]: see Init of Process

Faults == {"config", "create", "warmup", "funds", "panic", "signal", "slow",
           "rpc", "dead", "fatal", "late", "old", "other", "timeout", "lag",
           "reorg", "expected", "backlog", "reconnect", "slowpoll", "rpclag"}

Iter == 1 .. MaxIter

VARIABLES
    sup,        \* [pc, iter]: where the loop of main is
    token,      \* token[i]: is the token of iteration i cancelled?
    tasks,      \* tasks[i]: the tasks of iteration i that run
    hook,       \* the iteration whose token the panic hook cancels
    scenario    \* the fork, the faults and the bounds of this behaviour

supVars == <<sup, token, tasks, hook>>

Without(fs) == scenario.faults \cap fs = {}

\* The tasks that ChainMonitor::start spawns, and those of a whole node.
MonitorTasks == {"dispatcher", "blocks", "events"}
NodeTasks == IF scenario.fork = "shasta" THEN {"loop", "funds", "whitelist", "server"}
                                         ELSE {"loop", "server"}

SupervisorInit ==
    /\ sup = [pc |-> "new", iter |-> 1]
    /\ token = [i \in Iter |-> FALSE]
    /\ tasks = [i \in Iter |-> {}]
    /\ hook = 0

\* cancel and cancel_on_critical_error, which differ in a metric.
Cancel(i) == token' = [token EXCEPT ![i] = TRUE]

----------------------------------------------------------------------------
(***************************************************************************)
(* run_node.  Config, fork, token and panic hook; then the constructor of  *)
(* the fork's node.  create_shasta_node starts the chain monitor before it *)
(* builds the node and runs its warmup; create_permissionless_node has     *)
(* neither.  An error of a constructor leaves the token as it is, and with *)
(* it the tasks that were already started; an error of the warmup cancels  *)
(* the token.                                                              *)
(***************************************************************************)
RunNode ==
    /\ sup.pc = "new"
    /\ sup' = [sup EXCEPT !.pc = IF scenario.fork = "shasta" THEN "monitored" ELSE "waiting"]
    /\ hook' = sup.iter
    /\ tasks' = [tasks EXCEPT ![sup.iter] =
                    IF scenario.fork = "shasta" THEN MonitorTasks ELSE NodeTasks]
    /\ token' = token

RunNodeFails ==
    /\ sup.pc = "new" /\ ~Without({"config"})
    /\ sup' = [sup EXCEPT !.pc = "failed"]
    /\ hook' \in {hook, sup.iter}
    /\ UNCHANGED <<token, tasks>>

StartNode ==
    /\ sup.pc = "monitored"
    /\ sup' = [sup EXCEPT !.pc = "waiting"]
    /\ tasks' = [tasks EXCEPT ![sup.iter] = @ \cup NodeTasks]
    /\ UNCHANGED <<token, hook>>

\* Faulty: an error of the warmup leaves the token as it is.
StartNodeFailsQuietly ==
    /\ sup.pc = "monitored" /\ ~Without({"create", "warmup"})
    /\ sup' = [sup EXCEPT !.pc = "failed"]
    /\ UNCHANGED <<token, tasks, hook>>

StartNodeFails ==
    /\ sup.pc = "monitored"
    /\ sup' = [sup EXCEPT !.pc = "failed"]
    /\ \/ ~Without({"create"}) /\ token' = token
       \/ ~Without({"warmup"}) /\ Cancel(sup.iter)
    /\ UNCHANGED <<tasks, hook>>

----------------------------------------------------------------------------
(***************************************************************************)
(* wait_for_the_termination, and the loop of main.  Five seconds pass      *)
(* before a new node is made: enough for every task to see that its token  *)
(* is cancelled, unless the scenario says that a step outlasts them.       *)
(***************************************************************************)
Cancelled ==
    /\ sup.pc = "waiting" /\ token[sup.iter]
    /\ sup' = [sup EXCEPT !.pc = "stopped"]
    /\ UNCHANGED <<token, tasks, hook>>

\* Faulty: a new node is made at once.
RecreateAtOnce ==
    /\ sup.pc \in {"stopped", "failed"} /\ sup.iter < scenario.iters
    /\ sup' = [pc |-> "new", iter |-> sup.iter + 1]
    /\ UNCHANGED <<token, tasks, hook>>

Recreate ==
    /\ sup.pc \in {"stopped", "failed"} /\ sup.iter < scenario.iters
    /\ Without({"slow"}) => \A i \in Iter : token[i] => tasks[i] = {}
    /\ sup' = [pc |-> "new", iter |-> sup.iter + 1]
    /\ UNCHANGED <<token, tasks, hook>>

\* SIGTERM and Ctrl+C: a signal that comes while nobody waits for it is lost.
Signal ==
    /\ sup.pc = "waiting" /\ ~Without({"signal"})
    /\ Cancel(sup.iter)
    /\ sup' = [sup EXCEPT !.pc = "closing"]
    /\ UNCHANGED <<tasks, hook>>

\* The end of the process takes its tasks with it.
Close ==
    /\ sup.pc = "closing"
    /\ sup' = [sup EXCEPT !.pc = "closed"]
    /\ tasks' = [i \in Iter |-> {}]
    /\ UNCHANGED <<token, hook>>

----------------------------------------------------------------------------
(* The tasks. *)

\* A task sees that its token is cancelled; the loop only between two steps.
TaskEnds(i) ==
    /\ token[i]
    /\ \E t \in tasks[i] \ {"loop"} : tasks' = [tasks EXCEPT ![i] = @ \ {t}]
    /\ UNCHANGED <<sup, token, hook>>

\* monitor_funds_level: the initial balance is too low or cannot be read.
FundsFail(i) ==
    /\ ~Without({"funds"}) /\ "funds" \in tasks[i]
    /\ tasks' = [tasks EXCEPT ![i] = @ \ {"funds"}]
    /\ Cancel(i)
    /\ UNCHANGED <<sup, hook>>

\* The hook of a panic is global: it cancels the token of the last iteration
\* that set it, whichever iteration the task is of.
TaskPanics(i) ==
    /\ ~Without({"panic"})
    /\ \E t \in tasks[i] : tasks' = [tasks EXCEPT ![i] = @ \ {t}]
    /\ Cancel(hook)
    /\ UNCHANGED <<sup, hook>>

\* Faulty: the counter stops at its maximum.
IncrementToMax(counter) == IF counter < WatchdogMax THEN counter + 1 ELSE counter

\* Watchdog::increment
Increment(counter) == counter + 1
Bites(counter) == counter > WatchdogMax

SupervisorSteps ==
    \/ RunNode \/ RunNodeFails \/ StartNode \/ StartNodeFails
    \/ Cancelled \/ Recreate \/ Signal \/ Close
    \/ \E i \in Iter : TaskEnds(i) \/ FundsFail(i) \/ TaskPanics(i)
=============================================================================
