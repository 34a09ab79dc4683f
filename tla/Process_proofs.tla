-------------------------- MODULE Process_proofs ---------------------------
(***************************************************************************)
(* The safety properties of the process, for any number of iterations,     *)
(* blocks and reorgs, any schedule, and any combination of faults but      *)
(* those that the properties themselves exclude.                           *)
(*                                                                         *)
(* All but the order of the events rest on one fact about main: when no    *)
(* task outlasts the wait for its end, and no constructor leaves a chain   *)
(* monitor behind, only the last iteration has tasks.                      *)
(***************************************************************************)
EXTENDS Process, TLAPS

-----------------------------------------------------------------------------
(* The iterations and their tasks.                                         *)

Pcs == {"new", "monitored", "waiting", "failed", "stopped", "closing", "closed"}
Tasks == {"dispatcher", "blocks", "events", "loop", "funds", "whitelist", "server"}

SupTypes ==
    /\ scenario \in Scenarios
    /\ sup \in [pc : Pcs, iter : Iter]
    /\ token \in [Iter -> BOOLEAN]
    /\ tasks \in [Iter -> SUBSET Tasks]

\* Iteration i has not begun.
Ahead(i) == i > sup.iter \/ (i = sup.iter /\ sup.pc = "new")

\* Nothing runs in two iterations at once.
Alone == Without({"slow"}) /\ (Shasta => Without({"create"}))

(***************************************************************************)
(* An iteration that has not begun has no tasks.  An iteration that is     *)
(* over has none either, because main waits for the tasks of the last one  *)
(* to end: its token is cancelled, or it had none.                         *)
(***************************************************************************)
SupInv ==
    /\ SupTypes
    /\ \A i \in Iter : Ahead(i) => tasks[i] = {}
    /\ sup.pc = "monitored" => Shasta
    /\ sup.pc = "stopped" => token[sup.iter]
    /\ Alone => /\ \A i \in Iter : i # sup.iter => tasks[i] = {}
                /\ sup.pc = "failed" => (token[sup.iter] \/ tasks[sup.iter] = {})

\* What a step of a task does to the supervisor.
Shrinks ==
    /\ sup' = sup /\ scenario' = scenario
    /\ token' \in [Iter -> BOOLEAN] /\ tasks' \in [Iter -> SUBSET Tasks]
    /\ \A i \in Iter : tasks'[i] \subseteq tasks[i] /\ (token[i] => token'[i])

\* Tasks that end, and tokens that are cancelled, keep the invariant.
LEMMA TasksOnlyEnd ==
    ASSUME SupInv, Shrinks
    PROVE  SupInv'
<1>1. /\ sup' = sup /\ scenario' = scenario /\ sup.iter \in Iter
      /\ \A i \in Iter : tasks'[i] \subseteq tasks[i] /\ (token[i] => token'[i])
  BY DEF Shrinks, SupInv, SupTypes
<1>2. SupTypes'
  BY DEF Shrinks, SupInv, SupTypes
<1>3. (\A i \in Iter : Ahead(i) => tasks[i] = {})'
  BY <1>1 DEF SupInv, Ahead
<1>4. (sup.pc = "monitored" => Shasta)' /\ (sup.pc = "stopped" => token[sup.iter])'
  BY <1>1 DEF SupInv, Shasta
<1>5. (Alone => /\ \A i \in Iter : i # sup.iter => tasks[i] = {}
                /\ sup.pc = "failed" => (token[sup.iter] \/ tasks[sup.iter] = {}))'
  <2>1. Alone' = Alone
    BY <1>1 DEF Alone, Shasta, Without
  <2>. QED  BY <1>1, <2>1 DEF SupInv
<1>. QED  BY <1>2, <1>3, <1>4, <1>5 DEF SupInv

\* A step of a loop ends at most the loop, and cancels at most its token.
LEMMA LoopShrinks ==
    ASSUME SupInv, UNCHANGED scenario, NEW i \in Iter, LoopSteps(i)
    PROVE  Shrinks
<1>1. /\ sup \in [pc : Pcs, iter : Iter] /\ token \in [Iter -> BOOLEAN]
      /\ tasks \in [Iter -> SUBSET Tasks]
  BY DEF SupInv, SupTypes
<1>2. sup' = sup
  BY DEF LoopSteps, LoopEnds, ReadSlot, ReadSlotFails, HandleError, Preconfirm, NoBlockWanted,
         NotPreconfer, PublishFails, SubmitOldest, Succeeds, Errs, supVars
<1>3. tasks' = tasks \/ tasks' = [tasks EXCEPT ![i] = @ \ {"loop"}]
  BY DEF LoopSteps, LoopEnds, ReadSlot, ReadSlotFails, HandleError, Preconfirm, NoBlockWanted,
         NotPreconfer, PublishFails, SubmitOldest, Succeeds, Errs, supVars
<1>4. token' = token \/ token' = [token EXCEPT ![i] = TRUE]
  BY DEF LoopSteps, LoopEnds, ReadSlot, ReadSlotFails, HandleError, Preconfirm, NoBlockWanted,
         NotPreconfer, PublishFails, SubmitOldest, Succeeds, Errs, supVars, Cancel
<1>5. tasks' \in [Iter -> SUBSET Tasks] /\ \A j \in Iter : tasks'[j] \subseteq tasks[j]
  BY <1>1, <1>3
<1>6. token' \in [Iter -> BOOLEAN] /\ \A j \in Iter : token[j] => token'[j]
  BY <1>1, <1>4
<1>. QED  BY <1>2, <1>5, <1>6 DEF Shrinks

\* So does the end of any other task.
LEMMA TaskStepsShrink ==
    ASSUME SupInv, UNCHANGED scenario, NEW i \in Iter, TaskEnds(i) \/ FundsFail(i) \/ TaskPanics(i)
    PROVE  Shrinks
<1>1. /\ sup \in [pc : Pcs, iter : Iter] /\ token \in [Iter -> BOOLEAN]
      /\ tasks \in [Iter -> SUBSET Tasks]
  BY DEF SupInv, SupTypes
<1>2. sup' = sup
  BY DEF TaskEnds, FundsFail, TaskPanics
<1>3. \E t \in Tasks : tasks' = [tasks EXCEPT ![i] = @ \ {t}]
  BY <1>1 DEF TaskEnds, FundsFail, TaskPanics, Tasks
<1>4. \E j : token' = token \/ token' = [token EXCEPT ![j] = TRUE]
  BY DEF TaskEnds, FundsFail, TaskPanics, Cancel
<1>5. tasks' \in [Iter -> SUBSET Tasks] /\ \A j \in Iter : tasks'[j] \subseteq tasks[j]
  BY <1>1, <1>3
<1>6. token' \in [Iter -> BOOLEAN] /\ \A j \in Iter : token[j] => token'[j]
  BY <1>1, <1>4
<1>. QED  BY <1>2, <1>5, <1>6 DEF Shrinks

\* The first iteration has not begun.
LEMMA SupInitially == Init => SupInv
<1> SUFFICES ASSUME Init PROVE SupInv
  OBVIOUS
<1>1. 1 \in Iter
  BY ProcessAssumption DEF Iter
<1>. QED  BY <1>1 DEF Init, SupervisorInit, SupInv, SupTypes, Pcs

\* The steps of main itself.
LEMMA MainKeeps ==
    ASSUME SupInv, UNCHANGED scenario,
           RunNode \/ RunNodeFails \/ StartNode \/ StartNodeFails
           \/ Cancelled \/ Recreate \/ Signal \/ Close
    PROVE  SupInv'
<1> DEFINE n == sup.iter
<1>1. /\ sup \in [pc : Pcs, iter : Iter] /\ token \in [Iter -> BOOLEAN]
      /\ tasks \in [Iter -> SUBSET Tasks] /\ n \in Iter /\ scenario \in Scenarios
      /\ scenario' = scenario
  BY DEF SupInv, SupTypes
<1>2. Iter \subseteq Nat /\ scenario.iters \in Iter
  BY <1>1, ProcessAssumption DEF Iter
<1>3. NodeTasks \subseteq Tasks /\ MonitorTasks \subseteq Tasks
  BY DEF NodeTasks, MonitorTasks, Tasks
<1>4. Alone' = Alone /\ Shasta' = Shasta /\ Without({"slow"})' = Without({"slow"})
  BY <1>1 DEF Alone, Shasta, Without
<1>5. CASE RunNode
  <2>1. sup' \in [pc : Pcs, iter : Iter] /\ sup'.iter = n /\ sup'.pc \in {"monitored", "waiting"}
    BY <1>1, <1>5 DEF RunNode, Pcs
  <2>2. sup'.pc = "monitored" => Shasta
    BY <1>1, <1>5 DEF RunNode, Shasta
  <2>3. tasks' \in [Iter -> SUBSET Tasks] /\ \A i \in Iter : i # n => tasks'[i] = tasks[i]
    BY <1>1, <1>3, <1>5 DEF RunNode
  <2>4. token' = token
    BY <1>5 DEF RunNode
  <2>. QED  BY <1>1, <1>2, <1>4, <2>1, <2>2, <2>3, <2>4 DEF SupInv, SupTypes, Ahead
<1>6. CASE RunNodeFails
  <2>1. /\ sup' \in [pc : Pcs, iter : Iter] /\ sup'.iter = n /\ sup'.pc = "failed"
        /\ token' = token /\ tasks' = tasks /\ sup.pc = "new"
    BY <1>1, <1>6 DEF RunNodeFails, Pcs
  <2>2. tasks[n] = {}
    BY <1>1, <2>1 DEF SupInv, Ahead
  <2>. QED  BY <1>1, <1>2, <1>4, <2>1, <2>2 DEF SupInv, SupTypes, Ahead
<1>7. CASE StartNode
  <2>1. /\ sup' \in [pc : Pcs, iter : Iter] /\ sup'.iter = n /\ sup'.pc = "waiting"
        /\ token' = token
    BY <1>1, <1>7 DEF StartNode, Pcs
  <2>2. tasks' \in [Iter -> SUBSET Tasks] /\ \A i \in Iter : i # n => tasks'[i] = tasks[i]
    BY <1>1, <1>3, <1>7 DEF StartNode
  <2>. QED  BY <1>1, <1>2, <1>4, <2>1, <2>2 DEF SupInv, SupTypes, Ahead
<1>8. CASE StartNodeFails
  <2>1. /\ sup' \in [pc : Pcs, iter : Iter] /\ sup'.iter = n /\ sup'.pc = "failed"
        /\ tasks' = tasks /\ sup.pc = "monitored"
    BY <1>1, <1>8 DEF StartNodeFails, Pcs
  <2>2. token' \in [Iter -> BOOLEAN]
    BY <1>1, <1>8 DEF StartNodeFails, Cancel
  <2>3. Alone => token'[n]
    BY <1>1, <1>8, <2>1 DEF StartNodeFails, Cancel, Alone, SupInv
  <2>. QED  BY <1>1, <1>2, <1>4, <2>1, <2>2, <2>3 DEF SupInv, SupTypes, Ahead
<1>9. CASE Cancelled
  <2>1. /\ sup' \in [pc : Pcs, iter : Iter] /\ sup'.iter = n /\ sup'.pc = "stopped"
        /\ tasks' = tasks /\ token' = token /\ token[n]
    BY <1>1, <1>9 DEF Cancelled, Pcs
  <2>. QED  BY <1>1, <1>2, <1>4, <2>1 DEF SupInv, SupTypes, Ahead
<1>10. CASE Recreate
  <2>1. /\ sup' = [pc |-> "new", iter |-> n + 1] /\ n < scenario.iters
        /\ sup.pc \in {"stopped", "failed"}
        /\ tasks' = tasks /\ token' = token
        /\ Without({"slow"}) => \A i \in Iter : token[i] => tasks[i] = {}
    BY <1>10 DEF Recreate
  <2>2. n + 1 \in Iter
    BY <1>1, <1>2, <2>1, ProcessAssumption DEF Iter
  <2>3. SupTypes'
    BY <1>1, <2>1, <2>2 DEF SupTypes, Pcs
  <2>4. ASSUME NEW i \in Iter, i >= n + 1 PROVE tasks[i] = {}
    <3>1. i \in Nat /\ n \in Nat
      BY <1>1, <1>2
    <3>2. i > n
      BY <2>4, <3>1
    <3>. QED  BY <3>2 DEF SupInv, Ahead
  <2>5. Alone => tasks[n] = {}
    BY <1>1, <2>1 DEF SupInv, Alone
  <2>6. (Alone => \A i \in Iter : i # sup.iter => tasks[i] = {})'
    BY <1>4, <2>1, <2>5 DEF SupInv
  <2>7. ASSUME NEW i \in Iter, Ahead(i)' PROVE tasks'[i] = {}
    <3>1. i \in Nat /\ n \in Nat /\ sup'.iter = n + 1
      BY <1>1, <1>2, <2>1
    <3>2. i >= n + 1
      BY <2>7, <3>1 DEF Ahead
    <3>. QED  BY <2>1, <2>4, <3>2
  <2>. QED  BY <2>1, <2>3, <2>6, <2>7 DEF SupInv
<1>11. CASE Signal
  <2>1. /\ sup' \in [pc : Pcs, iter : Iter] /\ sup'.iter = n /\ sup'.pc = "closing"
        /\ tasks' = tasks
    BY <1>1, <1>11 DEF Signal, Pcs
  <2>2. token' \in [Iter -> BOOLEAN]
    BY <1>1, <1>11 DEF Signal, Cancel
  <2>. QED  BY <1>1, <1>2, <1>4, <2>1, <2>2 DEF SupInv, SupTypes, Ahead
<1>12. CASE Close
  <2>1. /\ sup' \in [pc : Pcs, iter : Iter] /\ sup'.iter = n /\ sup'.pc = "closed"
        /\ token' = token
    BY <1>1, <1>12 DEF Close, Pcs
  <2>2. tasks' \in [Iter -> SUBSET Tasks] /\ \A i \in Iter : tasks'[i] = {}
    BY <1>12 DEF Close
  <2>. QED  BY <1>1, <1>2, <1>4, <2>1, <2>2 DEF SupInv, SupTypes, Ahead
<1>. QED  BY <1>5, <1>6, <1>7, <1>8, <1>9, <1>10, <1>11, <1>12

\* Every step keeps the invariant.
LEMMA SupInductive == SupInv /\ [Next]_vars => SupInv'
<1> SUFFICES ASSUME SupInv, [Next]_vars PROVE SupInv'
  OBVIOUS
<1>1. CASE UNCHANGED <<supVars, scenario>>
  <2>1. Shrinks
    BY <1>1 DEF Shrinks, supVars, SupInv, SupTypes
  <2>. QED  BY <2>1, TasksOnlyEnd
<1>2. CASE SupervisorSteps /\ UNCHANGED scenario
  <2>1. CASE \E i \in Iter : TaskEnds(i) \/ FundsFail(i) \/ TaskPanics(i)
    BY <1>2, <2>1, TaskStepsShrink, TasksOnlyEnd
  <2>. QED  BY <1>2, <2>1, MainKeeps DEF SupervisorSteps
<1>3. CASE UNCHANGED scenario /\ \E i \in Iter : LoopSteps(i)
  BY <1>3, LoopShrinks, TasksOnlyEnd
<1>4. CASE EnvSteps /\ UNCHANGED scenario
  BY <1>1, <1>4 DEF EnvSteps, GethFollows, Mined, SendFails
<1>. QED  BY <1>1, <1>2, <1>3, <1>4 DEF Next, vars

\* What a step does to the iterations that have not begun, and to their tasks.
LEMMA BeginsOnce ==
    ASSUME SupInv, [Next]_vars, NEW i \in Iter
    PROVE  /\ Ahead(i)' => Ahead(i)
           /\ ~Ahead(i) => tasks'[i] \cap MonitorTasks \subseteq tasks[i]
           /\ ~Ahead(i) /\ ~Shasta => tasks'[i] \subseteq tasks[i]
           /\ scenario' = scenario
           /\ sup'.iter \in Iter /\ (sup'.iter = sup.iter \/ Ahead(sup'.iter))
<1>1. /\ sup \in [pc : Pcs, iter : Iter] /\ tasks \in [Iter -> SUBSET Tasks]
      /\ sup.iter \in Nat /\ i \in Nat
  BY ProcessAssumption DEF SupInv, SupTypes, Iter
<1>1a. sup'.iter \in Iter
  BY SupInductive DEF SupInv, SupTypes
<1>2. CASE UNCHANGED <<sup, tasks>> /\ scenario' = scenario
  BY <1>1a, <1>2 DEF Ahead
<1>3. CASE Shrinks
  BY <1>1a, <1>3 DEF Shrinks, Ahead
<1>4. CASE SupervisorSteps /\ UNCHANGED scenario
  <2>1. CASE \E j \in Iter : TaskEnds(j) \/ FundsFail(j) \/ TaskPanics(j)
    BY <1>3, <1>4, <2>1, TaskStepsShrink
  <2>2. CASE RunNode
    <3>1. sup.pc = "new" /\ sup'.iter = sup.iter /\ sup'.pc # "new"
      BY <1>1, <2>2 DEF RunNode
    <3>2. i # sup.iter => tasks'[i] = tasks[i]
      BY <1>1, <2>2 DEF RunNode
    <3>. QED  BY <1>1, <1>1a, <1>4, <3>1, <3>2 DEF Ahead
  <2>3. CASE StartNode
    <3>1. sup'.iter = sup.iter /\ sup'.pc # "new" /\ Shasta
      BY <1>1, <2>3 DEF StartNode, SupInv
    <3>2. tasks'[i] \subseteq tasks[i] \cup NodeTasks
      BY <1>1, <2>3 DEF StartNode
    <3>3. NodeTasks \cap MonitorTasks = {}
      BY DEF NodeTasks, MonitorTasks
    <3>. QED  BY <1>1, <1>4, <3>1, <1>1a, <3>2, <3>3 DEF Ahead
  <2>4. CASE Recreate
    <3>1. sup'.iter = sup.iter + 1 /\ tasks' = tasks
      BY <2>4 DEF Recreate
    <3>. QED  BY <1>1, <1>1a, <1>4, <3>1 DEF Ahead
  <2>5. CASE RunNodeFails \/ StartNodeFails \/ Cancelled \/ Signal
    <3>1. sup'.iter = sup.iter /\ sup'.pc # "new" /\ tasks' = tasks
      BY <1>1, <2>5 DEF RunNodeFails, StartNodeFails, Cancelled, Signal
    <3>. QED  BY <1>1, <1>1a, <1>4, <3>1 DEF Ahead
  <2>6. CASE Close
    <3>1. sup'.iter = sup.iter /\ sup'.pc # "new" /\ tasks'[i] = {}
      BY <1>1, <2>6 DEF Close
    <3>. QED  BY <1>1, <1>1a, <1>4, <3>1 DEF Ahead
  <2>. QED  BY <1>4, <2>1, <2>2, <2>3, <2>4, <2>5, <2>6 DEF SupervisorSteps
<1>5. CASE UNCHANGED scenario /\ \E j \in Iter : LoopSteps(j)
  BY <1>3, <1>5, LoopShrinks
<1>6. CASE EnvSteps /\ UNCHANGED scenario
  BY <1>2, <1>6 DEF EnvSteps, GethFollows, Mined, SendFails, supVars
<1>. QED  BY <1>2, <1>4, <1>5, <1>6 DEF Next, vars, supVars

-----------------------------------------------------------------------------
(* The events of L1.                                                       *)

Listeners == [mode : {"down", "sub", "poll"}, next : Nat, out : Seq(Nat)]

Last(s) == s[Len(s)]
Ascending(s) == \A k \in 1 .. Len(s) - 1 : s[k] < s[k + 1]
Gapless(s) == \A k \in 1 .. Len(s) - 1 : s[k + 1] = s[k] + 1

(***************************************************************************)
(* What a listener delivered is not above the head of L1, and below the    *)
(* block that it polls next.  While its connection holds and it keeps up,  *)
(* the next event it delivers is the one after the last.                   *)
(***************************************************************************)
InOrder(e, head) ==
    /\ Ascending(e.out)
    /\ e.out # <<>> => Last(e.out) <= head
    /\ e.mode = "poll" => e.next <= head + 1 /\ (e.out # <<>> => Last(e.out) < e.next)

Complete(e, ts, head) ==
    /\ Gapless(e.out)
    /\ e.mode = "down" /\ e.out # <<>> => "events" \notin ts
    /\ e.mode = "sub" /\ e.out # <<>> => Last(e.out) = head
    /\ e.mode = "poll" => head <= e.next + MaxPerPoll /\ (e.out # <<>> => Last(e.out) + 1 = e.next)

Steady == Without({"reconnect", "slowpoll"})

EventInv ==
    /\ l1 \in Nat
    /\ ev \in [Iter -> Listeners]
    /\ \A i \in Iter : Ahead(i) => ev[i].mode = "down" /\ ev[i].out = <<>>
    /\ Without({"rpclag"}) =>
          \A i \in Iter : InOrder(ev[i], l1) /\ (Steady => Complete(ev[i], tasks[i], l1))


\* An event after the last one.
LEMMA Appended ==
    ASSUME NEW s \in Seq(Nat), NEW x \in Nat
    PROVE  LET t == Append(s, x)
           IN /\ t \in Seq(Nat) /\ t # <<>> /\ Last(t) = x
              /\ (Ascending(s) /\ (s # <<>> => Last(s) < x)) => Ascending(t)
              /\ (Gapless(s) /\ (s # <<>> => Last(s) + 1 = x)) => Gapless(t)
<1> DEFINE t == Append(s, x)
<1>1. /\ t \in Seq(Nat) /\ Len(t) = Len(s) + 1 /\ Len(s) \in Nat /\ t[Len(s) + 1] = x
      /\ \A k \in 1 .. Len(s) : t[k] = s[k] /\ s[k] \in Nat
  OBVIOUS
<1>2. s # <<>> => Len(s) > 0
  OBVIOUS
<1> HIDE DEF t
<1>3. t # <<>> /\ Last(t) = x
  BY <1>1 DEF Last
<1>4. ASSUME Ascending(s), s # <<>> => Last(s) < x
      PROVE  Ascending(t)
  <2> SUFFICES ASSUME NEW k \in 1 .. Len(s) PROVE t[k] < t[k + 1]
    BY <1>1 DEF Ascending
  <2>1. CASE k = Len(s)
    BY <1>1, <1>2, <1>4, <2>1 DEF Last
  <2>2. CASE k # Len(s)
    <3>1. k \in 1 .. Len(s) - 1 /\ k + 1 \in 1 .. Len(s)
      BY <1>1, <2>2
    <3>. QED  BY <1>1, <1>4, <3>1 DEF Ascending
  <2>. QED  BY <2>1, <2>2
<1>5. ASSUME Gapless(s), s # <<>> => Last(s) + 1 = x
      PROVE  Gapless(t)
  <2> SUFFICES ASSUME NEW k \in 1 .. Len(s) PROVE t[k + 1] = t[k] + 1
    BY <1>1 DEF Gapless
  <2>1. CASE k = Len(s)
    BY <1>1, <1>2, <1>5, <2>1 DEF Last
  <2>2. CASE k # Len(s)
    <3>1. k \in 1 .. Len(s) - 1 /\ k + 1 \in 1 .. Len(s)
      BY <1>1, <2>2
    <3>. QED  BY <1>1, <1>5, <3>1 DEF Gapless
  <2>. QED  BY <2>1, <2>2
<1>. QED  BY <1>1, <1>3, <1>4, <1>5 DEF t

\* What a poll fetches.
LEMMA Fetched ==
    ASSUME NEW first \in Nat, NEW n \in Nat \ {0}
    PROVE  LET r == [k \in 1 .. n |-> first + k - 1]
           IN /\ r \in Seq(Nat) /\ r # <<>> /\ Ascending(r) /\ Gapless(r)
              /\ r[1] = first /\ Last(r) = first + n - 1
<1> DEFINE r == [k \in 1 .. n |-> first + k - 1]
<1>1. r \in [1 .. n -> Nat]
  OBVIOUS
<1>2. \A f \in [1 .. n -> Nat] : f \in Seq(Nat)
  OBVIOUS
<1>3. r \in Seq(Nat)
  BY <1>1, <1>2
<1>4. DOMAIN r = 1 .. Len(r) /\ Len(r) \in Nat
  BY <1>3
<1>5. Len(r) = n /\ \A k \in 1 .. n : r[k] = first + k - 1
  BY <1>4
<1> HIDE DEF r
<1>6. r # <<>> /\ r[1] = first /\ Last(r) = first + n - 1
  BY <1>5 DEF Last
<1>7. Ascending(r) /\ Gapless(r)
  <2> SUFFICES ASSUME NEW k \in 1 .. n - 1 PROVE r[k] < r[k + 1] /\ r[k + 1] = r[k] + 1
    BY <1>5 DEF Ascending, Gapless
  <2>1. k \in 1 .. n /\ k + 1 \in 1 .. n
    OBVIOUS
  <2>. QED  BY <1>5, <2>1
<1>. QED  BY <1>3, <1>6, <1>7 DEF r

\* The events of a poll after the ones before.
LEMMA Joined ==
    ASSUME NEW s \in Seq(Nat), NEW r \in Seq(Nat), r # <<>>
    PROVE  LET t == s \o r
           IN /\ t \in Seq(Nat) /\ t # <<>> /\ Last(t) = Last(r)
              /\ (Ascending(s) /\ Ascending(r) /\ (s # <<>> => Last(s) < r[1])) => Ascending(t)
              /\ (Gapless(s) /\ Gapless(r) /\ (s # <<>> => Last(s) + 1 = r[1])) => Gapless(t)
<1> DEFINE t == s \o r
           m == Len(s)
           n == Len(r)
<1>1. /\ t \in Seq(Nat) /\ Len(t) = m + n /\ m \in Nat /\ n \in Nat \ {0}
      /\ \A k \in 1 .. m + n : t[k] = IF k <= m THEN s[k] ELSE r[k - m]
      /\ \A k \in 1 .. m : s[k] \in Nat
      /\ \A k \in 1 .. n : r[k] \in Nat
  OBVIOUS
<1>2. s # <<>> <=> m > 0
  OBVIOUS
<1>3. Last(s) = s[m] /\ Last(r) = r[n]
  BY DEF Last
<1>4. /\ Ascending(s) => \A k \in 1 .. m - 1 : s[k] < s[k + 1]
      /\ Ascending(r) => \A k \in 1 .. n - 1 : r[k] < r[k + 1]
      /\ Gapless(s) => \A k \in 1 .. m - 1 : s[k + 1] = s[k] + 1
      /\ Gapless(r) => \A k \in 1 .. n - 1 : r[k + 1] = r[k] + 1
  BY DEF Ascending, Gapless
<1> HIDE DEF t, m, n
<1>5. t # <<>> /\ Last(t) = Last(r)
  <2>1. t[m + n] = r[n] /\ m + n > 0
    BY <1>1
  <2>. QED  BY <1>1, <1>3, <2>1 DEF Last
<1>6. ASSUME NEW k \in 1 .. m + n - 1
      PROVE  \/ k \in 1 .. m - 1 /\ t[k] = s[k] /\ t[k + 1] = s[k + 1]
             \/ k = m /\ s # <<>> /\ t[k] = s[m] /\ t[k + 1] = r[1]
             \/ k - m \in 1 .. n - 1 /\ t[k] = r[k - m] /\ t[k + 1] = r[(k - m) + 1]
  <2>1. k \in 1 .. m + n /\ k + 1 \in 1 .. m + n
    BY <1>1
  <2>2. CASE k < m
    <3>1. k <= m /\ k + 1 <= m /\ k \in 1 .. m - 1
      BY <1>1, <2>2
    <3>. QED  BY <1>1, <2>1, <3>1
  <2>3. CASE k = m
    BY <1>1, <1>2, <2>1, <2>3, SMTT(30)
  <2>4. CASE k > m
    <3>1. (k + 1) - m = (k - m) + 1 /\ k - m \in 1 .. n - 1 /\ ~(k <= m) /\ ~(k + 1 <= m)
      BY <1>1, <2>4
    <3>2. t[k] = r[k - m] /\ t[k + 1] = r[(k + 1) - m]
      BY <1>1, <2>1, <3>1
    <3>. QED  BY <3>1, <3>2
  <2>. QED  BY <1>1, <2>2, <2>3, <2>4
<1>7. ASSUME Ascending(s), Ascending(r), s # <<>> => Last(s) < r[1]
      PROVE  Ascending(t)
  <2> SUFFICES ASSUME NEW k \in 1 .. m + n - 1 PROVE t[k] < t[k + 1]
    BY <1>1 DEF Ascending
  <2>. QED  BY <1>3, <1>4, <1>6, <1>7
<1>8. ASSUME Gapless(s), Gapless(r), s # <<>> => Last(s) + 1 = r[1]
      PROVE  Gapless(t)
  <2> SUFFICES ASSUME NEW k \in 1 .. m + n - 1 PROVE t[k + 1] = t[k] + 1
    BY <1>1 DEF Gapless
  <2>. QED  BY <1>3, <1>4, <1>6, <1>8
<1>. QED  BY <1>1, <1>5, <1>7, <1>8 DEF t

\* The records of the listeners after a step.
LEMMA NewOut ==
    ASSUME NEW e \in Listeners, NEW s \in Seq(Nat)
    PROVE  LET d == [e EXCEPT !.out = s]
           IN d \in Listeners /\ d.mode = e.mode /\ d.next = e.next /\ d.out = s
BY DEF Listeners

\* A block of L1, seen by a listener that is subscribed and by another.
LEMMA Heard ==
    ASSUME NEW e \in Listeners, NEW h \in Nat, e.mode = "sub"
    PROVE  LET d == [e EXCEPT !.out = Append(@, h + 1)]
           IN /\ d \in Listeners /\ d.mode = "sub"
              /\ InOrder(e, h) => InOrder(d, h + 1)
              /\ \A ts : Complete(e, ts, h) => Complete(d, ts, h + 1)
<1> DEFINE t == Append(e.out, h + 1)
           d == [e EXCEPT !.out = t]
<1>1. e.out \in Seq(Nat) /\ h + 1 \in Nat /\ \A k \in 1 .. Len(e.out) : e.out[k] \in Nat
  BY DEF Listeners
<1>2. /\ t \in Seq(Nat) /\ t # <<>> /\ Last(t) = h + 1
      /\ (Ascending(e.out) /\ (e.out # <<>> => Last(e.out) < h + 1)) => Ascending(t)
      /\ (Gapless(e.out) /\ (e.out # <<>> => Last(e.out) + 1 = h + 1)) => Gapless(t)
  BY <1>1, Appended
<1>3. e.out # <<>> => Last(e.out) \in Nat
  BY <1>1 DEF Last
<1>4. d \in Listeners /\ d.mode = "sub" /\ d.out = t
  BY <1>2, NewOut
<1> HIDE DEF d, t
<1>5. InOrder(e, h) => InOrder(d, h + 1)
  BY <1>2, <1>3, <1>4 DEF InOrder
<1>6. \A ts : Complete(e, ts, h) => Complete(d, ts, h + 1)
  BY <1>2, <1>3, <1>4 DEF Complete
<1>. QED  BY <1>4, <1>5, <1>6 DEF d, t

\* A new block of L1 that a listener does not hear of.
LEMMA NotHeard ==
    ASSUME NEW e \in Listeners, NEW h \in Nat, e.mode # "sub"
    PROVE  /\ InOrder(e, h) => InOrder(e, h + 1)
           /\ \A ts : (Complete(e, ts, h) /\ (e.mode = "poll" => h + 1 <= e.next + MaxPerPoll))
                         => Complete(e, ts, h + 1)
<1>1. e.out \in Seq(Nat) /\ e.next \in Nat /\ \A k \in 1 .. Len(e.out) : e.out[k] \in Nat
  BY DEF Listeners
<1>2. e.out # <<>> => Last(e.out) \in Nat
  BY <1>1 DEF Last
<1>3. InOrder(e, h) => InOrder(e, h + 1)
  BY <1>1, <1>2 DEF InOrder
<1>4. \A ts : (Complete(e, ts, h) /\ (e.mode = "poll" => h + 1 <= e.next + MaxPerPoll))
                  => Complete(e, ts, h + 1)
  BY DEF Complete
<1>. QED  BY <1>3, <1>4

\* A poll that finds blocks, after a gap that is too large or not.
LEMMA Polled ==
    ASSUME NEW e \in Listeners, NEW h \in Nat, NEW first \in Nat, e.mode = "poll", e.next <= h,
           first = IF h > e.next + MaxPerPoll THEN h - MaxPerPoll ELSE e.next
    PROVE  LET d == [e EXCEPT !.next = h + 1,
                              !.out = @ \o [k \in 1 .. h - first + 1 |-> first + k - 1]]
           IN /\ d \in Listeners /\ d.mode = "poll"
              /\ InOrder(e, h) => InOrder(d, h)
              /\ \A ts : Complete(e, ts, h) => Complete(d, ts, h)
<1> DEFINE n == h - first + 1
           r == [k \in 1 .. n |-> first + k - 1]
           t == e.out \o r
           d == [e EXCEPT !.next = h + 1, !.out = t]
<1>1. /\ e.out \in Seq(Nat) /\ h + 1 \in Nat /\ e.next \in Nat /\ MaxPerPoll \in Nat
      /\ \A k \in 1 .. Len(e.out) : e.out[k] \in Nat
  BY ProcessAssumption DEF Listeners
<1>2. /\ n \in Nat \ {0} /\ e.next <= first /\ first + n - 1 = h
      /\ h <= e.next + MaxPerPoll => first = e.next
  <2>1. CASE h > e.next + MaxPerPoll
    <3>1. first = h - MaxPerPoll /\ ~(h <= e.next + MaxPerPoll)
      BY <1>1, <2>1
    <3>2. MaxPerPoll \in Nat /\ e.next \in Nat /\ h - MaxPerPoll > e.next
      BY <1>1, <2>1
    <3>3. n = MaxPerPoll + 1
      BY <3>1, <3>2
    <3>. QED  BY <3>1, <3>2, <3>3
  <2>2. CASE ~(h > e.next + MaxPerPoll)
    <3>1. first = e.next
      BY <2>2
    <3>. QED  BY <1>1, <3>1
  <2>. QED  BY <2>1, <2>2
<1> HIDE DEF n
<1>3. /\ r \in Seq(Nat) /\ r # <<>> /\ Ascending(r) /\ Gapless(r)
      /\ r[1] = first /\ Last(r) = h
  BY <1>2, Fetched
<1> HIDE DEF r
<1>4. /\ t \in Seq(Nat) /\ t # <<>> /\ Last(t) = h
      /\ (Ascending(e.out) /\ (e.out # <<>> => Last(e.out) < first)) => Ascending(t)
      /\ (Gapless(e.out) /\ (e.out # <<>> => Last(e.out) + 1 = first)) => Gapless(t)
  BY <1>1, <1>3, Joined
<1>5. e.out # <<>> => Last(e.out) \in Nat
  BY <1>1 DEF Last
<1> HIDE DEF t
<1>6. d \in Listeners /\ d.mode = "poll" /\ d.out = t /\ d.next = h + 1
  BY <1>1, <1>4 DEF Listeners
<1> HIDE DEF d
<1>7. ASSUME InOrder(e, h) PROVE InOrder(d, h)
  <2>1. Ascending(e.out) /\ (e.out # <<>> => Last(e.out) < e.next)
    BY <1>7 DEF InOrder
  <2>2. Ascending(t)
    BY <1>1, <1>2, <1>4, <1>5, <2>1
  <2>. QED  BY <1>4, <1>6, <2>2 DEF InOrder
<1>8. ASSUME NEW ts, Complete(e, ts, h) PROVE Complete(d, ts, h)
  <2>1. /\ Gapless(e.out) /\ (e.out # <<>> => Last(e.out) + 1 = e.next)
        /\ h <= e.next + MaxPerPoll
    BY <1>8 DEF Complete
  <2>2. Gapless(t)
    BY <1>2, <1>4, <2>1
  <2>3. h <= (h + 1) + MaxPerPoll
    BY <1>1
  <2>. QED  BY <1>4, <1>6, <2>2, <2>3 DEF Complete
<1>. QED  BY <1>6, <1>7, <1>8 DEF d, t, r, n

\* A step that concerns one listener.
LEMMA OneListener ==
    ASSUME EventInv, UNCHANGED <<sup, tasks, scenario, l1>>, NEW i \in Iter, NEW d \in Listeners,
           ev' = [ev EXCEPT ![i] = d], ~Ahead(i),
           Without({"rpclag"}) =>
               InOrder(d, l1) /\ (Steady => Complete(d, tasks[i], l1))
    PROVE  EventInv'
<1>1. ev' \in [Iter -> Listeners] /\ ev'[i] = d /\ \A j \in Iter : j # i => ev'[j] = ev[j]
  BY DEF EventInv
<1>2. l1' = l1 /\ tasks' = tasks /\ scenario' = scenario /\ sup' = sup
  OBVIOUS
<1>3. ASSUME NEW j \in Iter, Ahead(j)' PROVE ev'[j].mode = "down" /\ ev'[j].out = <<>>
  BY <1>1, <1>2, <1>3 DEF EventInv, Ahead
<1>4. Without({"rpclag"})' = Without({"rpclag"}) /\ Steady' = Steady
  BY <1>2 DEF Without, Steady
<1>5. ASSUME Without({"rpclag"}), NEW j \in Iter
      PROVE  InOrder(ev'[j], l1) /\ (Steady => Complete(ev'[j], tasks[j], l1))
  BY <1>1, <1>5 DEF EventInv
<1>6. l1' \in Nat
  BY <1>2 DEF EventInv
<1>7. Without({"rpclag"})' =>
        \A j \in Iter : InOrder(ev'[j], l1') /\ (Steady' => Complete(ev'[j], tasks'[j], l1'))
  BY <1>2, <1>4, <1>5
<1>. QED  BY <1>1, <1>3, <1>6, <1>7 DEF EventInv

\* No event.
LEMMA EventsInitially == Init => EventInv
<1> SUFFICES ASSUME Init PROVE EventInv
  OBVIOUS
<1>1. l1 = 0 /\ ev = [i \in Iter |-> NewListener]
  BY DEF Init, MonitorInit
<1>2. NewListener \in Listeners /\ NewListener.mode = "down" /\ NewListener.out = <<>>
  BY DEF NewListener, Listeners
<1>3. Len(<<>>) = 0
  OBVIOUS
<1>4. Ascending(<<>>) /\ Gapless(<<>>)
  BY <1>3 DEF Ascending, Gapless
<1>5. \A ts : InOrder(NewListener, 0) /\ Complete(NewListener, ts, 0)
  BY <1>2, <1>4 DEF InOrder, Complete
<1>. QED  BY <1>1, <1>2, <1>5 DEF EventInv

\* Every step keeps the invariant.
LEMMA EventsInductive == SupInv /\ EventInv /\ [Next]_vars => EventInv'
<1> SUFFICES ASSUME SupInv, EventInv, [Next]_vars PROVE EventInv'
  OBVIOUS
<1>0. /\ ev \in [Iter -> Listeners] /\ l1 \in Nat /\ MaxPerPoll \in Nat
      /\ Without({"rpclag"}) =>
          \A i \in Iter : InOrder(ev[i], l1) /\ (Steady => Complete(ev[i], tasks[i], l1))
      /\ \A i \in Iter : ev[i].next \in Nat
  BY ProcessAssumption DEF EventInv, Listeners
<1>1. CASE UNCHANGED <<l1, ev>>
  <2>1. \A i \in Iter : /\ Ahead(i)' => Ahead(i)
                        /\ ~Ahead(i) => tasks'[i] \cap MonitorTasks \subseteq tasks[i]
                        /\ scenario' = scenario
    BY BeginsOnce
  <2>2. scenario' = scenario
    BY <2>1 DEF SupInv, SupTypes
  <2>3. Without({"rpclag"})' = Without({"rpclag"}) /\ Steady' = Steady
    BY <2>2 DEF Without, Steady
  <2>4. ASSUME NEW i \in Iter, Ahead(i)' PROVE ev'[i].mode = "down" /\ ev'[i].out = <<>>
    BY <1>1, <2>1, <2>4 DEF EventInv
  <2>5. ASSUME NEW i \in Iter, Complete(ev[i], tasks[i], l1)
        PROVE  Complete(ev[i], tasks'[i], l1)
    <3>1. Ahead(i) => ev[i].out = <<>>
      BY DEF EventInv
    <3>2. ~Ahead(i) => ("events" \in tasks'[i] => "events" \in tasks[i])
      BY <2>1 DEF MonitorTasks
    <3>. QED  BY <2>5, <3>1, <3>2 DEF Complete
  <2>6. l1' = l1 /\ ev' = ev
    BY <1>1
  <2>7. Without({"rpclag"})' =>
          \A i \in Iter : InOrder(ev'[i], l1') /\ (Steady' => Complete(ev'[i], tasks'[i], l1'))
    BY <1>0, <2>3, <2>5, <2>6
  <2>. QED  BY <1>0, <2>4, <2>6, <2>7 DEF EventInv
<1>2. CASE L1Extends /\ UNCHANGED <<supVars, scenario>>
  <2>1. /\ l1' = l1 + 1 /\ UNCHANGED <<sup, tasks, scenario>>
        /\ Without({"slowpoll"}) =>
              \A i \in Iter : ev[i].mode = "poll" => l1 + 1 <= ev[i].next + MaxPerPoll
        /\ ev' = [i \in Iter |-> IF ev[i].mode = "sub"
                                 THEN [ev[i] EXCEPT !.out = Append(@, l1 + 1)] ELSE ev[i]]
    BY <1>2 DEF L1Extends, supVars
  <2>2. Without({"rpclag"})' = Without({"rpclag"}) /\ Steady' = Steady
    BY <2>1 DEF Without, Steady
  <2>3. Steady => Without({"slowpoll"})
    BY DEF Without, Steady
  <2>4. ASSUME NEW i \in Iter
        PROVE  /\ ev'[i] \in Listeners
               /\ Ahead(i)' => ev'[i].mode = "down" /\ ev'[i].out = <<>>
               /\ Without({"rpclag"}) =>
                     InOrder(ev'[i], l1 + 1) /\ (Steady => Complete(ev'[i], tasks[i], l1 + 1))
    <3>1. CASE ev[i].mode = "sub"
      <4>1. ev'[i] = [ev[i] EXCEPT !.out = Append(@, l1 + 1)]
        BY <2>1, <3>1
      <4>2. /\ ev'[i] \in Listeners /\ ev'[i].mode = "sub"
            /\ InOrder(ev[i], l1) => InOrder(ev'[i], l1 + 1)
            /\ \A ts : Complete(ev[i], ts, l1) => Complete(ev'[i], ts, l1 + 1)
        <5> DEFINE e == ev[i]
        <5>1. e \in Listeners /\ e.mode = "sub" /\ ev'[i] = [e EXCEPT !.out = Append(@, l1 + 1)]
          BY <1>0, <3>1, <4>1
        <5> HIDE DEF e
        <5>2. LET d == [e EXCEPT !.out = Append(@, l1 + 1)]
              IN /\ d \in Listeners /\ d.mode = "sub"
                 /\ InOrder(e, l1) => InOrder(d, l1 + 1)
                 /\ \A ts : Complete(e, ts, l1) => Complete(d, ts, l1 + 1)
          BY <1>0, <5>1, Heard
        <5>. QED  BY <5>1, <5>2 DEF e
      <4>3. ~Ahead(i)'
        BY <2>1, <3>1 DEF EventInv, Ahead
      <4>. QED  BY <1>0, <4>2, <4>3
    <3>2. CASE ev[i].mode # "sub"
      <4>1. ev'[i] = ev[i]
        BY <2>1, <3>2
      <4>2. Ahead(i)' = Ahead(i)
        BY <2>1 DEF Ahead
      <4>3. /\ InOrder(ev[i], l1) => InOrder(ev[i], l1 + 1)
            /\ \A ts : (Complete(ev[i], ts, l1)
                        /\ (ev[i].mode = "poll" => l1 + 1 <= ev[i].next + MaxPerPoll))
                             => Complete(ev[i], ts, l1 + 1)
        BY <1>0, <3>2, NotHeard
      <4>4. Ahead(i) => ev[i].mode = "down" /\ ev[i].out = <<>>
        BY DEF EventInv
      <4>. QED  BY <1>0, <2>1, <2>3, <4>1, <4>2, <4>3, <4>4
    <3>. QED  BY <3>1, <3>2
  <2>5. ev' \in [Iter -> Listeners]
    BY <2>1, <2>4
  <2>6. l1' \in Nat /\ tasks' = tasks
    BY <1>0, <2>1
  <2>7. Without({"rpclag"})' =>
          \A i \in Iter : InOrder(ev'[i], l1') /\ (Steady' => Complete(ev'[i], tasks'[i], l1'))
    BY <2>1, <2>2, <2>4, <2>6
  <2>. QED  BY <2>4, <2>5, <2>6, <2>7 DEF EventInv
<1>3. ASSUME NEW i \in Iter, Connect(i) \/ Poll(i) \/ ListenerFails(i),
             UNCHANGED <<supVars, scenario>>
      PROVE  EventInv'
  <2>0. UNCHANGED <<sup, tasks, scenario, l1>>
    BY <1>3 DEF supVars, Connect, Poll, ListenerFails
  <2>1. ev[i] \in Listeners /\ (Without({"rpclag"}) => HeadsSeen = {l1})
    BY <1>0 DEF HeadsSeen
  <2>2. HeadsSeen \subseteq Nat
    BY <1>0 DEF HeadsSeen
  <2>3. "events" \in tasks[i] \/ ev[i].mode # "down" => ~Ahead(i)
    BY DEF EventInv, SupInv
  <2>4. Without({"rpclag"}) => InOrder(ev[i], l1) /\ (Steady => Complete(ev[i], tasks[i], l1))
    BY <1>0
  <2>5. CASE Connect(i)
    <3>1. "events" \in tasks[i] /\ ev[i].mode = "down"
      BY <2>5 DEF Connect
    <3>2. Without({"rpclag"}) /\ Steady => ev[i].out = <<>>
      BY <2>4, <3>1 DEF Complete
    <3>3. CASE ev' = [ev EXCEPT ![i].mode = "sub"]
      <4> DEFINE d == [ev[i] EXCEPT !.mode = "sub"]
      <4>1. d \in Listeners /\ d.mode = "sub" /\ d.out = ev[i].out
        BY <1>0 DEF Listeners
      <4>2. ev' = [ev EXCEPT ![i] = d]
        BY <3>3
      <4> HIDE DEF d
      <4>3. Without({"rpclag"}) => InOrder(d, l1) /\ (Steady => Complete(d, tasks[i], l1))
        BY <2>4, <3>2, <4>1 DEF InOrder, Complete
      <4>. QED  BY <2>0, <2>3, <3>1, <4>1, <4>2, <4>3, OneListener
    <3>4. CASE \E latest \in HeadsSeen :
                  ev' = [ev EXCEPT ![i].mode = "poll", ![i].next = latest + 1]
      <4>1. PICK latest \in HeadsSeen :
                  ev' = [ev EXCEPT ![i].mode = "poll", ![i].next = latest + 1]
        BY <3>4
      <4> DEFINE n == latest + 1
                 d == [ev[i] EXCEPT !.mode = "poll", !.next = n]
      <4>2. Without({"rpclag"}) => n = l1 + 1
        BY <1>0, <2>1, <2>2, <4>1
      <4>3. ev' = [ev EXCEPT ![i] = d]
        BY <1>0, <4>1
      <4>3a. n \in Nat
        BY <2>2
      <4> HIDE DEF n
      <4>4. d \in Listeners /\ d.mode = "poll" /\ d.out = ev[i].out /\ d.next = n
        BY <1>0, <4>3a DEF Listeners
      <4> HIDE DEF d
      <4>4a. \A k \in 1 .. Len(ev[i].out) : ev[i].out[k] \in Nat
        BY <2>1 DEF Listeners
      <4>4b. ev[i].out \in Seq(Nat) /\ (ev[i].out # <<>> => Last(ev[i].out) \in Nat)
        BY <1>0, <4>4a DEF Listeners, Last
      <4>5. Without({"rpclag"}) => InOrder(d, l1) 
        <5> SUFFICES ASSUME Without({"rpclag"}) PROVE InOrder(d, l1)
          OBVIOUS
        <5>1. InOrder(ev[i], l1) /\ n = l1 + 1 /\ l1 \in Nat
          BY <1>0, <2>4, <4>2
        <5>. QED  BY <4>4, <4>4b, <5>1 DEF InOrder
      <4>6. Without({"rpclag"}) /\ Steady => Complete(d, tasks[i], l1)
        <5> SUFFICES ASSUME Without({"rpclag"}), Steady PROVE Complete(d, tasks[i], l1)
          OBVIOUS
        <5>1. Complete(ev[i], tasks[i], l1) /\ n = l1 + 1 /\ ev[i].out = <<>>
          BY <2>4, <3>2, <4>2
        <5>2. l1 <= n + MaxPerPoll
          BY <1>0, <5>1
        <5>. QED  BY <4>4, <5>1, <5>2 DEF Complete
      <4>. QED  BY <2>0, <2>3, <3>1, <4>3, <4>4, <4>5, <4>6, OneListener
    <3>. QED  BY <2>5, <3>3, <3>4 DEF Connect
  <2>6. CASE Poll(i)
    <3>1. PICK latest \in HeadsSeen :
            LET first == IF latest > ev[i].next + MaxPerPoll
                         THEN latest - MaxPerPoll ELSE ev[i].next
            IN /\ latest >= ev[i].next
               /\ ev' = [ev EXCEPT ![i].next = latest + 1,
                                   ![i].out = @ \o [k \in 1 .. latest - first + 1 |-> first + k - 1]]
      BY <2>6 DEF Poll
    <3> DEFINE first == IF latest > ev[i].next + MaxPerPoll
                        THEN latest - MaxPerPoll ELSE ev[i].next
               r == [k \in 1 .. latest - first + 1 |-> first + k - 1]
               d == [ev[i] EXCEPT !.next = latest + 1, !.out = @ \o r]
    <3>2. ev' = [ev EXCEPT ![i] = d] /\ latest \in Nat /\ ev[i].next <= latest
      BY <1>0, <2>2, <3>1
    <3>3. first \in Nat /\ ev[i].mode = "poll"
      <4>1. ev[i].mode = "poll" /\ ev[i].next \in Nat
        BY <1>0, <2>6 DEF Poll
      <4>. QED  BY <1>0, <3>2, <4>1
    <3>4. /\ d \in Listeners /\ d.mode = "poll"
          /\ InOrder(ev[i], latest) => InOrder(d, latest)
          /\ \A ts : Complete(ev[i], ts, latest) => Complete(d, ts, latest)
      <4> DEFINE e == ev[i]
      <4>1. e \in Listeners /\ e.mode = "poll" /\ e.next <= latest
        BY <1>0, <3>2, <3>3
      <4>2. first = IF latest > e.next + MaxPerPoll THEN latest - MaxPerPoll ELSE e.next
        OBVIOUS
      <4> HIDE DEF e, first
      <4>3. LET c == [e EXCEPT !.next = latest + 1,
                               !.out = @ \o [k \in 1 .. latest - first + 1 |-> first + k - 1]]
            IN /\ c \in Listeners /\ c.mode = "poll"
               /\ InOrder(e, latest) => InOrder(c, latest)
               /\ \A ts : Complete(e, ts, latest) => Complete(c, ts, latest)
        BY <3>2, <3>3, <4>1, <4>2, Polled, ZenonT(30)
      <4>. QED  BY <4>3 DEF e
    <3>5. Without({"rpclag"}) => latest = l1
      BY <2>1, <3>1
    <3> HIDE DEF d
    <3>6. Without({"rpclag"}) => InOrder(d, l1) /\ (Steady => Complete(d, tasks[i], l1))
      BY <2>4, <3>4, <3>5
    <3>. QED  BY <2>0, <2>3, <3>2, <3>3, <3>4, <3>6, OneListener
  <2>7. CASE ListenerFails(i)
    <3> DEFINE d == [ev[i] EXCEPT !.mode = "down"]
    <3>1. ev' = [ev EXCEPT ![i] = d] /\ ev[i].mode # "down"
      BY <2>7 DEF ListenerFails
    <3>2. d \in Listeners /\ d.mode = "down" /\ d.out = ev[i].out
      BY <1>0 DEF Listeners
    <3>3. Steady => "events" \notin tasks[i]
      BY <2>7 DEF ListenerFails, Steady, Without
    <3> HIDE DEF d
    <3>4. Without({"rpclag"}) => InOrder(d, l1) /\ (Steady => Complete(d, tasks[i], l1))
      BY <2>4, <3>2, <3>3 DEF InOrder, Complete
    <3>. QED  BY <2>0, <2>3, <3>1, <3>2, <3>4, OneListener
  <2>. QED  BY <1>3, <2>5, <2>6, <2>7
<1>4. CASE UNCHANGED <<supVars, scenario>> /\ (ChainSteps \/ MonitorSteps)
  BY <1>1, <1>2, <1>3, <1>4
     DEF ChainSteps, MonitorSteps, GethExtends, GethReorgs, Announce, NodeReanchors, Subscribe,
         Disconnect, Dispatch
<1>. QED  BY <1>1, <1>4 DEF Next, vars, monVars, supVars

(***************************************************************************)
(* listen_for_event delivers no event twice or out of order and, while its *)
(* connection holds and it keeps up, leaves none out.                      *)
(***************************************************************************)
THEOREM EventsKeepOrder == Spec => []EventsInOrder
<1>1. EventInv => EventsInOrder
  BY DEF EventInv, EventsInOrder, InOrder, Complete, Ascending, Gapless, Steady
<1>. QED  BY <1>1, SupInitially, SupInductive, EventsInitially, EventsInductive, PTL DEF Spec
=============================================================================
