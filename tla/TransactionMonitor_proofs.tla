---------------------- MODULE TransactionMonitor_proofs ----------------------
(***************************************************************************)
(* Proofs about the transaction monitor, for every number of attempts,     *)
(* waits and transactions and every set of payloads: its invariants, and   *)
(* that it implements MonitorContract.                                     *)
(***************************************************************************)
EXTENDS TransactionMonitor, SequenceTheorems, TLAPS

\* No mempool holds a transaction whose nonce is used.
PoolIsUnmined == \A t \in pool : t.nonce >= Len(mined)

\* Every transaction of the task's nonce carries its payload, and until the
\* task ends it is an attempt whose hash the task knows.
OwnNonce ==
    task.pc # "none" =>
        /\ \A t \in pool : t.nonce = task.nonce
               => t.payload = task.payload /\ (~Ended => t.attempt < task.sent)
        /\ NonceUsed => /\ mined[task.nonce + 1].payload = task.payload
                        /\ ~Ended => mined[task.nonce + 1].attempt < task.sent

\* A task that has not ended has signalled nothing; one that still builds
\* has sent nothing; one that is about to send has an attempt left, and one
\* that looks for its hashes once more has a wait left.
NotEnded ==
    /\ ~Ended => task.error = "none"
    /\ task.pc = "build" => task.sent = 0
    /\ task.pc \in {"build", "block", "send"} => task.sent < MaxSend
    /\ task.pc \in {"build", "block", "send", "receipt"} => task.wait = 0
    /\ task.pc = "waitVerify" => task.wait < MaxWait

\* The inductive invariant: the three safety invariants are not inductive
\* without the facts on nonces.
IInv ==
    /\ TypeOK
    /\ PoolIsUnmined
    /\ OwnNonce
    /\ NotEnded
    /\ SilentEndIsMined
    /\ SafeToResubmit
    /\ ErrorIsOfLatestTask

LEMMA InitIInv == Init => IInv
  <1> SUFFICES ASSUME Init PROVE IInv
    OBVIOUS
  <1> USE MonitorAssumption DEF Init
  <1>1. TypeOK
    BY DEF TypeOK, Task, Running, TransactionError, BuildErrors
  <1>2. PoolIsUnmined /\ OwnNonce /\ NotEnded
    BY DEF PoolIsUnmined, OwnNonce, NotEnded, Ended
  <1>3. SilentEndIsMined /\ SafeToResubmit /\ ErrorIsOfLatestTask
    BY DEF SilentEndIsMined, SafeToResubmit, ErrorIsOfLatestTask, Ended
  <1> QED
    BY <1>1, <1>2, <1>3 DEF IInv

\* A used nonce has its transaction in the list of the mined ones.
LEMMA MinedOfNonce == ASSUME TypeOK, NonceUsed PROVE mined[task.nonce + 1] \in Mined
  <1>1. task.nonce + 1 \in 1 .. Len(mined)
    BY DEF TypeOK, Task, NonceUsed
  <1> QED
    BY <1>1 DEF TypeOK

\* The places of a task that has not ended.
Open == Running \ {"exit"}

\* A step of the task to the place l that touches neither its identity nor
\* what it has sent and signalled.
Moved(l) ==
    /\ task' \in Task /\ task'.pc = l
    /\ task'.error = task.error /\ task'.nonce = task.nonce
    /\ task'.sent = task.sent /\ task'.payload = task.payload

LEMMA PcMoved ==
  ASSUME task \in Task, NEW l \in Running \cup {"none", "finished"},
         task' = [task EXCEPT !.pc = l]
  PROVE  Moved(l) /\ task'.wait = task.wait
  BY DEF Task, Moved

\* The task goes on to another place without having sent anything.
LEMMA MoveIInv ==
  ASSUME IInv, task.pc \in Open, UNCHANGED <<channel, pool, mined>>,
         NEW l \in Open \ {"build"}, Moved(l), NotEnded'
  PROVE  IInv'
  <1> USE DEF IInv, Open, Running, Moved
  <1>1. TypeOK'
    BY DEF TypeOK
  <1>2. (PoolIsUnmined /\ OwnNonce /\ NotEnded)'
    BY DEF TypeOK, Task, PoolIsUnmined, OwnNonce, Ended, NonceUsed
  <1>3. (SilentEndIsMined /\ SafeToResubmit /\ ErrorIsOfLatestTask)'
    BY DEF TypeOK, Task, SilentEndIsMined, SafeToResubmit, ErrorIsOfLatestTask, Ended
  <1> QED
    BY <1>1, <1>2, <1>3

\* The task ends with an error, and may have sent an attempt it does not
\* know of.  A retryable error is signalled only when nothing was sent, or
\* when the nonce was used by a failed execution, or by an RPC node that
\* simulates.
LEMMA SignalIInv ==
  ASSUME IInv, task.pc \in Open, UNCHANGED mined,
         NEW e \in TransactionError, Signal(e),
         \/ UNCHANGED pool
         \/ pool' = pool \cup {NextAttempt} /\ ~NonceUsed /\ e \notin Retryable,
         e \in Retryable =>
            \/ RpcSimulates
            \/ task.sent = 0
            \/ NonceUsed /\ mined[task.nonce + 1].status # "ok"
  PROVE  IInv'
  <1> USE MonitorAssumption DEF IInv, Open, Running, Signal
  <1>0. task' \in Task /\ task'.pc = "exit" /\ task'.error = e /\ task'.nonce = task.nonce
        /\ task'.sent = task.sent /\ task'.payload = task.payload
    BY DEF TypeOK, Task
  <1>a. channel = <<>> /\ channel' = <<e>>
    <2>1. channel = <<>>
      BY DEF ErrorIsOfLatestTask, Ended
    <2>2. Append(<<>>, e) = <<e>>
      OBVIOUS
    <2> QED
      BY <2>1, <2>2
  <1>p. pool' \subseteq pool \cup {NextAttempt} /\ (~NonceUsed \/ UNCHANGED pool)
    OBVIOUS
  <1>n. /\ NextAttempt \in Tx /\ NextAttempt.nonce = task.nonce
        /\ NextAttempt.payload = task.payload
    BY DEF NextAttempt, TypeOK, Task, Tx
  <1>1. TypeOK'
    BY <1>0, <1>a, <1>p, <1>n DEF TypeOK
  <1>2. (PoolIsUnmined /\ OwnNonce /\ NotEnded)'
    <2>1. PoolIsUnmined'
      BY <1>p, <1>n DEF TypeOK, Task, PoolIsUnmined, NonceUsed
    <2>2. OwnNonce'
      BY <1>0, <1>p, <1>n DEF OwnNonce, Ended, NonceUsed
    <2>3. NotEnded'
      BY <1>0 DEF NotEnded, Ended
    <2> QED
      BY <2>1, <2>2, <2>3
  <1>3. SilentEndIsMined'
    BY <1>0 DEF SilentEndIsMined, TransactionError, BuildErrors, ContractErrors
  <1>4. ErrorIsOfLatestTask'
    BY <1>0, <1>a DEF ErrorIsOfLatestTask, Ended
  <1>5. SafeToResubmit'
    <2> SUFFICES ASSUME e \in Retryable, ~RpcSimulates, UNCHANGED pool
                 PROVE  /\ \A t \in pool : t.nonce # task.nonce
                        /\ NonceUsed => mined[task.nonce + 1].status # "ok"
      BY <1>0 DEF SafeToResubmit, NonceUsed
    <2>1. CASE task.sent = 0
      <3>1. ASSUME NEW t \in pool PROVE t.nonce # task.nonce
        BY <2>1, <3>1 DEF TypeOK, Tx, OwnNonce, Ended
      <3>2. ~NonceUsed
        BY <2>1, MinedOfNonce DEF Mined, OwnNonce, Ended
      <3> QED
        BY <3>1, <3>2
    <2>2. CASE NonceUsed /\ mined[task.nonce + 1].status # "ok"
      BY <2>2 DEF TypeOK, Task, Tx, PoolIsUnmined, NonceUsed
    <2> QED
      BY <2>1, <2>2
  <1> QED
    BY <1>1, <1>2, <1>3, <1>4, <1>5

\* The task ends silently, with one of its attempts mined.
LEMMA ReturnIInv ==
  ASSUME IInv, task.pc \in Open, UNCHANGED <<pool, mined>>, Return, TxIncluded
  PROVE  IInv'
  <1> USE DEF IInv, Open, Running, Return
  <1>0. task' \in Task /\ task'.pc = "exit" /\ task'.error = "none"
        /\ task'.nonce = task.nonce /\ task'.sent = task.sent
        /\ task'.payload = task.payload
    BY DEF TypeOK, Task, NotEnded, Ended
  <1>1. TypeOK' /\ channel = <<>>
    BY <1>0 DEF TypeOK, ErrorIsOfLatestTask, Ended
  <1>2. (PoolIsUnmined /\ OwnNonce /\ NotEnded)'
    BY <1>0 DEF TypeOK, Task, PoolIsUnmined, OwnNonce, NotEnded, Ended, NonceUsed
  <1>3. (SilentEndIsMined /\ SafeToResubmit /\ ErrorIsOfLatestTask)'
    BY <1>0, <1>1 DEF TypeOK, Task, SilentEndIsMined, SafeToResubmit, ErrorIsOfLatestTask,
          Ended, TxIncluded, NonceUsed, OwnNonce, Retryable
  <1> QED
    BY <1>1, <1>2, <1>3

\* Each action of the specification keeps the invariant.
LEMMA NextIInv == IInv /\ [Next]_tmVars => IInv'
  <1> SUFFICES ASSUME IInv, [Next]_tmVars PROVE IInv'
    OBVIOUS
  <1> USE MonitorAssumption
  <1>t. task.nonce \in Nat /\ task.sent \in Nat /\ task.wait \in Nat
    BY DEF IInv, TypeOK, Task
  <1>1. ASSUME NEW p \in Payload, Submit(p) PROVE IInv'
    <2> PICK n \in 0 .. (MaxNonce - 1) :
          /\ IsPendingNonce(n)
          /\ task' = [pc |-> "build", nonce |-> n, payload |-> p,
                      sent |-> 0, wait |-> 0, error |-> "none"]
      BY <1>1 DEF Submit, MonitorNewTransaction
    <2> USE DEF IInv, Submit, MonitorNewTransaction
    <2>1. TypeOK'
      BY <1>1 DEF TypeOK, Task, Running
    <2>2. n \in Nat /\ n >= Len(mined) /\ \A t \in pool : t.nonce # n
      BY DEF IsPendingNonce
    <2>3. (PoolIsUnmined /\ OwnNonce /\ NotEnded)'
      BY <1>1, <2>2 DEF TypeOK, PoolIsUnmined, OwnNonce, NotEnded, Ended, NonceUsed
    <2>4. (SilentEndIsMined /\ SafeToResubmit /\ ErrorIsOfLatestTask)'
      BY <1>1 DEF SilentEndIsMined, SafeToResubmit, ErrorIsOfLatestTask, Ended
    <2> QED
      BY <2>1, <2>3, <2>4
  <1>2. CASE Build
    <2>1. CASE task' = [task EXCEPT !.pc = "block"] /\ UNCHANGED channel
      <3>1. task \in Task /\ "block" \in Running
        BY DEF IInv, TypeOK, Running
      <3>2. Moved("block") /\ task'.wait = task.wait
        BY <2>1, <3>1, PcMoved
      <3>3. NotEnded'
        BY <1>2, <3>2, <1>t DEF Build, Moved, IInv, NotEnded, Ended
      <3> QED
        BY <1>2, <2>1, <3>2, <3>3, MoveIInv DEF Build, Open, Running
    <2>2. ASSUME NEW e \in BuildErrors \cup {"UnsupportedTransactionType"}, Signal(e)
          PROVE  IInv'
      <3>1. task.sent = 0
        BY <1>2 DEF Build, IInv, NotEnded
      <3> QED
        BY <1>2, <2>2, <3>1, SignalIInv DEF Build, Open, Running, TransactionError
    <2> QED
      BY <1>2, <2>1, <2>2 DEF Build
  <1>3. CASE CheckBlock
    <2>1. CASE Signal("GetBlockNumberFailed")
      BY <1>3, <2>1, SignalIInv DEF CheckBlock, Open, Running, TransactionError, Retryable
    <2>2. CASE TxIncluded /\ Return
      BY <1>3, <2>2, ReturnIInv DEF CheckBlock, Open, Running
    <2>3. CASE task' = [task EXCEPT !.pc = "send"] /\ UNCHANGED channel
      <3>1. task \in Task /\ "send" \in Running
        BY DEF IInv, TypeOK, Running
      <3>2. Moved("send") /\ task'.wait = task.wait
        BY <2>3, <3>1, PcMoved
      <3>3. NotEnded'
        BY <1>3, <3>2, <1>t DEF CheckBlock, Moved, IInv, NotEnded, Ended
      <3> QED
        BY <1>3, <2>3, <3>2, <3>3, MoveIInv DEF CheckBlock, Open, Running
    <2> QED
      BY <1>3, <2>1, <2>2, <2>3 DEF CheckBlock
  <1>4. CASE SendOk
    <2> DEFINE t0 == [nonce |-> task.nonce, attempt |-> task.sent, payload |-> task.payload]
    <2> USE DEF IInv, SendOk, NextAttempt
    <2>0. /\ task' \in Task /\ task'.pc = "receipt" /\ task'.error = task.error
          /\ task'.nonce = task.nonce /\ task'.sent = task.sent + 1
          /\ task'.payload = task.payload /\ task'.wait = 0
      <3> DEFINE k == task.sent + 1
      <3>1. k \in 0 .. MaxSend /\ task' = [task EXCEPT !.pc = "receipt", !.sent = k]
        BY <1>4, <1>t DEF NotEnded
      <3> HIDE DEF k
      <3>2. task' \in Task /\ task'.pc = "receipt" /\ task'.error = task.error
            /\ task'.nonce = task.nonce /\ task'.sent = k
            /\ task'.payload = task.payload /\ task'.wait = 0
        BY <1>4, <3>1 DEF TypeOK, Task, Running, NotEnded
      <3> QED
        BY <3>2 DEF k
    <2>a. pool' = pool \cup {t0} /\ t0 \in Tx
      BY <1>4 DEF TypeOK, Task, Tx
    <2>1. TypeOK'
      BY <1>4, <2>0, <2>a DEF TypeOK
    <2>2. (PoolIsUnmined /\ OwnNonce /\ NotEnded)'
      <3>1. PoolIsUnmined'
        BY <1>4, <2>0, <2>a, <1>t DEF TypeOK, PoolIsUnmined, NonceUsed
      <3>2. OwnNonce'
        <4>1. ~NonceUsed'
          BY <1>4, <2>0 DEF NonceUsed
        <4>2. t0.payload = task.payload /\ t0.attempt = task.sent /\ task.sent \in Nat
          BY <1>t DEF Task
        <4>3. ASSUME NEW t \in pool, t.nonce = task.nonce
              PROVE  t.payload = task.payload /\ t.attempt < task.sent + 1
          <5>1. t.payload = task.payload /\ t.attempt < task.sent /\ t.attempt \in Nat
            BY <1>4, <4>3 DEF OwnNonce, Ended, TypeOK, Tx
          <5>. QED  BY <4>2, <5>1
        <4>4. ASSUME NEW t \in pool', t.nonce = task.nonce
              PROVE  t.payload = task.payload /\ t.attempt < task.sent + 1
          <5>1. CASE t \in pool
            BY <4>3, <4>4, <5>1
          <5>2. CASE t = t0
            BY <4>2, <5>2
          <5>. QED  BY <2>a, <5>1, <5>2
        <4>. HIDE DEF t0, IInv, SendOk, NextAttempt
        <4>. QED  BY <2>0, <4>1, <4>4 DEF OwnNonce
      <3>3. NotEnded'
        BY <1>4, <2>0 DEF NotEnded, Ended
      <3> QED
        BY <3>1, <3>2, <3>3
    <2>3. (SilentEndIsMined /\ SafeToResubmit /\ ErrorIsOfLatestTask)'
      BY <1>4, <2>0, <2>a DEF SilentEndIsMined, SafeToResubmit, ErrorIsOfLatestTask, Ended
    <2> QED
      BY <2>1, <2>2, <2>3
  <1>5. CASE SendFailed
    <2>1. CASE TxIncluded /\ Return /\ UNCHANGED pool
      BY <1>5, <2>1, ReturnIInv DEF SendFailed, Open, Running
    <2>2. ASSUME NEW e \in {"TransactionReverted", "InsufficientFunds"}, Signal(e),
                 UNCHANGED pool
          PROVE  IInv'
      BY <1>5, <2>2, SignalIInv DEF SendFailed, Open, Running, TransactionError,
            BuildErrors, ContractErrors, Retryable
    <2>3. ASSUME NEW e \in ContractErrors, Signal(e), task.sent = 0 \/ RpcSimulates,
                 UNCHANGED pool
          PROVE  IInv'
      BY <1>5, <2>3, SignalIInv DEF SendFailed, Open, Running, TransactionError, BuildErrors
    <2>4. CASE ~NonceUsed /\ Signal("TransactionReverted")
               /\ pool' = pool \cup {NextAttempt}
      BY <1>5, <2>4, SignalIInv DEF SendFailed, Open, Running, TransactionError, Retryable
    <2> QED
      BY <1>5, <2>1, <2>2, <2>3, <2>4 DEF SendFailed
  <1>h. ASSUME Handled, task.pc \in Open, UNCHANGED <<pool, mined>> PROVE IInv'
    <2>1. LastIncluded => TxIncluded
      BY <1>t DEF LastIncluded, TxIncluded
    <2>2. CASE TxIncluded /\ Return
      BY <1>h, <2>2, ReturnIInv
    <2>3. CASE LastIncluded /\ mined[task.nonce + 1].status # "ok"
                            /\ Signal(mined[task.nonce + 1].status)
      <3>1. mined[task.nonce + 1].status \in TransactionError /\ NonceUsed
        BY <2>3, MinedOfNonce DEF LastIncluded, IInv, Mined, MinedStatus,
              TransactionError, BuildErrors
      <3> QED
        BY <1>h, <2>3, <3>1, SignalIInv
    <2>4. CASE Signal("GetBlockNumberFailed")
      BY <1>h, <2>4, SignalIInv DEF TransactionError, Retryable
    <2>5. CASE Signal("TransactionReverted")
      BY <1>h, <2>5, SignalIInv DEF TransactionError, Retryable
    <2> QED
      BY <1>h, <2>1, <2>2, <2>3, <2>4, <2>5 DEF Handled
  <1>6. CASE AwaitReceipt
    <2>1. CASE Handled
      BY <1>6, <2>1, <1>h DEF AwaitReceipt, Open, Running
    <2>2. CASE task.sent < MaxSend /\ task' = [task EXCEPT !.pc = "block"] /\ UNCHANGED channel
      <3>1. task \in Task /\ "block" \in Running
        BY DEF IInv, TypeOK, Running
      <3>2. Moved("block") /\ task'.wait = task.wait
        BY <2>2, <3>1, PcMoved
      <3>3. NotEnded'
        BY <1>6, <2>2, <3>2, <1>t DEF AwaitReceipt, Moved, IInv, NotEnded, Ended
      <3> QED
        BY <1>6, <2>2, <3>2, <3>3, MoveIInv DEF AwaitReceipt, Open, Running
    <2>3. CASE task' = [task EXCEPT !.pc = "waitReceipt"] /\ UNCHANGED channel
      <3>1. task \in Task /\ "waitReceipt" \in Running
        BY DEF IInv, TypeOK, Running
      <3>2. Moved("waitReceipt") /\ task'.wait = task.wait
        BY <2>3, <3>1, PcMoved
      <3>3. NotEnded'
        BY <1>6, <2>3, <3>2, <1>t DEF AwaitReceipt, Moved, IInv, NotEnded, Ended
      <3> QED
        BY <1>6, <2>3, <3>2, <3>3, MoveIInv DEF AwaitReceipt, Open, Running
    <2> QED
      BY <1>6, <2>1, <2>2, <2>3 DEF AwaitReceipt
  <1>7. CASE WaitReceipt
    <2>1. CASE Handled
      BY <1>7, <2>1, <1>h DEF WaitReceipt, Open, Running
    <2>2. CASE /\ task.wait < MaxWait /\ UNCHANGED channel
               /\ task' = [task EXCEPT !.pc = "waitVerify"]
      <3>1. task \in Task /\ "waitVerify" \in Running
        BY DEF IInv, TypeOK, Running
      <3>2. Moved("waitVerify") /\ task'.wait = task.wait
        BY <2>2, <3>1, PcMoved
      <3>3. NotEnded'
        BY <1>7, <2>2, <3>2, <1>t DEF WaitReceipt, Moved, IInv, NotEnded, Ended
      <3> QED
        BY <1>7, <2>2, <3>2, <3>3, MoveIInv DEF WaitReceipt, Open, Running
    <2>3. CASE Signal("NotConfirmed")
      BY <1>7, <2>3, SignalIInv DEF WaitReceipt, Open, Running, TransactionError, Retryable
    <2> QED
      BY <1>7, <2>1, <2>2, <2>3 DEF WaitReceipt
  <1>8. CASE WaitVerify
    <2>1. CASE TxIncluded /\ Return
      BY <1>8, <2>1, ReturnIInv DEF WaitVerify, Open, Running
    <2>2. CASE /\ UNCHANGED channel
               /\ task' = [task EXCEPT !.pc = "waitReceipt", !.wait = @ + 1]
      <3> DEFINE w == task.wait + 1
      <3>a. w \in 0 .. MaxWait /\ task' = [task EXCEPT !.pc = "waitReceipt", !.wait = w]
        BY <1>8, <1>t, <2>2 DEF WaitVerify, IInv, NotEnded
      <3> HIDE DEF w
      <3>1. Moved("waitReceipt") /\ task'.wait = w
        BY <3>a DEF IInv, TypeOK, Task, Running, Moved
      <3>2. NotEnded'
        BY <1>8, <3>1, <3>a DEF WaitVerify, Moved, IInv, NotEnded, Ended
      <3> QED
        BY <1>8, <2>2, <3>1, <3>2, MoveIInv DEF WaitVerify, Open, Running
    <2> QED
      BY <1>8, <2>1, <2>2 DEF WaitVerify
  <1>9. CASE Finish
    <2> USE DEF IInv, Finish
    <2>0. /\ task' \in Task /\ task'.pc = "finished" /\ task'.error = task.error
          /\ task'.nonce = task.nonce /\ task'.sent = task.sent
          /\ task'.payload = task.payload
      BY <1>9 DEF TypeOK, Task
    <2>1. TypeOK'
      BY <1>9, <2>0 DEF TypeOK
    <2>2. (PoolIsUnmined /\ OwnNonce /\ NotEnded)'
      BY <1>9, <2>0 DEF TypeOK, Task, PoolIsUnmined, OwnNonce, NotEnded, Ended, NonceUsed
    <2>3. (SilentEndIsMined /\ SafeToResubmit /\ ErrorIsOfLatestTask)'
      BY <1>9, <2>0 DEF SilentEndIsMined, SafeToResubmit, ErrorIsOfLatestTask, Ended, NonceUsed
    <2> QED
      BY <2>1, <2>2, <2>3
  <1>10. CASE TryRecv
    <2> USE DEF IInv, TryRecv
    <2>1. channel' = <<>>
      BY <1>10 DEF ErrorIsOfLatestTask
    <2>2. TypeOK' /\ ErrorIsOfLatestTask'
      BY <1>10, <2>1 DEF TypeOK, ErrorIsOfLatestTask
    <2>3. (PoolIsUnmined /\ OwnNonce /\ NotEnded /\ SilentEndIsMined /\ SafeToResubmit)'
      BY <1>10 DEF PoolIsUnmined, OwnNonce, NotEnded, SilentEndIsMined, SafeToResubmit,
            Ended, NonceUsed
    <2> QED
      BY <2>2, <2>3
  <1>11. CASE Crash
    <2> USE DEF IInv, Crash
    <2>0. task' \in Task /\ task'.pc = "none" /\ task'.error = "none"
      <3>1. 0 \in 0 .. MaxSend /\ 0 \in 0 .. MaxWait
        OBVIOUS
      <3> QED
        BY <1>11, <3>1 DEF TypeOK, Task
    <2>1. TypeOK'
      BY <1>11, <2>0 DEF TypeOK
    <2> QED
      BY <1>11, <2>0, <2>1 DEF PoolIsUnmined, OwnNonce, NotEnded, SilentEndIsMined,
            SafeToResubmit, ErrorIsOfLatestTask, Ended
  <1>12. ASSUME NEW t \in pool, NEW s \in MinedStatus, Mine(t, s) PROVE IInv'
    <2> DEFINE m0 == [attempt |-> t.attempt, payload |-> t.payload, status |-> s]
    <2> USE DEF IInv, Mine
    <2>0. t \in Tx /\ m0 \in Mined /\ mined \in Seq(Mined)
      BY DEF TypeOK, Tx, Mined
    <2>1. /\ mined' \in Seq(Mined) /\ Len(mined') = Len(mined) + 1
          /\ mined'[Len(mined) + 1] = m0
          /\ \A i \in 1 .. Len(mined) : mined'[i] = mined[i]
      BY <1>12, <2>0
    <2>2. TypeOK'
      BY <1>12, <2>1 DEF TypeOK
    <2>3. PoolIsUnmined'
      BY <1>12, <2>0, <2>1 DEF TypeOK, Tx, PoolIsUnmined
    <2>4. OwnNonce'
      <3> SUFFICES ASSUME task.pc # "none"
                   PROVE  /\ \A u \in pool' : u.nonce = task.nonce
                               => u.payload = task.payload /\ (~Ended => u.attempt < task.sent)
                          /\ Len(mined') > task.nonce
                               => /\ mined'[task.nonce + 1].payload = task.payload
                                  /\ ~Ended => mined'[task.nonce + 1].attempt < task.sent
        BY <1>12 DEF OwnNonce, NonceUsed, Ended
      <3>1. \A u \in pool' : u.nonce = task.nonce
                      => u.payload = task.payload /\ (~Ended => u.attempt < task.sent)
        BY <1>12 DEF OwnNonce
      <3>2. CASE task.nonce = Len(mined)
        BY <1>12, <3>1, <3>2, <2>0, <2>1 DEF OwnNonce
      <3>3. CASE task.nonce < Len(mined)
        <4>1. task.nonce + 1 \in 1 .. Len(mined) /\ NonceUsed
          BY <3>3, <1>t, <2>0 DEF NonceUsed
        <4> QED
          BY <4>1, <3>1, <2>1 DEF OwnNonce
      <3>4. CASE task.nonce > Len(mined)
        BY <3>4, <3>1, <2>0, <2>1, <1>t
      <3> QED
        BY <3>2, <3>3, <3>4, <1>t, <2>0
    <2>5. (NotEnded /\ ErrorIsOfLatestTask)'
      BY <1>12 DEF NotEnded, ErrorIsOfLatestTask, Ended
    <2>6. (SilentEndIsMined /\ SafeToResubmit)'
      <3>1. NonceUsed => NonceUsed' /\ mined'[task.nonce + 1] = mined[task.nonce + 1]
        BY <1>12, <2>0, <2>1, <1>t DEF NonceUsed
      <3>2. SilentEndIsMined'
        BY <1>12, <3>1 DEF SilentEndIsMined, Ended
      <3>3. ASSUME (\A u \in pool : u.nonce # task.nonce) PROVE NonceUsed' => NonceUsed
        BY <1>12, <3>3, <2>0, <2>1, <1>t DEF NonceUsed, TypeOK, Tx
      <3>4. SafeToResubmit'
        BY <1>12, <3>1, <3>3 DEF SafeToResubmit, Ended
      <3> QED
        BY <3>2, <3>4
    <2> QED
      BY <2>2, <2>3, <2>4, <2>5, <2>6
  <1>13. ASSUME NEW t \in pool, Evict(t) PROVE IInv'
    <2> USE DEF IInv, Evict
    <2>1. TypeOK'
      BY <1>13 DEF TypeOK
    <2> QED
      BY <1>13, <2>1 DEF PoolIsUnmined, OwnNonce, NotEnded, SilentEndIsMined,
            SafeToResubmit, ErrorIsOfLatestTask, Ended, NonceUsed
  <1>14. CASE UNCHANGED tmVars
    BY <1>14 DEF tmVars, IInv, TypeOK, PoolIsUnmined, OwnNonce, NotEnded, SilentEndIsMined,
          SafeToResubmit, ErrorIsOfLatestTask, Ended, NonceUsed
  <1> QED
    BY <1>1, <1>2, <1>3, <1>4, <1>5, <1>6, <1>7, <1>8, <1>9, <1>10, <1>11, <1>12, <1>13,
       <1>14 DEF Next, TaskStep

\* The monitor's state always has its types.
THEOREM TypeCorrect == Spec => []TypeOK
  <1>1. IInv => TypeOK
    BY DEF IInv
  <1> QED
    BY <1>1, InitIInv, NextIInv, PTL DEF Spec

\* A task that ends silently has had a transaction with its payload mined,
\* whatever the number of attempts.
THEOREM SilentEndIsMinedAlways == Spec => []SilentEndIsMined
  <1>1. IInv => SilentEndIsMined
    BY DEF IInv
  <1> QED
    BY <1>1, InitIInv, NextIInv, PTL DEF Spec

\* After a retryable error, no transaction of the failed task was executed
\* or can still be (with an RPC node that does not simulate).
THEOREM SafeToResubmitAlways == Spec => []SafeToResubmit
  <1>1. IInv => SafeToResubmit
    BY DEF IInv
  <1> QED
    BY <1>1, InitIInv, NextIInv, PTL DEF Spec

\* The channel never holds anything but the error of the latest task.
THEOREM ErrorIsOfLatestTaskAlways == Spec => []ErrorIsOfLatestTask
  <1>1. IInv => ErrorIsOfLatestTask
    BY DEF IInv
  <1> QED
    BY <1>1, InitIInv, NextIInv, PTL DEF Spec

-----------------------------------------------------------------------------
(***************************************************************************)
(* MonitorContract.  The steps of a task between two attempts are          *)
(* invisible, its attempts are one transaction, and its ends are ends of   *)
(* the job.  That the guards of the contract hold at an end follows from   *)
(* what the invariant says about the state after it.                       *)
(***************************************************************************)

\* The mapping.
Job == [pc |-> CASE task.pc \in Running \ {"exit"} -> "busy" [] OTHER -> task.pc,
        nonce |-> task.nonce, payload |-> task.payload, error |-> task.error]
Live == {[nonce |-> t.nonce, payload |-> t.payload] : t \in pool}
LogOf(q) == [i \in 1 .. Len(q) |-> [payload |-> q[i].payload, status |-> q[i].status]]
Log == LogOf(mined)

\* What the task's transactions look like in the contract.
Own == [nonce |-> task.nonce, payload |-> task.payload]

\* Rivals for a nonce carry the same payload, so when one of them is mined
\* all of them disappear as one.
PoolAgrees == \A t, u \in pool : t.nonce = u.nonce => t.payload = u.payload

\* The job of an open task is busy.
LEMMA JobOpen ==
    ASSUME task.pc \in Open
    PROVE  Job = [pc |-> "busy", nonce |-> task.nonce, payload |-> task.payload,
                  error |-> task.error]
BY DEF Job, Open

LEMMA JobClosed ==
    ASSUME task.pc \notin Open
    PROVE  Job = [pc |-> task.pc, nonce |-> task.nonce, payload |-> task.payload,
                  error |-> task.error]
BY DEF Job, Open

\* A function on 1 .. k is a sequence.
LEMMA FunctionIsSeq ==
    ASSUME NEW S, NEW k \in Nat, NEW f \in [1 .. k -> S]
    PROVE  f \in Seq(S) /\ Len(f) = k
<1>1. f \in Seq(S)
  OBVIOUS
<1>. QED  BY <1>1, LenProperties

\* The log has the length and the outcomes of the mined transactions.
LEMMA LogOfMined ==
    ASSUME NEW q \in Seq(Mined)
    PROVE  /\ LogOf(q) \in Seq([payload : Payload, status : MinedStatus])
           /\ Len(LogOf(q)) = Len(q)
           /\ \A i \in 1 .. Len(q) :
                LogOf(q)[i] = [payload |-> q[i].payload, status |-> q[i].status]
<1>. DEFINE S == [payload : Payload, status : MinedStatus]
<1>1. Len(q) \in Nat /\ \A i \in 1 .. Len(q) : q[i] \in Mined
  OBVIOUS
<1>2. LogOf(q) \in [1 .. Len(q) -> S]
  BY <1>1 DEF LogOf, Mined
<1>. HIDE DEF S
<1>3. LogOf(q) \in Seq(S) /\ Len(LogOf(q)) = Len(q)
  BY <1>1, <1>2, FunctionIsSeq
<1>. QED  BY <1>3 DEF LogOf, S

\* A nonce is on its way in the contract exactly when it is in the mempool.
LEMMA LiveNonces ==
    ASSUME NEW n
    PROVE  (\E t \in Live : t.nonce = n) <=> (\E t \in pool : t.nonce = n)
<1>1. \A t \in pool : [nonce |-> t.nonce, payload |-> t.payload] \in Live
  BY DEF Live
<1>2. \A v \in Live : \E t \in pool : v = [nonce |-> t.nonce, payload |-> t.payload]
  BY DEF Live
<1>3. \A t \in pool : [nonce |-> t.nonce, payload |-> t.payload].nonce = t.nonce
  OBVIOUS
<1>4. ASSUME NEW v \in Live, v.nonce = n PROVE \E t \in pool : t.nonce = n
  BY <1>2, <1>4
<1>. QED  BY <1>1, <1>3, <1>4

\* An attempt in the mempool is a transaction of the job on its way.
LEMMA LiveSent ==
    ASSUME pool' = pool \cup {NextAttempt}
    PROVE  Live' = Live \cup {Own}
<1>1. Own = [nonce |-> NextAttempt.nonce, payload |-> NextAttempt.payload]
  BY DEF Own, NextAttempt
<1>. QED  BY <1>1 DEF Live

LEMMA Used ==
    ASSUME TypeOK
    PROVE  /\ Contract!NonceUsed <=> NonceUsed
           /\ Contract!Executed <=> NonceUsed /\ mined[task.nonce + 1].status = "ok"
<1>1. Len(Log) = Len(mined)
  BY LogOfMined DEF TypeOK, Log
<1>2. Contract!NonceUsed <=> NonceUsed
  BY <1>1 DEF Contract!NonceUsed, NonceUsed, Log, LogOf
<1>3. NonceUsed => Log[task.nonce + 1].status = mined[task.nonce + 1].status
  <2>1. NonceUsed => task.nonce + 1 \in 1 .. Len(mined)
    BY DEF NonceUsed, TypeOK, Task
  <2>2. \A i \in 1 .. Len(mined) : Log[i].status = mined[i].status
    BY DEF Log, LogOf
  <2>. QED  BY <2>1, <2>2
<1>4. Contract!Executed <=> NonceUsed /\ Log[task.nonce + 1].status = "ok"
  BY <1>2 DEF Contract!Executed, Log, LogOf
<1>. QED  BY <1>2, <1>3, <1>4
-----------------------------------------------------------------------------
(* The steps of a task.                                                    *)

\* A step of the task between its start and its end that sends nothing.
LEMMA Moves ==
    ASSUME task.pc \in Open, task'.pc \in Open, task'.nonce = task.nonce,
           task'.payload = task.payload, task'.error = task.error,
           UNCHANGED <<channel, pool, mined>>
    PROVE  UNCHANGED Contract!contractVars
<1>1. Job' = Job
  BY DEF Job, Open, Running
<1>2. Live' = Live /\ Log' = Log
  BY DEF Live, Log, LogOf
<1>. QED  BY <1>1, <1>2 DEF Contract!contractVars, Job, Live, Log, LogOf

\* An accepted attempt (send_transaction).
LEMMA Sends ==
    ASSUME TypeOK, SendOk
    PROVE  Contract!Send
<1>1. task.pc \in Open /\ task'.pc \in Open /\ task'.nonce = task.nonce
      /\ task'.payload = task.payload /\ task'.error = task.error
  BY DEF SendOk, TypeOK, Task, Open, Running
<1>2. Job' = Job /\ Job.pc = "busy" /\ Job.nonce = task.nonce /\ Job.payload = task.payload
  BY <1>1 DEF Job, Open, Running
<1>3. Live' = Live \cup {[nonce |-> Job.nonce, payload |-> Job.payload]}
  BY <1>2, LiveSent DEF SendOk, Own
<1>4. Log' = Log /\ channel' = channel
  BY DEF Log, LogOf, SendOk
<1>5. ~Contract!NonceUsed
  BY Used DEF SendOk
<1>. QED  BY <1>2, <1>3, <1>4, <1>5 DEF Contract!Send, Job, Live, Log, LogOf

\* The end of a task with an error (send_error_signal).  The invariant says
\* after it that a retryable one is safe.
LEMMA EndsWithError ==
    ASSUME IInv, IInv', task.pc \in Open, NEW e \in TransactionError, Signal(e), UNCHANGED mined,
           NEW l \in BOOLEAN,
           IF l THEN e = "TransactionReverted" /\ ~NonceUsed /\ pool' = pool \cup {NextAttempt}
                ELSE UNCHANGED pool
    PROVE  Contract!Next
<1>1. /\ task'.pc = "exit" /\ task'.nonce = task.nonce /\ task'.payload = task.payload
      /\ task'.error = e /\ channel' = Append(channel, e)
  BY DEF Signal, IInv, TypeOK, Task
<1>2. /\ Job = [pc |-> "busy", nonce |-> task.nonce, payload |-> task.payload,
                error |-> task.error]
      /\ Job' = [pc |-> "exit", nonce |-> task.nonce, payload |-> task.payload, error |-> e]
  <2>1. task'.pc \notin Open
    BY <1>1 DEF Open
  <2>. QED  BY <2>1, <1>1, JobOpen DEF Job, Open
<1>3. Job.pc = "busy" /\ Job' = [Job EXCEPT !.pc = "exit", !.error = e]
      /\ Job.nonce = task.nonce /\ Job.payload = task.payload
  <2>1. Job.pc = "busy" /\ Job.nonce = task.nonce /\ Job.payload = task.payload
    BY <1>2
  <2>2. [Job EXCEPT !.pc = "exit", !.error = e] =
            [pc |-> "exit", nonce |-> task.nonce, payload |-> task.payload, error |-> e]
    <3>. DEFINE R == [pc : {"exit"}, nonce : {task.nonce}, payload : {task.payload}, error : {e}]
    <3>1. Job \in [pc : {"busy", "exit"}, nonce : {task.nonce}, payload : {task.payload},
                   error : {task.error, e}]
      BY <1>2
    <3>2. [Job EXCEPT !.pc = "exit", !.error = e] \in R
      BY <3>1
    <3>3. \A r \in R : r = [pc |-> "exit", nonce |-> task.nonce, payload |-> task.payload,
                            error |-> e]
      OBVIOUS
    <3>. QED  BY <3>2, <3>3
  <2>. QED  BY <2>1, <2>2, <1>2
<1>4. Live' = IF l THEN Live \cup {[nonce |-> Job.nonce, payload |-> Job.payload]} ELSE Live
  <2>1. CASE l
    BY <1>3, <2>1, LiveSent DEF Own
  <2>2. CASE ~l
    BY <2>2 DEF Live
  <2>. QED  BY <2>1, <2>2
<1>5. ASSUME e \in Retryable, ~RpcSimulates
      PROVE  ~Contract!Executed /\ \A t \in Live : t.nonce # Job.nonce
  <2>1. SafeToResubmit'
    BY DEF IInv
  <2>2. /\ \A t \in pool' : t.nonce # task.nonce
        /\ NonceUsed => mined[task.nonce + 1].status # "ok"
    BY <2>1, <1>1, <1>5 DEF SafeToResubmit, Ended, NonceUsed
  <2>3. pool \subseteq pool'
    OBVIOUS
  <2>4. ~Contract!Executed
    BY <2>2, Used DEF IInv
  <2>5. \A t \in Live : t.nonce # task.nonce
    BY <2>2, <2>3, LiveNonces
  <2>. QED  BY <2>4, <2>5, <1>3
<1>6. l => e = "TransactionReverted" /\ ~Contract!NonceUsed
  BY Used DEF IInv
<1>7. Log' = Log
  BY DEF Log, LogOf
<1>8. e \in Contract!TransactionError /\ (e \in Contract!Retryable => e \in Retryable)
  BY DEF TransactionError, BuildErrors, ContractErrors, Retryable, Contract!TransactionError,
         Contract!ContractErrors, Contract!Retryable
<1>9. Contract!EndWithError(e, l)
  BY <1>1, <1>3, <1>4, <1>5, <1>6, <1>7, <1>8 DEF Contract!EndWithError, Job, Live, Log, LogOf
<1>. QED  BY <1>8, <1>9 DEF Contract!Next, Contract!JobStep

\* The end of a task without an error: by the invariant after it, its nonce
\* is used.
LEMMA EndsSilently ==
    ASSUME IInv, IInv', task.pc \in Open, Return, UNCHANGED <<pool, mined>>
    PROVE  Contract!Next
<1>1. /\ task'.pc = "exit" /\ task'.nonce = task.nonce /\ task'.payload = task.payload
      /\ task'.error = task.error /\ channel' = channel
  BY DEF Return, IInv, TypeOK, Task
<1>2. task.error = "none"
  BY DEF IInv, NotEnded, Ended, Open, Running
<1>3. NonceUsed
  BY <1>1, <1>2 DEF IInv, SilentEndIsMined, Ended, NonceUsed
<1>4. /\ Job = [pc |-> "busy", nonce |-> task.nonce, payload |-> task.payload,
                error |-> task.error]
      /\ Job' = [pc |-> "exit", nonce |-> task.nonce, payload |-> task.payload,
                 error |-> task.error]
  <2>1. task'.pc \notin Open
    BY <1>1 DEF Open
  <2>. QED  BY <2>1, <1>1, JobOpen DEF Job, Open
<1>5. Job.pc = "busy" /\ Job' = [Job EXCEPT !.pc = "exit"]
  BY <1>4
<1>6. Live' = Live /\ Log' = Log
  BY DEF Live, Log, LogOf
<1>7. Contract!NonceUsed
  BY <1>3, Used DEF IInv
<1>8. Contract!EndSilently
  BY <1>1, <1>5, <1>6, <1>7 DEF Contract!EndSilently, Job, Live, Log, LogOf
<1>. QED  BY <1>8 DEF Contract!Next, Contract!JobStep

\* The end of the task's future (join_handle.is_finished).
LEMMA Finishes ==
    ASSUME TypeOK, Finish
    PROVE  Contract!Finish
<1>1. /\ task.pc = "exit" /\ task'.pc = "finished" /\ task'.nonce = task.nonce
      /\ task'.payload = task.payload /\ task'.error = task.error
      /\ UNCHANGED <<channel, pool, mined>>
  BY DEF Finish, TypeOK, Task
<1>2. task.pc \notin Open /\ task'.pc \notin Open
  BY <1>1 DEF Open, Running
<1>3. /\ Job = [pc |-> "exit", nonce |-> task.nonce, payload |-> task.payload,
                error |-> task.error]
      /\ Job' = [pc |-> "finished", nonce |-> task.nonce, payload |-> task.payload,
                 error |-> task.error]
  BY <1>1, <1>2, JobClosed DEF Job, Open
<1>4. Job.pc = "exit" /\ Job' = [Job EXCEPT !.pc = "finished"]
  BY <1>3
<1>5. Live' = Live /\ Log' = Log
  BY <1>1 DEF Live, Log, LogOf
<1>. QED  BY <1>1, <1>4, <1>5 DEF Contract!Finish, Job, Live, Log, LogOf

\* Every step of the task is one of these.
LEMMA TaskSteps ==
    ASSUME IInv, IInv', TaskStep
    PROVE  Contract!Next \/ UNCHANGED Contract!contractVars
<1>t. task \in Task /\ TypeOK
  BY DEF IInv, TypeOK
<1>m. ASSUME task.pc \in Open, UNCHANGED <<channel, pool, mined>>,
             NEW l \in Open, task' = [task EXCEPT !.pc = l]
      PROVE  UNCHANGED Contract!contractVars
  <2>1. task'.pc \in Open /\ task'.nonce = task.nonce
        /\ task'.payload = task.payload /\ task'.error = task.error
    BY <1>m, <1>t DEF Task
  <2>. QED  BY <1>m, <2>1, Moves
<1>e. ASSUME task.pc \in Open, NEW e \in TransactionError, Signal(e), UNCHANGED <<pool, mined>>
      PROVE  Contract!Next
  BY <1>e, EndsWithError
<1>h. ASSUME task.pc \in Open, Handled, UNCHANGED <<pool, mined>>
      PROVE  Contract!Next
  <2>1. CASE Return
    BY <1>h, <2>1, EndsSilently
  <2>2. CASE LastIncluded /\ mined[task.nonce + 1].status # "ok"
                          /\ Signal(mined[task.nonce + 1].status)
    <3>1. mined[task.nonce + 1].status \in TransactionError
      BY <2>2, <1>t, MinedOfNonce DEF LastIncluded, Mined, MinedStatus, TransactionError,
            BuildErrors
    <3>. QED  BY <1>h, <1>e, <2>2, <3>1
  <2>3. ASSUME NEW e \in {"TransactionReverted", "GetBlockNumberFailed"}, Signal(e)
        PROVE  Contract!Next
    BY <1>h, <1>e, <2>3 DEF TransactionError
  <2>. QED  BY <1>h, <2>1, <2>2, <2>3 DEF Handled
<1>1. CASE Build
  <2>1. task.pc \in Open /\ "block" \in Open /\ UNCHANGED <<pool, mined>>
    BY <1>1 DEF Build, Open, Running
  <2>2. ASSUME NEW e \in BuildErrors \cup {"UnsupportedTransactionType"}, Signal(e)
        PROVE  Contract!Next
    BY <1>e, <2>1, <2>2 DEF TransactionError
  <2>. QED  BY <1>1, <1>m, <2>1, <2>2 DEF Build
<1>2. CASE CheckBlock
  <2>1. task.pc \in Open /\ "send" \in Open /\ UNCHANGED <<pool, mined>>
        /\ "GetBlockNumberFailed" \in TransactionError
    BY <1>2 DEF CheckBlock, Open, Running, TransactionError
  <2>2. CASE Return
    BY <2>1, <2>2, EndsSilently
  <2>. QED  BY <1>2, <1>m, <1>e, <2>1, <2>2 DEF CheckBlock
<1>3. CASE SendOk
  BY <1>3, <1>t, Sends DEF Contract!Next, Contract!JobStep
<1>4. CASE SendFailed
  <2>1. task.pc \in Open /\ UNCHANGED mined
    BY <1>4 DEF SendFailed, Open, Running
  <2>2. CASE Return /\ UNCHANGED pool
    BY <2>1, <2>2, EndsSilently
  <2>3. ASSUME NEW e \in {"TransactionReverted", "InsufficientFunds"} \cup ContractErrors,
               Signal(e), UNCHANGED pool
        PROVE  Contract!Next
    <3>1. e \in TransactionError
      BY DEF TransactionError, BuildErrors, ContractErrors
    <3>. QED  BY <1>e, <2>1, <2>3, <3>1
  <2>4. CASE ~NonceUsed /\ Signal("TransactionReverted") /\ pool' = pool \cup {NextAttempt}
    <3>1. "TransactionReverted" \in TransactionError
      BY DEF TransactionError
    <3>. QED  BY <2>1, <2>4, <3>1, EndsWithError
  <2>. QED  BY <1>4, <2>2, <2>3, <2>4 DEF SendFailed
<1>5. CASE AwaitReceipt
  <2>1. task.pc \in Open /\ {"block", "waitReceipt"} \subseteq Open /\ UNCHANGED <<pool, mined>>
    BY <1>5 DEF AwaitReceipt, Open, Running
  <2>. QED  BY <1>5, <1>m, <1>h, <2>1 DEF AwaitReceipt
<1>6. CASE WaitReceipt
  <2>1. task.pc \in Open /\ "waitVerify" \in Open /\ UNCHANGED <<pool, mined>>
        /\ "NotConfirmed" \in TransactionError
    BY <1>6 DEF WaitReceipt, Open, Running, TransactionError
  <2>. QED  BY <1>6, <1>m, <1>e, <1>h, <2>1 DEF WaitReceipt
<1>7. CASE WaitVerify
  <2>1. task.pc \in Open /\ UNCHANGED <<pool, mined>>
    BY <1>7 DEF WaitVerify, Open, Running
  <2>2. CASE Return
    BY <2>1, <2>2, EndsSilently
  <2>3. CASE /\ task' = [task EXCEPT !.pc = "waitReceipt", !.wait = @ + 1]
             /\ UNCHANGED channel
    <3>1. task'.pc \in Open /\ task'.nonce = task.nonce
          /\ task'.payload = task.payload /\ task'.error = task.error
      BY <2>3, <1>t DEF Task, Open, Running
    <3>. QED  BY <2>1, <2>3, <3>1, Moves
  <2>. QED  BY <1>7, <2>2, <2>3 DEF WaitVerify
<1>8. CASE Finish
  BY <1>8, <1>t, Finishes DEF Contract!Next, Contract!JobStep
<1>. QED  BY <1>1, <1>2, <1>3, <1>4, <1>5, <1>6, <1>7, <1>8 DEF TaskStep
-----------------------------------------------------------------------------
(* The other steps.                                                        *)

\* A new task (monitor_new_transaction_with_builder).
LEMMA Starts ==
    ASSUME TypeOK, NEW p \in Payload, Submit(p)
    PROVE  Contract!Start(p)
<1>. PICK n \in 0 .. (MaxNonce - 1) :
        /\ IsPendingNonce(n)
        /\ task' = [pc |-> "build", nonce |-> n, payload |-> p,
                    sent |-> 0, wait |-> 0, error |-> "none"]
  BY DEF Submit, MonitorNewTransaction
<1>1. task.pc \notin Running /\ UNCHANGED <<channel, pool, mined>>
  BY DEF Submit, MonitorNewTransaction, InProgress
<1>2. ~Contract!InProgress
  BY <1>1 DEF Contract!InProgress, Running, TypeOK, Task
<1>3. Job' = [pc |-> "busy", nonce |-> n, payload |-> p, error |-> "none"]
  BY DEF Job, Running
<1>4. Live' = Live /\ Log' = Log
  BY <1>1 DEF Live, Log, LogOf
<1>5. Contract!IsPendingNonce(n)
  <2>1. Len(Log) = Len(mined)
    BY LogOfMined DEF TypeOK, Log
  <2>2. n >= Len(Log) /\ \A t \in Live : t.nonce # n
    BY <2>1, LiveNonces DEF IsPendingNonce
  <2>3. \A m \in Len(Log) .. (n - 1) : \E t \in Live : t.nonce = m
    BY <2>1, LiveNonces DEF IsPendingNonce
  <2>. QED  BY <2>2, <2>3 DEF Contract!IsPendingNonce, Live, Log, LogOf
<1>. QED  BY <1>1, <1>2, <1>3, <1>4, <1>5 DEF Contract!Start, Job, Live, Log, LogOf

\* The process dies.
LEMMA Crashes ==
    ASSUME TypeOK, Crash
    PROVE  Contract!Crash
<1>1. /\ task'.pc = "none" /\ task'.nonce = task.nonce /\ task'.payload = task.payload
      /\ task'.error = "none" /\ channel' = <<>> /\ UNCHANGED <<pool, mined>>
  BY DEF Crash, TypeOK, Task
<1>2. Job' = [pc |-> "none", nonce |-> task.nonce, payload |-> task.payload, error |-> "none"]
  BY <1>1 DEF Job, Running
<1>3. [Job EXCEPT !.pc = "none", !.error = "none"] =
        [pc |-> "none", nonce |-> task.nonce, payload |-> task.payload, error |-> "none"]
  <2>. DEFINE R == [pc : {"none"}, nonce : {task.nonce}, payload : {task.payload}, error : {"none"}]
  <2>1. Job \in [pc : {Job.pc, "none"}, nonce : {task.nonce}, payload : {task.payload},
                 error : {task.error, "none"}]
    BY DEF Job
  <2>2. [Job EXCEPT !.pc = "none", !.error = "none"] \in R
    BY <2>1
  <2>3. \A r \in R : r = [pc |-> "none", nonce |-> task.nonce, payload |-> task.payload,
                          error |-> "none"]
    OBVIOUS
  <2>. QED  BY <2>2, <2>3
<1>4. Live' = Live /\ Log' = Log
  BY <1>1 DEF Live, Log, LogOf
<1>. QED  BY <1>1, <1>2, <1>3, <1>4 DEF Contract!Crash, Job, Live, Log, LogOf

\* L1 mines one of the attempts; its rivals look the same in the contract.
LEMMA Mines ==
    ASSUME TypeOK, PoolAgrees, NEW t \in pool, NEW s \in MinedStatus, Mine(t, s)
    PROVE  Contract!Next
<1>. DEFINE v == [nonce |-> t.nonce, payload |-> t.payload]
            m == [attempt |-> t.attempt, payload |-> t.payload, status |-> s]
            g == [payload |-> t.payload, status |-> s]
            S == [payload : Payload, status : MinedStatus]
<1>1. /\ t.nonce = Len(mined) /\ mined' = Append(mined, m) /\ UNCHANGED <<task, channel>>
      /\ pool' = {u \in pool : u.nonce # t.nonce}
  BY DEF Mine
<1>2. m \in Mined /\ mined \in Seq(Mined) /\ m.payload = t.payload /\ m.status = s /\ g \in S
  BY DEF TypeOK, Tx, Mined
<1>3. v \in Live /\ v.nonce = t.nonce /\ v.payload = t.payload
  BY DEF Live
<1>4. Live' = Live \ {v}
  <2>1. ASSUME NEW u \in pool' PROVE [nonce |-> u.nonce, payload |-> u.payload] \in Live \ {v}
    <3>1. u \in pool /\ u.nonce # t.nonce
      BY <1>1, <2>1
    <3>2. [nonce |-> u.nonce, payload |-> u.payload].nonce = u.nonce
      OBVIOUS
    <3>. QED  BY <3>1, <3>2, <1>3 DEF Live
  <2>2. ASSUME NEW u \in pool, [nonce |-> u.nonce, payload |-> u.payload] # v PROVE u \in pool'
    BY <1>1, <2>2 DEF PoolAgrees
  <2>. QED  BY <2>1, <2>2 DEF Live
<1>5. Log \in Seq(S) /\ Len(Log) = Len(mined)
  BY <1>2, LogOfMined DEF Log
<1>6. Log' = Append(Log, g)
  <2>1. /\ mined' \in Seq(Mined) /\ Len(mined') = Len(mined) + 1
        /\ mined'[Len(mined) + 1] = m
        /\ \A i \in 1 .. Len(mined) : mined'[i] = mined[i]
    BY <1>1, <1>2
  <2>2. /\ Log' \in Seq(S) /\ Len(Log') = Len(mined')
        /\ \A i \in 1 .. Len(mined') :
            Log'[i] = [payload |-> mined'[i].payload, status |-> mined'[i].status]
    BY <2>1, LogOfMined DEF Log
  <2>3. /\ Append(Log, g) \in Seq(S) /\ Len(Append(Log, g)) = Len(mined) + 1
        /\ Append(Log, g)[Len(mined) + 1] = g
        /\ \A i \in 1 .. Len(mined) : Append(Log, g)[i] = Log[i]
    <3>. HIDE DEF S, g
    <3>. QED  BY <1>2, <1>5, AppendProperties
  <2>4. ASSUME NEW i \in 1 .. Len(mined) + 1 PROVE Log'[i] = Append(Log, g)[i]
    <3>1. CASE i = Len(mined) + 1
      <4>1. Log'[i] = [payload |-> mined'[i].payload, status |-> mined'[i].status]
        BY <2>1, <2>2
      <4>. QED  BY <4>1, <3>1, <2>1, <2>3, <1>2
    <3>2. CASE i \in 1 .. Len(mined)
      <4>1. Log'[i] = [payload |-> mined'[i].payload, status |-> mined'[i].status]
        BY <2>1, <2>2
      <4>2. Log[i] = [payload |-> mined[i].payload, status |-> mined[i].status]
        BY <3>2 DEF Log, LogOf
      <4>3. mined'[i] = mined[i] /\ Append(Log, g)[i] = Log[i]
        BY <3>2, <2>1, <2>3
      <4>. QED  BY <4>1, <4>2, <4>3
    <3>3. i = Len(mined) + 1 \/ i \in 1 .. Len(mined)
      <4>1. Len(mined) \in Nat
        BY <1>2
      <4>. QED  BY <4>1
    <3>. QED  BY <3>1, <3>2, <3>3
  <2>. HIDE DEF S, g
  <2>. QED  BY <2>1, <2>2, <2>3, <2>4, SeqEqual
<1>7. Job' = Job
  BY <1>1 DEF Job
<1>8. s \in Contract!MinedStatus
  BY DEF MinedStatus, ContractErrors, Contract!MinedStatus, Contract!ContractErrors
<1>9. Contract!Mine(v, s)
  <2>1. g = [payload |-> v.payload, status |-> s] /\ v.nonce = Len(Log)
    BY <1>1, <1>3, <1>5
  <2>. HIDE DEF v, g
  <2>. QED  BY <2>1, <1>1, <1>3, <1>4, <1>6, <1>7 DEF Contract!Mine, Job, Live, Log, LogOf
<1>. HIDE DEF v
<1>. QED  BY <1>3, <1>8, <1>9 DEF Contract!Next, Live

\* The mempools drop an attempt: its last copy in the contract, or nothing.
LEMMA Evicts ==
    ASSUME NEW t \in pool, Evict(t)
    PROVE  Contract!Next \/ UNCHANGED Contract!contractVars
<1>. DEFINE v == [nonce |-> t.nonce, payload |-> t.payload]
<1>1. pool' = pool \ {t} /\ UNCHANGED <<task, channel, mined>> /\ v \in Live
  BY DEF Evict, Live
<1>2. Job' = Job /\ Log' = Log
  BY <1>1 DEF Job, Log, LogOf
<1>3. Live' = Live \/ Live' = Live \ {v}
  BY <1>1 DEF Live
<1>. HIDE DEF v
<1>4. CASE Live' = Live
  BY <1>1, <1>2, <1>4 DEF Contract!contractVars, Job, Live, Log, LogOf
<1>5. CASE Live' = Live \ {v}
  <2>1. Contract!Evict(v)
    BY <1>1, <1>2, <1>5 DEF Contract!Evict, Job, Live, Log, LogOf
  <2>. QED  BY <2>1, <1>1 DEF Contract!Next, Live
<1>. QED  BY <1>3, <1>4, <1>5

\* The node reads the channel.
LEMMA Receives ==
    ASSUME TryRecv
    PROVE  Contract!TryRecv
<1>1. Job' = Job /\ Live' = Live /\ Log' = Log
  BY DEF TryRecv, Job, Live, Log, LogOf
<1>. QED  BY <1>1 DEF TryRecv, Contract!TryRecv, Job, Live, Log, LogOf
-----------------------------------------------------------------------------
(* The theorem.                                                            *)

LEMMA AgreesInitially == Init => PoolAgrees
BY DEF Init, PoolAgrees

\* Only a task in progress adds transactions to the mempool, with a nonce
\* that is its own.
LEMMA AgreesAlways == IInv /\ PoolAgrees /\ [Next]_tmVars => PoolAgrees'
<1>. SUFFICES ASSUME IInv, PoolAgrees, [Next]_tmVars PROVE PoolAgrees'
  OBVIOUS
<1>1. CASE pool' \subseteq pool
  BY <1>1 DEF PoolAgrees
<1>2. CASE task.pc = "send" /\ pool' = pool \cup {NextAttempt}
  <2>1. NextAttempt.nonce = task.nonce /\ NextAttempt.payload = task.payload
    BY DEF NextAttempt
  <2>2. \A t \in pool : t.nonce = task.nonce => t.payload = task.payload
    BY <1>2 DEF IInv, OwnNonce
  <2>. QED  BY <1>2, <2>1, <2>2 DEF PoolAgrees
<1>3. pool' \subseteq pool \/ (task.pc = "send" /\ pool' = pool \cup {NextAttempt})
  <2>1. CASE TaskStep
    BY <2>1 DEF TaskStep, Build, CheckBlock, SendOk, SendFailed, AwaitReceipt, WaitReceipt,
          WaitVerify, Finish
  <2>2. ASSUME NEW t \in pool, NEW s \in MinedStatus, Mine(t, s) PROVE pool' \subseteq pool
    BY <2>2 DEF Mine
  <2>3. ASSUME NEW t \in pool, Evict(t) PROVE pool' \subseteq pool
    BY <2>3 DEF Evict
  <2>4. ASSUME NEW p \in Payload, Submit(p) PROVE pool' \subseteq pool
    BY <2>4 DEF Submit, MonitorNewTransaction
  <2>5. CASE TryRecv \/ Crash \/ UNCHANGED tmVars
    BY <2>5 DEF TryRecv, Crash, tmVars
  <2>. QED  BY <2>1, <2>2, <2>3, <2>4, <2>5 DEF Next
<1>. QED  BY <1>1, <1>2, <1>3

LEMMA StartsRight == Init => Contract!Init
<1>. SUFFICES ASSUME Init PROVE Contract!Init
  OBVIOUS
<1>. PICK p \in Payload : task = [pc |-> "none", nonce |-> 0, payload |-> p,
                                  sent |-> 0, wait |-> 0, error |-> "none"]
  BY DEF Init
<1>1. Job = [pc |-> "none", nonce |-> 0, payload |-> p, error |-> "none"]
  BY DEF Job, Running
<1>2. Live = {}
  BY DEF Init, Live
<1>3. Log = <<>>
  <2>1. mined = <<>> /\ mined \in Seq(Mined) /\ Len(mined) = 0
    BY DEF Init
  <2>2. Log \in Seq([payload : Payload, status : MinedStatus]) /\ Len(Log) = 0
    BY <2>1, LogOfMined DEF Log
  <2>. QED  BY <2>2, EmptySeq
<1>. QED  BY <1>1, <1>2, <1>3 DEF Init, Contract!Init, Contract!Idle, Job, Live, Log, LogOf

LEMMA StepsRight ==
    IInv /\ IInv' /\ PoolAgrees /\ [Next]_tmVars => [Contract!Next]_Contract!contractVars
<1>. SUFFICES ASSUME IInv, IInv', PoolAgrees, [Next]_tmVars
              PROVE  Contract!Next \/ UNCHANGED Contract!contractVars
  OBVIOUS
<1>t. TypeOK
  BY DEF IInv
<1>1. ASSUME NEW p \in Payload, Submit(p) PROVE Contract!Next
  BY <1>t, <1>1, Starts DEF Submit, Contract!Next
<1>2. CASE TaskStep
  BY <1>2, TaskSteps
<1>3. CASE TryRecv
  BY <1>3, Receives DEF Contract!Next
<1>4. CASE Crash
  BY <1>t, <1>4, Crashes DEF Contract!Next
<1>5. ASSUME NEW t \in pool, NEW s \in MinedStatus, Mine(t, s) PROVE Contract!Next
  BY <1>t, <1>5, Mines
<1>6. ASSUME NEW t \in pool, Evict(t)
      PROVE  Contract!Next \/ UNCHANGED Contract!contractVars
  BY <1>6, Evicts
<1>7. CASE UNCHANGED tmVars
  BY <1>7 DEF tmVars, Contract!contractVars
<1>. QED  BY <1>1, <1>2, <1>3, <1>4, <1>5, <1>6, <1>7 DEF Next

\* What the node sees of the transaction monitor is what the contract
\* promises: it sends under one nonce what it was given, ends silently only
\* when that nonce is used, and ends with a retryable error only when nothing
\* of it was executed or can still be (monitor_transaction,
\* is_transaction_handled_by_builder, handle_rpc_error).
THEOREM KeepsContract == Spec => ImplementsContract
<1>1. Spec => [](IInv /\ PoolAgrees)
  BY InitIInv, NextIInv, AgreesInitially, AgreesAlways, PTL DEF Spec
<1>. QED  BY <1>1, StartsRight, StepsRight, PTL DEF Spec, ImplementsContract, Contract!Spec
=============================================================================
