------------------------- MODULE TransactionMonitor -------------------------
(***************************************************************************)
(* The L1 transaction monitor (common/src/shared/transaction_monitor.rs).  *)
(*                                                                         *)
(* A caller hands one payload at a time to the monitor.  The monitor       *)
(* spawns a task that builds the transaction, sends it, replaces it with   *)
(* higher fees while it is not mined, then waits for it; on failure the    *)
(* task puts one TransactionError into the caller's channel.  The caller   *)
(* never learns of a success: it sees a finished task and an empty         *)
(* channel.                                                                *)
(*                                                                         *)
(* L1 is external: a mempool and the list of mined transactions of the     *)
(* node's account, in nonce order.  All attempts of one task carry the     *)
(* same nonce, so at most one of them is mined.  Fees are left out: they   *)
(* only decide which attempt L1 mines, which is a free choice here.        *)
(***************************************************************************)
EXTENDS Integers, Sequences

CONSTANTS
    Payload,        \* what a transaction carries (a proposal)
    MaxSend,        \* max_attempts_to_send_tx
    MaxWait,        \* max_attempts_to_wait_tx
    MaxNonce,       \* bound: transactions the account sends
    RpcSimulates    \* the RPC node simulates replacements before it accepts them

ASSUME MonitorAssumption ==
    /\ MaxSend \in Nat \ {0}
    /\ MaxWait \in Nat
    /\ MaxNonce \in Nat
    /\ RpcSimulates \in BOOLEAN

VARIABLES
    task,       \* the spawned task behind join_handle
    channel,    \* error_notification_channel, oldest first
    pool,       \* L1 mempool: sent and not mined attempts
    mined       \* mined transactions; mined[n + 1] has nonce n

tmVars == <<task, channel, pool, mined>>
-----------------------------------------------------------------------------
\* What convert_error_payload makes of a contract's error code.
ContractErrors == {"EstimationTooEarly", "InsufficientFunds", "ReanchorRequired",
                   "OldestForcedInclusionDue", "NotTheOperatorInCurrentEpoch"}

BuildErrors == ContractErrors \cup {"EstimationFailed", "BuildFailed"}

TransactionError == BuildErrors \cup {"TransactionReverted", "NotConfirmed",
                        "UnsupportedTransactionType", "GetBlockNumberFailed"}

\* What the execution of a mined transaction ended with.
MinedStatus == {"ok", "TransactionReverted"} \cup ContractErrors

Running == {"build", "block", "send", "receipt", "waitReceipt", "waitVerify", "exit"}

\* sent: how many attempts are in sent_tx_hashes (0 .. sent - 1);
\* error: the error signalled by this task, "none" before.
Task == [pc : Running \cup {"none", "finished"}, nonce : Nat, payload : Payload,
         sent : 0 .. MaxSend, wait : 0 .. MaxWait, error : TransactionError \cup {"none"}]

Tx == [nonce : Nat, attempt : Nat, payload : Payload]

Mined == [attempt : Nat, payload : Payload, status : MinedStatus]
-----------------------------------------------------------------------------
\* is_transaction_in_progress
InProgress == task.pc \in Running

\* The nonce eth_getTransactionCount("pending") answers: the first one
\* after the mined transactions that no transaction in the mempool has.
IsPendingNonce(n) ==
    /\ n >= Len(mined)
    /\ \A t \in pool : t.nonce # n
    /\ \A m \in Len(mined) .. (n - 1) : \E t \in pool : t.nonce = m

\* A transaction of the task's nonce has been mined.
NonceUsed == Len(mined) > task.nonce

\* verify_tx_included: one of the sent hashes is in a block.  The receipt's
\* status is not looked at.
TxIncluded == NonceUsed /\ mined[task.nonce + 1].attempt < task.sent

\* The attempt the receipt of which is awaited is the one that was mined.
LastIncluded == NonceUsed /\ mined[task.nonce + 1].attempt = task.sent - 1
-----------------------------------------------------------------------------
\* send_error_signal, after which the task returns.
Signal(e) ==
    /\ channel' = Append(channel, e)
    /\ task' = [task EXCEPT !.pc = "exit", !.error = e]

\* The task returns without an error signal.
Return == task' = [task EXCEPT !.pc = "exit"] /\ UNCHANGED channel

\* Faulty: a new task although one is in progress.
MonitorNewTransactionAlways(p) ==
    /\ \E n \in 0 .. (MaxNonce - 1) :
        /\ IsPendingNonce(n)
        /\ task' = [pc |-> "build", nonce |-> n, payload |-> p,
                    sent |-> 0, wait |-> 0, error |-> "none"]
    /\ UNCHANGED <<channel, pool, mined>>

\* monitor_new_transaction_with_builder: refused while a task is in progress.
MonitorNewTransaction(p) ==
    /\ ~InProgress
    /\ \E n \in 0 .. (MaxNonce - 1) :
        /\ IsPendingNonce(n)
        /\ task' = [pc |-> "build", nonce |-> n, payload |-> p,
                    sent |-> 0, wait |-> 0, error |-> "none"]
    /\ UNCHANGED <<channel, pool, mined>>

\* spawn_monitoring_task_with_builder and the type check of monitor_transaction
Build ==
    /\ task.pc = "build"
    /\ \/ task' = [task EXCEPT !.pc = "block"] /\ UNCHANGED channel
       \/ \E e \in BuildErrors \cup {"UnsupportedTransactionType"} : Signal(e)
    /\ UNCHANGED <<pool, mined>>

\* The head of the sending loop: read the L1 height, and before a
\* replacement look whether an earlier attempt was mined meanwhile.
CheckBlock ==
    /\ task.pc = "block"
    /\ \/ Signal("GetBlockNumberFailed")
       \/ task.sent > 0 /\ TxIncluded /\ Return
       \* also when an RPC error hides the mined attempt
       \/ task' = [task EXCEPT !.pc = "send"] /\ UNCHANGED channel
    /\ UNCHANGED <<pool, mined>>

\* The attempt that is sent next.
NextAttempt == [nonce |-> task.nonce, attempt |-> task.sent, payload |-> task.payload]

\* send_transaction is accepted by the L1 node.
SendOk ==
    /\ task.pc = "send"
    /\ ~NonceUsed
    /\ pool' = pool \cup {NextAttempt}
    /\ task' = [task EXCEPT !.pc = "receipt", !.sent = @ + 1]
    /\ UNCHANGED <<channel, mined>>

\* handle_rpc_error.  "nonce too low" is an error only when no sent hash is
\* found; a contract's error code is converted; anything else counts as
\* reverted, also when the node took the transaction and only its answer
\* was lost.
SendFailed ==
    /\ task.pc = "send"
    /\ \/ NonceUsed /\ TxIncluded /\ Return /\ UNCHANGED pool
       \/ /\ \E e \in {"TransactionReverted", "InsufficientFunds"} : Signal(e)
          /\ UNCHANGED pool
       \/ /\ task.sent = 0 \/ RpcSimulates
          /\ \E e \in ContractErrors : Signal(e)
          /\ UNCHANGED pool
       \/ /\ ~NonceUsed
          /\ Signal("TransactionReverted")
          /\ pool' = pool \cup {NextAttempt}
    /\ UNCHANGED mined

\* The answers of is_transaction_handled_by_builder other than "pending".  The
\* reason of a revert is asked for again and may be out of reach.
Handled ==
    \/ LastIncluded /\ mined[task.nonce + 1].status = "ok" /\ Return
    \/ /\ LastIncluded /\ mined[task.nonce + 1].status # "ok"
       /\ \E e \in {mined[task.nonce + 1].status, "TransactionReverted"} : Signal(e)
    \/ TxIncluded /\ Return              \* the watcher failed, the hash is mined
    \/ Signal("GetBlockNumberFailed")

\* Faulty: one attempt too many.
AwaitReceiptOneMore ==
    /\ task.pc = "receipt"
    /\ task.sent <= MaxSend
    /\ task' = [task EXCEPT !.pc = "block"]
    /\ UNCHANGED <<channel, pool, mined>>

\* Wait for the receipt of the attempt just sent; on a timeout go on to the
\* next attempt, or to the final wait.
AwaitReceipt ==
    /\ task.pc = "receipt"
    /\ \/ Handled
       \/ /\ task.sent < MaxSend
          /\ task' = [task EXCEPT !.pc = "block"]
          /\ UNCHANGED channel
       \/ /\ task.sent >= MaxSend
          /\ task' = [task EXCEPT !.pc = "waitReceipt"]
          /\ UNCHANGED channel
    /\ UNCHANGED <<pool, mined>>

\* The final wait: the last attempt's receipt, then all sent hashes, until
\* the waits are used up.
WaitReceipt ==
    /\ task.pc = "waitReceipt"
    /\ \/ task.wait < MaxWait /\ Handled
       \/ /\ task.wait < MaxWait
          /\ task' = [task EXCEPT !.pc = "waitVerify"]
          /\ UNCHANGED channel
       \/ task.wait >= MaxWait /\ Signal("NotConfirmed")
    /\ UNCHANGED <<pool, mined>>

\* Faulty: the waits are not counted.
WaitVerifyForever ==
    /\ task.pc = "waitVerify"
    /\ IF TxIncluded THEN Return
       ELSE task' = [task EXCEPT !.pc = "waitReceipt"] /\ UNCHANGED channel
    /\ UNCHANGED <<pool, mined>>

\* Faulty: a wait in vain ends the task.
WaitVerifySilent ==
    /\ task.pc = "waitVerify"
    /\ Return
    /\ UNCHANGED <<pool, mined>>

\* Faulty: a wait in vain is an error that is tried again.
WaitVerifyRetry ==
    /\ task.pc = "waitVerify"
    /\ Signal("EstimationTooEarly")
    /\ UNCHANGED <<pool, mined>>

WaitVerify ==
    /\ task.pc = "waitVerify"
    /\ \/ TxIncluded /\ Return
       \/ task' = [task EXCEPT !.pc = "waitReceipt", !.wait = @ + 1] /\ UNCHANGED channel
    /\ UNCHANGED <<pool, mined>>

\* The task ends; only now join_handle.is_finished() holds.
Finish ==
    /\ task.pc = "exit"
    /\ task' = [task EXCEPT !.pc = "finished"]
    /\ UNCHANGED <<channel, pool, mined>>

TaskStep == \/ Build \/ CheckBlock \/ SendOk \/ SendFailed \/ AwaitReceipt
            \/ WaitReceipt \/ WaitVerify \/ Finish
-----------------------------------------------------------------------------
\* The caller takes an error out of the channel.
TryRecv ==
    /\ channel # <<>>
    /\ channel' = Tail(channel)
    /\ UNCHANGED <<task, pool, mined>>

\* The process dies and is started again.
Crash ==
    /\ task' = [task EXCEPT !.pc = "none", !.sent = 0, !.wait = 0, !.error = "none"]
    /\ channel' = <<>>
    /\ UNCHANGED <<pool, mined>>

\* L1 mines an attempt of the account's next nonce; its rivals disappear.
Mine(t, s) ==
    /\ t \in pool
    /\ t.nonce = Len(mined)
    /\ mined' = Append(mined, [attempt |-> t.attempt, payload |-> t.payload,
                               status |-> s])
    /\ pool' = {u \in pool : u.nonce # t.nonce}
    /\ UNCHANGED <<task, channel>>

\* The mempools of L1 drop a transaction for good.
Evict(t) ==
    /\ t \in pool
    /\ pool' = pool \ {t}
    /\ UNCHANGED <<task, channel, mined>>
-----------------------------------------------------------------------------
Init ==
    /\ \E p \in Payload : task = [pc |-> "none", nonce |-> 0, payload |-> p,
                                  sent |-> 0, wait |-> 0, error |-> "none"]
    /\ channel = <<>>
    /\ pool = {}
    /\ mined = <<>>

\* Faulty: the channel is not polled before the next payload.
SubmitWithoutPoll(p) == MonitorNewTransaction(p)

\* The caller's protocol: it polls the channel, and hands over a new payload
\* only when it found neither a task in progress nor an error.
Submit(p) == channel = <<>> /\ MonitorNewTransaction(p)

Next ==
    \/ \E p \in Payload : Submit(p)
    \/ TaskStep
    \/ TryRecv
    \/ Crash
    \/ \E t \in pool, s \in MinedStatus : Mine(t, s)
    \/ \E t \in pool : Evict(t)

Spec == Init /\ [][Next]_tmVars

\* The runtime keeps polling the task, every RPC call returns, and L1 keeps
\* producing blocks (a receipt is awaited at least until the height changes).
FairSpec == Spec /\ WF_tmVars(TaskStep)
-----------------------------------------------------------------------------
TypeOK ==
    /\ task \in Task
    /\ channel \in Seq(TransactionError)
    /\ pool \subseteq Tx
    /\ mined \in Seq(Mined)

Ended == task.pc \in {"exit", "finished"}

\* The errors after which the node keeps running and submits again.
Retryable == {"EstimationTooEarly", "OldestForcedInclusionDue",
              "NotTheOperatorInCurrentEpoch"}

\* A task that ends without an error signal, which its caller takes for a
\* confirmation, has had a transaction with its payload mined: no timeout,
\* RPC failure or "nonce too low" answer ends a task silently before that.
SilentEndIsMined ==
    Ended /\ task.error = "none"
        => NonceUsed /\ mined[task.nonce + 1].payload = task.payload

\* When a task ends with an error after which the caller submits the payload
\* again, none of its transactions was executed or can still be: not the
\* replaced attempts, and not one mined while the error was on its way.  This
\* takes an RPC node that does not simulate replacements.
SafeToResubmit ==
    Ended /\ task.error \in Retryable /\ ~RpcSimulates
        => /\ \A t \in pool : t.nonce # task.nonce
           /\ NonceUsed => mined[task.nonce + 1].status # "ok"

\* An error in the channel is the error of the latest task, which has ended:
\* a caller that polls the channel before each submission never applies the
\* error of one payload to the next.
ErrorIsOfLatestTask ==
    channel # <<>> => Ended /\ channel = <<task.error>>

\* What a task that ends silently is taken for: the payload was executed on
\* L1.  (It is not: see verify_tx_included.)
SilentEndIsExecuted ==
    Ended /\ task.error = "none" /\ NonceUsed
        => mined[task.nonce + 1].status = "ok"

\* What the node sees of the monitor: every task keeps the promises of
\* MonitorContract, whatever is retried, replaced, lost or mined meanwhile.
Contract == INSTANCE MonitorContract WITH
    job <- [pc |-> CASE task.pc \in Running \ {"exit"} -> "busy" [] OTHER -> task.pc,
            nonce |-> task.nonce, payload |-> task.payload, error |-> task.error],
    live <- {[nonce |-> t.nonce, payload |-> t.payload] : t \in pool},
    mined <- [i \in 1 .. Len(mined) |->
                 [payload |-> mined[i].payload, status |-> mined[i].status]],
    SilentRevert <- TRUE

ImplementsContract == Contract!Spec

\* Every task ends, whatever L1 and its RPC node answer: attempts and waits
\* are bounded.
TaskEnds == InProgress ~> ~InProgress
=============================================================================
