--------------------------- MODULE MonitorContract ---------------------------
(***************************************************************************)
(* What the transaction monitor promises to the node that uses it, without *)
(* attempts, replacements, receipts and waits.                             *)
(*                                                                         *)
(* A job carries one payload under one nonce.  It puts transactions with   *)
(* that payload on their way, of which L1 mines at most one, and ends      *)
(* either silently, which is only possible once one was mined, or with one *)
(* error in the channel.  After a retryable error nothing of the job is on *)
(* its way and nothing of it was executed.  TransactionMonitor implements  *)
(* this specification, ShastaNode builds on it.                            *)
(***************************************************************************)
EXTENDS Integers, Sequences

CONSTANTS
    Payload,        \* what a transaction carries (a proposal)
    MaxNonce,       \* bound: transactions the account sends
    RpcSimulates,   \* the RPC node simulates replacements before it accepts them
    SilentRevert    \* a job may end silently although its transaction reverted

VARIABLES
    job,        \* [pc, nonce, payload, error]
    channel,    \* errors the node has not read, oldest first
    live,       \* transactions on their way: a set of [nonce, payload]
    mined       \* mined transactions; mined[n + 1] has nonce n

contractVars == <<job, channel, live, mined>>

\* What convert_error_payload makes of a contract's error code.
ContractErrors == {"EstimationTooEarly", "InsufficientFunds", "ReanchorRequired",
                   "OldestForcedInclusionDue", "NotTheOperatorInCurrentEpoch"}

TransactionError == ContractErrors \cup
    {"EstimationFailed", "BuildFailed", "TransactionReverted", "NotConfirmed",
     "UnsupportedTransactionType", "GetBlockNumberFailed"}

\* What the execution of a mined transaction ended with.
MinedStatus == {"ok", "TransactionReverted"} \cup ContractErrors

\* The errors after which the node keeps running and submits again.
Retryable == {"EstimationTooEarly", "OldestForcedInclusionDue",
              "NotTheOperatorInCurrentEpoch"}

Idle(p) == [pc |-> "none", nonce |-> 0, payload |-> p, error |-> "none"]

InProgress == job.pc \in {"busy", "exit"}

NonceUsed == Len(mined) > job.nonce

Executed == NonceUsed /\ mined[job.nonce + 1].status = "ok"

\* The nonce of the account's next transaction.
IsPendingNonce(n) ==
    /\ n >= Len(mined)
    /\ \A t \in live : t.nonce # n
    /\ \A m \in Len(mined) .. (n - 1) : \E t \in live : t.nonce = m
-----------------------------------------------------------------------------
Init ==
    /\ \E p \in Payload : job = Idle(p)
    /\ channel = <<>>
    /\ live = {}
    /\ mined = <<>>

\* A new job; refused while one is in progress.
Start(p) ==
    /\ ~InProgress
    /\ \E n \in 0 .. (MaxNonce - 1) :
        /\ IsPendingNonce(n)
        /\ job' = [pc |-> "busy", nonce |-> n, payload |-> p, error |-> "none"]
    /\ UNCHANGED <<channel, live, mined>>

\* A transaction of the job reaches the mempool.
Send ==
    /\ job.pc = "busy"
    /\ ~NonceUsed
    /\ live' = live \cup {[nonce |-> job.nonce, payload |-> job.payload]}
    /\ UNCHANGED <<job, channel, mined>>

\* The job ends without an error.
EndSilently ==
    /\ job.pc = "busy"
    /\ NonceUsed
    /\ SilentRevert \/ Executed
    /\ job' = [job EXCEPT !.pc = "exit"]
    /\ UNCHANGED <<channel, live, mined>>

\* The job ends with the error e.  The answer to its last transaction may
\* have been lost on the way (l).
EndWithError(e, l) ==
    /\ job.pc = "busy"
    /\ e \in Retryable /\ ~RpcSimulates => ~Executed /\ \A t \in live : t.nonce # job.nonce
    /\ l => e = "TransactionReverted" /\ ~NonceUsed
    /\ job' = [job EXCEPT !.pc = "exit", !.error = e]
    /\ channel' = Append(channel, e)
    /\ live' = IF l THEN live \cup {[nonce |-> job.nonce, payload |-> job.payload]}
                    ELSE live
    /\ UNCHANGED mined

\* The task of the job has returned, which the node can observe.
Finish ==
    /\ job.pc = "exit"
    /\ job' = [job EXCEPT !.pc = "finished"]
    /\ UNCHANGED <<channel, live, mined>>

JobStep ==
    \/ Send
    \/ EndSilently
    \/ \E e \in TransactionError, l \in BOOLEAN : EndWithError(e, l)
    \/ Finish

\* The node takes an error out of the channel.
TryRecv ==
    /\ channel # <<>>
    /\ channel' = Tail(channel)
    /\ UNCHANGED <<job, live, mined>>

\* The process dies: the job and the channel are lost, L1 is not.
Crash ==
    /\ job' = [job EXCEPT !.pc = "none", !.error = "none"]
    /\ channel' = <<>>
    /\ UNCHANGED <<live, mined>>

\* L1 mines the account's next transaction.
Mine(t, s) ==
    /\ t \in live
    /\ t.nonce = Len(mined)
    /\ mined' = Append(mined, [payload |-> t.payload, status |-> s])
    /\ live' = live \ {t}
    /\ UNCHANGED <<job, channel>>

\* The mempools drop a transaction for good.
Evict(t) ==
    /\ t \in live
    /\ live' = live \ {t}
    /\ UNCHANGED <<job, channel, mined>>

Next ==
    \/ \E p \in Payload : channel = <<>> /\ Start(p)
    \/ JobStep
    \/ TryRecv
    \/ Crash
    \/ \E t \in live, s \in MinedStatus : Mine(t, s)
    \/ \E t \in live : Evict(t)

Spec == Init /\ [][Next]_contractVars
=============================================================================
