---------------------------- MODULE RealtimeNode ----------------------------
(***************************************************************************)
(* The realtime node (realtime/src/): it preconfirms L2 blocks, proves     *)
(* each batch of them and proposes it to the inbox on L1 as a transition   *)
(* from the last finalized block, together with the user operations and    *)
(* the L1 calls that the blocks depend on.                                 *)
(*                                                                         *)
(* Actors that interleave: the preconfirmation loop, the task that proves  *)
(* and sends a batch, the transaction monitor, the task that tracks the    *)
(* transaction for the status of user operations, the RPC server, the L2   *)
(* driver and L1.  A failed submission is repaired by removing every L2    *)
(* block after the last one that the inbox knows.                          *)
(***************************************************************************)
EXTENDS BatchBuilder, FiniteSets

CONSTANTS
    Txs,        \* L2 transactions that call L1 and need its answer
    MaxOps,     \* the largest number of user operations
    MaxNonce,   \* bound: L1 transactions
    Scenarios   \* [mode, faults, txs, ops, time, height, boots]: how the node is
                \* configured, what may go wrong, and the bounds on the transactions
                \* and operations, L2 slots, L2 blocks and starts of the process

\* "dormant"   the inbox is activated after the node has started
\* "role"      the node is not the preconfer (a fork switch) or not synced
\* "advance"   no anchor block for a new batch, or the driver refuses to build a block
\* "simulate"  an L1 simulation of a user operation fails
\* "scan"      the simulation of an outbound transaction fails
\* "anchor"    L1 has moved too far ahead of the anchor of the batch
\* "lag"       the logs of a new block are not there in time
\* "logs"      the logs of a new block cannot be read
\* "encode"    the task fails before it asks for a proof
\* "prove"     the prover fails
\* "fiState"   the state of the forced inclusions cannot be read
\* "estimate"  the estimation fails although the batch fits
\* "due"       the inbox asks for more forced inclusions
\* "revert"    the transaction reverts although the batch fits
\* "send"      a transaction cannot be sent, or sent but without an answer
\* "stop"      the monitor ends with an error that stops the node
\* "crash"     the process dies
AllFaults == {"dormant", "role", "advance", "simulate", "scan", "anchor", "lag", "logs",
              "encode", "prove", "fiState", "estimate", "due", "revert", "send", "stop", "crash"}

\* PRECONF_ONLY drops the batches, PROOF_REQUEST_BYPASS does not send them.
AllModes == {"normal", "preconfOnly", "bypass"}

ASSUME RealtimeAssumption ==
    /\ MaxOps \in Nat
    /\ \A t \in Txs : t \in Nat /\ t > MaxOps
    /\ Scenarios \subseteq [mode : AllModes, faults : SUBSET AllFaults, txs : SUBSET Txs,
                            ops : 0 .. MaxOps, time : Nat, height : Nat, boots : Nat]

VARIABLES
    pc,         \* where the main loop is
    ctx,        \* what the current step has read
    builder,    \* batch_builder
    lastHash,   \* last_finalized_block_hash
    lastNumber, \* last_finalized_block_number
    inflight,   \* the submission task: [stage, batch, error]
    head,       \* head_verifier
    wasSynced,  \* was_synced_preconfer of the operator
    pendingTx,  \* pending_return_signal and pending_mempool_tx_hash
    opQueue,    \* the channel of user operations
    nextId,     \* next_id
    store,      \* the status by id of an operation or by hash of an L2 transaction
    trackers,   \* the tasks that follow a transaction, oldest first
    geth,       \* the L2 chain
    inbox,      \* lastFinalizedBlockHash of the inbox on L1
    clock,      \* the L2 slot
    boots,      \* starts so far
    scenario,   \* one of Scenarios, fixed
    job, channel, live, mined

Monitor == INSTANCE MonitorContract WITH
    Payload <- {NoBatch}, RpcSimulates <- FALSE, SilentRevert <- FALSE

loopVars    == <<pc, ctx, builder, lastHash, lastNumber, head, wasSynced, pendingTx>>
opVars      == <<opQueue, nextId>>
runVars     == <<clock, boots, scenario>>
worldVars   == <<geth, inbox, runVars>>
monitorVars == <<job, channel, live, mined>>
vars == <<loopVars, inflight, opVars, store, trackers, worldVars, monitorVars>>

Plain == -1     \* a list of L2 transactions without an outbound one

NoCtx == [parent |-> <<>>, ts |-> 0, tx |-> 0, preconfer |-> FALSE, work |-> FALSE,
          start |-> FALSE, hash |-> ZeroHash]

NoSubmission == [stage |-> "none", batch |-> NoBatch, error |-> "none"]

Busy == inflight.stage # "none"

\* The operations and outbound transactions of a chain.
OpsOf(chain) == {b.op : b \in ToSet(chain)} \ {0}
TxsOf(chain) == {b.tx : b \in ToSet(chain)} \cap Txs

\* The status of the operations and transactions of a batch becomes s.
SetStatus(st, batch, s) ==
    [k \in DOMAIN st |-> IF Contains(batch.ops \o batch.txs, k) THEN s ELSE st[k]]

SetOpStatus(st, batch, s) == [k \in DOMAIN st |-> IF Contains(batch.ops, k) THEN s ELSE st[k]]
-----------------------------------------------------------------------------
(* Start: the finalized hash is read first, then the node warms up.        *)

Init ==
    /\ pc = "down" /\ ctx = NoCtx
    /\ builder = EmptyBuilder
    /\ lastHash = ZeroHash /\ lastNumber = 0
    /\ inflight = NoSubmission
    /\ head = ZeroHash /\ wasSynced = FALSE
    /\ pendingTx = 0
    /\ opQueue = <<>> /\ nextId = 1
    /\ store = [k \in 1 .. MaxOps \cup Txs |-> "none"]
    /\ trackers = <<>>
    /\ geth = <<>> /\ clock = 1 /\ boots = 0
    /\ scenario \in Scenarios
    /\ inbox = IF "dormant" \in scenario.faults THEN ZeroHash ELSE <<>>
    /\ Monitor!Init

\* BridgeHandler::new; the store is on disk and stays.
NewBridgeHandler == opQueue' = <<>> /\ nextId' = 1 /\ UNCHANGED store

\* BatchManager::new
NewBatchManager(hash) ==
    /\ builder' = EmptyBuilder /\ inflight' = NoSubmission
    /\ lastHash' = hash /\ lastNumber' = 0 /\ pendingTx' = 0
    /\ NewBridgeHandler

\* Node::new
NewNode(hash) ==
    /\ NewBatchManager(hash)
    /\ ctx' = NoCtx /\ head' = ZeroHash /\ wasSynced' = FALSE

\* create_realtime_node; the tasks of an earlier process are gone.
Boot ==
    /\ pc = "down" /\ boots < scenario.boots
    /\ pc' = "warmup"
    /\ boots' = boots + 1
    /\ NewNode(inbox)
    /\ trackers' = <<>>
    /\ Monitor!Crash
    /\ UNCHANGED <<geth, inbox, clock, scenario>>

\* warmup and wait_for_sent_transactions
Warmup ==
    /\ pc = "warmup"
    /\ inbox # ZeroHash
    /\ live = {}
    /\ pc' = IF scenario.mode = "preconfOnly" THEN "idle" ELSE "read"
    /\ UNCHANGED <<ctx, builder, lastHash, lastNumber, head, wasSynced, pendingTx, inflight,
                   opVars, store, trackers, worldVars, monitorVars>>

\* The first half of reorg_unproposed_blocks.
ReadFinalizedHash ==
    /\ pc \in {"read", "recover"}
    /\ ctx' = [ctx EXCEPT !.hash = inbox]
    /\ pc' = IF pc = "read" THEN "reorg" ELSE "recoverReorg"
    /\ UNCHANGED <<builder, lastHash, lastNumber, head, wasSynced, pendingTx, inflight,
                   opVars, store, trackers, worldVars, monitorVars>>

\* Faulty: the head counts as proposed.
LastProposedNumberHead(hash) == Len(geth)

\* Faulty: one block less.
LastProposedNumberLess(hash) == IF IsPrefix(hash, geth) /\ hash # <<>> THEN Len(hash) - 1 ELSE 0

\* find_l2_block_number_by_hash; a hash that is not found counts as 0.
LastProposedNumber(hash) == IF IsPrefix(hash, geth) THEN Len(hash) ELSE 0

\* The second half of reorg_unproposed_blocks.
ReorgUnproposedBlocks ==
    LET n == LastProposedNumber(ctx.hash)
    IN  /\ lastNumber' = n
        /\ IF Len(geth) <= n
           THEN UNCHANGED <<geth, lastHash>>
           ELSE geth' = SubSeq(geth, 1, n) /\ lastHash' = ctx.hash

FinishWarmup ==
    /\ pc = "reorg"
    /\ ReorgUnproposedBlocks
    /\ pc' = "idle"
    /\ UNCHANGED <<ctx, builder, head, wasSynced, pendingTx, inflight, opVars, store, trackers,
                   inbox, runVars, monitorVars>>

\* Faulty: the batches of the removed blocks stay.
FinishRecoveryKeepBatches ==
    /\ pc = "recoverReorg"
    /\ ReorgUnproposedBlocks
    /\ inflight' = NoSubmission
    /\ head' = geth'
    /\ pc' = "idle"
    /\ UNCHANGED <<ctx, builder, wasSynced, pendingTx, opVars, store, trackers,
                   inbox, runVars, monitorVars>>

\* recover_from_failed_submission: reorg, reset_builder, a new expected head.
FinishRecovery ==
    /\ pc = "recoverReorg"
    /\ ReorgUnproposedBlocks
    /\ builder' = EmptyBuilder
    /\ inflight' = NoSubmission
    /\ head' = geth'
    /\ pc' = "idle"
    /\ UNCHANGED <<ctx, wasSynced, pendingTx, opVars, store, trackers,
                   inbox, runVars, monitorVars>>
-----------------------------------------------------------------------------
(* main_block_preconfirmation_step                                         *)

\* get_slot_info_and_status
BeginStep(tx, preconfer, synced) ==
    /\ pc = "idle"
    /\ tx \in {0, Plain} \cup (scenario.txs \ TxsOf(geth))
    /\ ~preconfer \/ ~synced => "role" \in scenario.faults
    /\ ctx' = [parent |-> geth, ts |-> clock, tx |-> tx, preconfer |-> preconfer,
               work |-> preconfer /\ synced, start |-> preconfer /\ synced /\ ~wasSynced,
               hash |-> ZeroHash]
    /\ pc' = IF scenario.mode = "preconfOnly" THEN "preconfirm" ELSE "poll"
    /\ wasSynced' = (preconfer /\ (wasSynced \/ synced))
    /\ UNCHANGED <<builder, lastHash, lastNumber, head, pendingTx, inflight, opVars, store,
                   trackers, worldVars, monitorVars>>

\* handle_transaction_error, and the errors of a submission that are not of
\* its kind: where the step goes on.
AfterError(e) ==
    IF e \in {"other", "EstimationFailed", "TransactionReverted"} THEN "recover"
    ELSE IF e \in {"EstimationTooEarly", "OldestForcedInclusionDue",
                   "NotTheOperatorInCurrentEpoch"} THEN "idle"
    ELSE "down"

\* poll_submission_result
TakeResult ==
    /\ inflight' = IF inflight.stage \in {"ok", "failed"} THEN NoSubmission ELSE inflight
    /\ IF inflight.stage = "ok"
       THEN /\ lastHash' = inflight.batch.checkpoint
            /\ lastNumber' = Len(inflight.batch.checkpoint)
       ELSE UNCHANGED <<lastHash, lastNumber>>

\* The result of the submission, then one error of the monitor.
Poll ==
    /\ pc = "poll"
    /\ TakeResult
    /\ \/ /\ inflight.stage = "failed"
          /\ pc' = AfterError(inflight.error)
          /\ UNCHANGED monitorVars
       \/ /\ inflight.stage # "failed" /\ channel # <<>>
          /\ pc' = AfterError(Head(channel))
          /\ Monitor!TryRecv
       \/ /\ inflight.stage # "failed" /\ channel = <<>>
          /\ pc' = "preconfirm"
          /\ UNCHANGED monitorVars
    /\ UNCHANGED <<ctx, builder, head, wasSynced, pendingTx, opVars, store, trackers, worldVars>>

\* What the head verifier expects, after a start slot has set it.
ExpectedHead == IF ctx.start THEN ctx.parent ELSE head

WantsBlock ==
    /\ ShouldNewBlockBeCreated(builder, IF ctx.tx = 0 THEN 0 ELSE 1, ctx.ts, FALSE)
    /\ ctx.tx # 0 \/ opQueue # <<>>

\* No block in this step.
SkipPreconfirmation ==
    /\ pc = "preconfirm"
    /\ ctx.work /\ ~Busy => ExpectedHead = ctx.parent /\ ~WantsBlock
    /\ head' = ExpectedHead
    /\ pc' = "submit"
    /\ UNCHANGED <<ctx, builder, lastHash, lastNumber, wasSynced, pendingTx, inflight, opVars,
                   store, trackers, worldVars, monitorVars>>

\* The L2 head is not the node's: recover.
HeadMismatch ==
    /\ pc = "preconfirm"
    /\ ctx.work /\ ~Busy
    /\ ExpectedHead # ctx.parent
    /\ pc' = "recover"
    /\ UNCHANGED <<ctx, builder, lastHash, lastNumber, head, wasSynced, pendingTx, inflight,
                   opVars, store, trackers, worldVars, monitorVars>>

\* find_message_and_signal_slot: the message that an operation sends is found,
\* or there is none, or the simulation fails.
FindMessage(found, ok) == (found /\ ok) \/ (~found /\ "simulate" \in scenario.faults)

\* The first user operation is taken from the queue; without a message it is
\* rejected.
NextUserOp(op, ok) ==
    /\ IF opQueue = <<>>
       THEN op = 0 /\ ok /\ UNCHANGED opQueue
       ELSE /\ \E found \in BOOLEAN :
                 FindMessage(found, ok) /\ op = IF found THEN Head(opQueue) ELSE 0
            /\ opQueue' = Tail(opQueue)
    /\ UNCHANGED nextId

\* trace_tx_for_outbound_message: a transaction of the list sends to L1.
Outbound == ctx.tx \in Txs

\* simulate_l1_callback_return_signal: the slot of L1's answer.
ReturnSignal(slot) == Outbound /\ slot = ctx.tx

\* scan_mempool_for_outbound_signals: the return slot to inject, which is an
\* earlier one when none is found.
ScanMempool(slot) ==
    \/ ReturnSignal(slot)
    \/ (~Outbound \/ "scan" \in scenario.faults) /\ slot = pendingTx

\* preconfirm_block up to the call of the driver.
BuilderForBlock == IF CanConsumeL2Block(builder, ctx.ts) THEN builder ELSE CreateNewBatch(builder)

CanPreconfirm ==
    /\ pc = "preconfirm"
    /\ ctx.work /\ ~Busy
    /\ ExpectedHead = ctx.parent
    /\ WantsBlock
    /\ Len(geth) < scenario.height

DraftBlock(op, slot) ==
    [ts |-> ctx.ts, op |-> op, tx |-> IF Outbound THEN ctx.tx ELSE 0, ret |-> slot]

\* advance_head_to_new_l2_block: the driver builds on the parent that the
\* step has read.
AdvanceHead(blk) == geth = ctx.parent /\ geth' = Append(geth, blk)

\* preconfirm_block fails: the timestamp is the last block's, there is no
\* anchor for a new batch, the operation cannot be simulated, or the driver
\* refuses the block.
PreconfirmFails ==
    /\ CanPreconfirm
    /\ \/ /\ \/ ctx.ts = LastTimestamp(builder)
             \/ "advance" \in scenario.faults /\ ~CanConsumeL2Block(builder, ctx.ts)
          /\ UNCHANGED <<builder, pendingTx, opVars, store>>
       \/ /\ ctx.ts # LastTimestamp(builder)
          /\ opQueue # <<>> /\ NextUserOp(0, FALSE)
          /\ builder' = BuilderForBlock
          /\ UNCHANGED <<pendingTx, store>>
       \/ /\ ctx.ts # LastTimestamp(builder)
          /\ "advance" \in scenario.faults \/ geth # ctx.parent
          /\ \E op \in 0 .. MaxOps, slot \in {0} \cup Txs :
                /\ NextUserOp(op, TRUE) /\ ScanMempool(slot)
                /\ builder' = RemoveLastL2Block(
                                AddL2DraftBlock(BuilderForBlock, DraftBlock(op, slot)))
                /\ pendingTx' = slot
                /\ store' = IF op = 0 /\ opQueue # <<>>
                            THEN [store EXCEPT ![Head(opQueue)] = "Rejected"] ELSE store
    /\ head' = ExpectedHead
    /\ pc' = "idle"
    /\ UNCHANGED <<ctx, lastHash, lastNumber, wasSynced, inflight, trackers, worldVars,
                   monitorVars>>

\* The block is part of the chain and of the batch.
CommitBlock(b, blk, slot, h) == Commit(AddL2DraftBlock(b, blk), blk, slot, h)

\* find_l1_call: the message of the outbound transaction is found, is not
\* there in time, or cannot be read.
FindL1Call(blk, found, failed) ==
    /\ failed => "logs" \in scenario.faults /\ ~found
    /\ IF blk.tx = 0 THEN ~found ELSE found \/ failed \/ "lag" \in scenario.faults

\* preconfirm_block; find_l1_call comes after the block was built.
PreconfirmBlock(found, failed, anchorTooOld) ==
    /\ CanPreconfirm
    /\ ctx.ts # LastTimestamp(builder)
    /\ anchorTooOld => "anchor" \in scenario.faults /\ ~failed
    /\ \E op \in 0 .. MaxOps, slot \in {0} \cup Txs :
        /\ NextUserOp(op, TRUE) /\ ScanMempool(slot)
        /\ LET blk == DraftBlock(op, slot)
               b   == CommitBlock(BuilderForBlock, blk, slot, Append(geth, blk))
               c   == IF found THEN AddL1Call(b, [tx |-> blk.tx, ret |-> slot]) ELSE b
           IN  /\ AdvanceHead(blk)
               /\ FindL1Call(blk, found, failed)
               /\ builder' = IF anchorTooOld THEN Finalize(c) ELSE c
        /\ store' = [k \in DOMAIN store |->
                        IF k = slot THEN "Pending"
                        ELSE IF op = 0 /\ opQueue # <<>> /\ k = Head(opQueue) THEN "Rejected"
                        ELSE store[k]]
    /\ pendingTx' = 0
    /\ head' = IF failed THEN ExpectedHead ELSE geth'
    /\ pc' = IF failed THEN "idle" ELSE "submit"
    /\ UNCHANGED <<ctx, lastHash, lastNumber, wasSynced, inflight, trackers, inbox, runVars, monitorVars>>

\* drain_finalized_batches, or try_start_submission
Submit ==
    /\ pc = "submit"
    /\ LET b == FinalizeIfNeeded(builder, ctx.preconfer)
           batch == Oldest(b, lastHash)
       IN  IF scenario.mode = "preconfOnly"
           THEN builder' = EmptyBuilder /\ UNCHANGED inflight
           ELSE IF Busy THEN UNCHANGED <<builder, inflight>>
           ELSE IF b.queue = <<>> THEN builder' = b /\ UNCHANGED inflight
           ELSE IF Monitor!InProgress
           THEN /\ builder' = PushFrontBatch([b EXCEPT !.queue = Tail(@)], batch)
                /\ UNCHANGED inflight
           ELSE /\ builder' = [b EXCEPT !.queue = Tail(@)]
                /\ inflight' = [stage |-> "encode", batch |-> batch, error |-> "none"]
    /\ pc' = "idle"
    /\ UNCHANGED <<ctx, lastHash, lastNumber, head, wasSynced, pendingTx, opVars, store,
                   trackers, worldVars, monitorVars>>
-----------------------------------------------------------------------------
(* submission_task                                                         *)

\* Faulty: the catch-all of AsyncSubmitter::submit is missing.
TaskFailsSilently(e, st) ==
    /\ inflight' = [inflight EXCEPT !.stage = "failed", !.error = e]
    /\ store' = st

\* The task returns an error; the catch-all rejects the operations.
TaskFails(e, st) ==
    /\ inflight' = [inflight EXCEPT !.stage = "failed", !.error = e]
    /\ store' = SetOpStatus(st, inflight.batch, "Rejected")

\* Manifest, sidecar and request; with a bypass that is all.
Encode ==
    /\ inflight.stage = "encode"
    /\ \/ "encode" \in scenario.faults /\ TaskFails("other", store)
       \/ /\ scenario.mode = "bypass"
          /\ inflight' = [inflight EXCEPT !.stage = "ok"]
          /\ UNCHANGED store
       \/ /\ scenario.mode # "bypass"
          /\ inflight' = [inflight EXCEPT !.stage = "prove"]
          /\ store' = SetStatus(store, inflight.batch, "ProvingBlock")
    /\ UNCHANGED <<loopVars, opVars, trackers, worldVars, monitorVars>>

\* External: what the prover can prove.
Provable(batch) == batch.checkpoint = batch.parent \o batch.blocks

\* get_proof
Prove ==
    /\ inflight.stage = "prove"
    /\ \/ /\ Provable(inflight.batch)
          /\ inflight' = [inflight EXCEPT !.stage = "send"]
          /\ UNCHANGED store
       \/ /\ "prove" \in scenario.faults \/ ~Provable(inflight.batch)
          /\ TaskFails("other", SetStatus(store, inflight.batch, "Rejected"))
    /\ UNCHANGED <<loopVars, opVars, trackers, worldVars, monitorVars>>

Payload(batch) ==
    [parent |-> batch.parent, checkpoint |-> batch.checkpoint, calls |-> BuildProposeTx(batch)]

\* External: the transaction extends what the inbox has finalized, and every
\* signal it relies on is sent before it is verified.
Fits(payload) == payload.parent = inbox /\ Verifies(payload.calls)

\* The error of send_batch_to_l1, for want of the forced inclusions, a free
\* monitor, or an estimation that succeeds.
SendErrors ==
    (IF "fiState" \in scenario.faults \/ Monitor!InProgress THEN {"other"} ELSE {})
    \cup (IF "estimate" \in scenario.faults \/ ~Fits(Payload(inflight.batch))
          THEN {"EstimationFailed"} ELSE {})
    \cup (IF "due" \in scenario.faults THEN {"OldestForcedInclusionDue"} ELSE {})

NewTracker(batch) ==
    [ops |-> batch.ops, txs |-> batch.txs, sent |-> FALSE, result |-> "none", stage |-> "hash"]

\* send_batch_to_l1, and the task that tracks the transaction.
Send ==
    /\ inflight.stage = "send"
    /\ \/ /\ \E e \in SendErrors : TaskFails(e, SetStatus(store, inflight.batch, "Rejected"))
          /\ UNCHANGED <<trackers, monitorVars>>
       \/ /\ Fits(Payload(inflight.batch))
          /\ Monitor!Start(Payload(inflight.batch))
          /\ inflight' = [inflight EXCEPT !.stage = "ok"]
          /\ trackers' = IF inflight.batch.ops \o inflight.batch.txs = <<>> THEN trackers
                         ELSE Append(trackers, NewTracker(inflight.batch))
          /\ UNCHANGED store
    /\ UNCHANGED <<loopVars, opVars, worldVars>>
-----------------------------------------------------------------------------
(* The monitor, and the task that follows its transaction                  *)

\* A tracker without a result belongs to the job that runs.
Follow(sent, result) ==
    trackers' = [i \in DOMAIN trackers |->
        IF trackers[i].result = "none"
        THEN [trackers[i] EXCEPT !.sent = @ \/ sent, !.result = result] ELSE trackers[i]]

MonitorStep ==
    /\ \/ Monitor!Send /\ Follow(TRUE, "none")
       \/ Monitor!EndSilently /\ Follow(FALSE, "true")
       \/ /\ Monitor!NonceUsed /\ ~Monitor!Executed
          /\ Monitor!EndWithError("TransactionReverted", FALSE) /\ Follow(FALSE, "false")
       \/ /\ "send" \in scenario.faults
          /\ \E l \in BOOLEAN : Monitor!EndWithError("TransactionReverted", l)
          /\ Follow(FALSE, "false")
       \/ /\ "stop" \in scenario.faults
          /\ Monitor!EndWithError("NotConfirmed", FALSE) /\ Follow(FALSE, "false")
       \/ Monitor!Finish /\ UNCHANGED trackers
    /\ UNCHANGED <<loopVars, inflight, opVars, store, worldVars>>

\* Faulty: a transaction that could not be sent counts as executed.
OutcomeSwapped(t) == IF t.stage = "hash" /\ ~t.sent THEN "Rejected" ELSE "Executed"

\* What the tracker reports when the job has ended.
Outcome(t) == IF t.sent /\ t.result = "true" THEN "Executed" ELSE "Rejected"

\* The tracker: first the hash, then the result, then both entries go.
Track(i) ==
    LET t == trackers[i]
    IN  /\ \/ /\ t.stage = "hash" /\ t.sent
              /\ store' = SetStatus(store, t, "Processing")
              /\ trackers' = [trackers EXCEPT ![i].stage = "result"]
           \/ /\ t.result # "none"
              /\ t.stage = "result" \/ (t.stage = "hash" /\ ~t.sent)
              /\ store' = SetStatus(store, t, Outcome(t))
              /\ trackers' = [trackers EXCEPT ![i].stage = "done"]
           \/ /\ t.stage = "done"
              /\ store' = SetStatus(store, t, "none")
              /\ trackers' = RemoveAt(trackers, i)
        /\ UNCHANGED <<loopVars, inflight, opVars, worldVars, monitorVars>>
-----------------------------------------------------------------------------
(* The environment                                                         *)

\* surge_sendUserOp
SendUserOp ==
    /\ pc # "down"
    /\ nextId <= scenario.ops
    /\ store' = [store EXCEPT ![nextId] = "Pending"]
    /\ opQueue' = Append(opQueue, nextId)
    /\ nextId' = nextId + 1
    /\ UNCHANGED <<loopVars, inflight, trackers, worldVars, monitorVars>>

\* surge_txStatus for a transaction of the L2 block n without an entry.
StatusByNumber(n) == IF n <= lastNumber THEN "Executed" ELSE "ProvingBlock"

Activate ==
    /\ inbox = ZeroHash
    /\ inbox' = <<>>
    /\ UNCHANGED <<loopVars, inflight, opVars, store, trackers, geth, runVars, monitorVars>>

\* External: L1 executes a transaction.
Mine(t) ==
    /\ \/ /\ Fits(t.payload)
          /\ Monitor!Mine(t, "ok") /\ inbox' = t.payload.checkpoint
       \/ /\ "revert" \in scenario.faults \/ ~Fits(t.payload)
          /\ Monitor!Mine(t, "TransactionReverted") /\ UNCHANGED inbox
    /\ UNCHANGED <<loopVars, inflight, opVars, store, trackers, geth, runVars>>

\* External: the L2 driver derives the blocks that L1 has and the chain lost.
DriverSync ==
    /\ inbox # ZeroHash /\ ~IsPrefix(inbox, geth)
    /\ geth' = inbox
    /\ UNCHANGED <<loopVars, inflight, opVars, store, trackers, inbox, runVars, monitorVars>>

Tick ==
    /\ clock < scenario.time
    /\ clock' = clock + 1
    /\ UNCHANGED <<loopVars, inflight, opVars, store, trackers, geth, inbox, boots, scenario, monitorVars>>

Crash ==
    /\ "crash" \in scenario.faults
    /\ pc # "down" /\ boots < scenario.boots
    /\ pc' = "down"
    /\ UNCHANGED <<ctx, builder, lastHash, lastNumber, head, wasSynced, pendingTx, inflight,
                   opVars, store, trackers, worldVars, monitorVars>>
-----------------------------------------------------------------------------
Loop ==
    \/ Warmup \/ ReadFinalizedHash \/ FinishWarmup \/ FinishRecovery
    \/ \E tx \in {0, Plain} \cup Txs, preconfer, synced \in BOOLEAN : BeginStep(tx, preconfer, synced)
    \/ Poll
    \/ SkipPreconfirmation \/ HeadMismatch \/ PreconfirmFails
    \/ \E found, failed, old \in BOOLEAN : PreconfirmBlock(found, failed, old)
    \/ Submit

Task == Encode \/ Prove \/ Send

Tracking == \E i \in DOMAIN trackers : Track(i)

Next ==
    \/ Boot \/ Loop \/ Task \/ MonitorStep \/ Tracking
    \/ SendUserOp \/ Activate \/ DriverSync \/ Tick \/ Crash
    \/ \E t \in live : Mine(t)

Spec == Init /\ [][Next]_vars

\* The runtime polls every task and the heartbeat ticks; L1 keeps mining.
Fairness ==
    /\ WF_vars(Loop) /\ WF_vars(Task) /\ WF_vars(MonitorStep) /\ WF_vars(Tracking)
    /\ WF_vars(\E t \in live : Mine(t))

FairSpec == Spec /\ Fairness
-----------------------------------------------------------------------------
Chain == Seq([ts : Int, op : 0 .. MaxOps, tx : {0} \cup Txs, ret : {0} \cup Txs])

Batch == [made : BOOLEAN, blocks : Chain, parent : Chain, checkpoint : Chain,
          ops : Seq(1 .. MaxOps), txs : Seq(Txs), slots : Seq(1 .. MaxOps \cup Txs),
          calls : Seq([tx : Txs, ret : {0} \cup Txs])]

Status == {"none", "Pending", "ProvingBlock", "Processing", "Rejected", "Executed"}

\* Every variable of the realtime node has the type of the field it models.
TypeOK ==
    /\ pc \in {"down", "warmup", "read", "reorg", "idle", "poll", "preconfirm", "submit",
               "recover", "recoverReorg"}
    /\ builder.queue \in Seq(Batch) /\ builder.current \in Batch
    /\ lastHash \in Chain /\ lastNumber \in Nat /\ head \in Chain
    /\ inflight.stage \in {"none", "encode", "prove", "send", "ok", "failed"}
    /\ inflight.batch \in Batch
    /\ pendingTx \in {0} \cup Txs
    /\ store \in [1 .. MaxOps \cup Txs -> Status]
    /\ geth \in Chain /\ inbox \in Chain

Without(fs) == scenario.faults \cap fs = {}

BlocksOf(batches) == FoldLeft(LAMBDA s, b : s \o b.blocks, <<>>, batches)

\* The batch in submission, the queued ones and the one that is being filled.
Batches == <<inflight.batch>> \o builder.queue \o <<builder.current>>

\* What a batch says about its blocks: operations, slots and checkpoint.
DescribesBlocks(batch, chain) ==
    /\ batch.ops = FoldLeft(LAMBDA s, b : s \o Some(b.op), <<>>, batch.blocks)
    /\ batch.slots = FoldLeft(LAMBDA s, b : s \o Some(b.op) \o Some(b.ret), <<>>, batch.blocks)
    /\ batch.blocks # <<>> => batch.checkpoint = chain

\* Between two steps of the loop the L2 chain is what was handed to L1 last,
\* followed by the blocks of the batches, none twice and none left out, and
\* each batch carries exactly the operations and signal slots of its blocks.
\* Refused blocks, failed submissions and recovery all keep this
\* (add_draft_block_to_proposal, poll_submission_result, reset_builder).  It
\* is lost where the finalized hash was read too early (a late activation, a
\* restart), where an error is ignored, and until the driver has caught up
\* with a transaction that the node had given up.
BatchesMatchChain ==
    pc = "idle" /\ scenario.mode = "normal"
      /\ Without({"dormant", "crash", "stop", "due", "logs", "send"}) =>
        /\ geth = lastHash \o BlocksOf(Batches)
        /\ \A i \in 1 .. Len(Batches) :
            DescribesBlocks(Batches[i], lastHash \o BlocksOf(SubSeq(Batches, 1, i)))

\* The node never removes an L2 block that the inbox has finalized: recovery
\* goes back to the finalized block and no further (reorg_unproposed_blocks),
\* also after a crash.  Only a recovery while a transaction is still on its
\* way, after unreadable logs or an unanswered send, can be too early.
NoReorgOfFinal ==
    inbox # ZeroHash /\ Without({"logs", "send"}) => IsPrefix(inbox, geth)

\* A status tells a client the truth: an operation or transaction that is
\* reported as executed is part of the finalized chain, and an operation that
\* is reported as rejected is not and cannot become so any more
\* (async_submitter.rs), unless the monitor has given its transaction up.
StatusIsTrue ==
    \A k \in DOMAIN store :
        /\ store[k] = "Executed" => k \in OpsOf(inbox) \cup TxsOf(inbox)
        /\ store[k] = "Rejected" /\ Without({"send", "stop"}) =>
            /\ k \notin OpsOf(inbox)
            /\ \A t \in live : k \notin OpsOf(t.payload.checkpoint)

\* A batch whose blocks have the return slots of their own transactions
\* becomes calls that L1 accepts: every signal is sent before the inbox
\* verifies it (build_propose_blob, build_inbox_calls), provided that the
\* messages of its blocks were found.
BatchesVerify ==
    pc = "idle" /\ Without({"lag", "logs"}) =>
        \A i \in 1 .. Len(Batches) :
            (\A b \in ToSet(Batches[i].blocks) : b.ret = b.tx)
                => Verifies(BuildProposeTx(Batches[i]))

\* What the fallback of surge_txStatus reports as executed was at least handed
\* to the monitor: the block is finalized, or part of the proposal that the
\* monitor works on, or the loop is about to learn that the proposal failed
\* (poll_submission_result and reorg_unproposed_blocks set the number).
FallbackIsProposed ==
    pc = "idle" /\ scenario.mode = "normal" /\ channel = <<>>
      /\ Without({"crash", "stop", "logs", "send"}) =>
        \A n \in 1 .. Len(geth) : StatusByNumber(n) = "Executed" =>
            \/ inbox # ZeroHash /\ IsPrefix(SubSeq(geth, 1, n), inbox)
            \/ Monitor!InProgress /\ IsPrefix(SubSeq(geth, 1, n), job.payload.checkpoint)

\* A user operation whose batch is being submitted gets a final status, or
\* none after the final one was cleaned up (submission_task, its catch-all and
\* the tracker), provided that the process goes on and the submission is not
\* aborted after a revert.
SubmittedIsSettled ==
    \A k \in 1 .. MaxOps :
        Contains(inflight.batch.ops, k) /\ scenario.mode = "normal" /\ Without({"revert", "crash", "stop"})
            ~> store[k] \in {"Rejected", "Executed", "none"}

\* "ensure every user op is marked Rejected": an operation that its client
\* sees as unfinished is in the queue, in a batch, or with a tracker.
NoOrphanOp ==
    pc = "idle" => \A k \in 1 .. MaxOps :
        store[k] \in {"Pending", "ProvingBlock", "Processing"} =>
            \/ Contains(opQueue, k)
            \/ \E i \in 1 .. Len(Batches) : Contains(Batches[i].ops, k)
            \/ \E i \in DOMAIN trackers : Contains(trackers[i].ops, k)
=============================================================================
