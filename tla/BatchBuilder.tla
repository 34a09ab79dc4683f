---------------------------- MODULE BatchBuilder ----------------------------
(***************************************************************************)
(* The batch builder of the realtime node (realtime/src/node/              *)
(* proposal_manager/batch_builder.rs and proposal.rs) as operators on      *)
(* b = [queue, current], and the calls that a batch becomes on L1.         *)
(*                                                                         *)
(* A hash stands for the chain it commits to, so the hash of a block is    *)
(* the sequence of all blocks up to it.  A user operation (op), and an L2  *)
(* transaction that calls L1 and needs an answer (tx), are numbers; the    *)
(* number also stands for the signal slot that belongs to it, and 0 for    *)
(* none.  A block is [ts, op, tx, ret]: its timestamp, the operation it    *)
(* processes, the outbound transaction in it, and the return slot that was *)
(* injected into its anchor.  The limit on bytes acts like the one on      *)
(* blocks and is part of MaxBlocks.                                        *)
(***************************************************************************)
EXTENDS Integers, Sequences, SequencesExt

CONSTANTS
    MaxBlocks,      \* max_blocks_per_batch
    MaxTimeShift,   \* max_time_shift_between_blocks_sec, in L2 slots
    MaxSkipped      \* preconf_max_skipped_l2_slots

ASSUME BuilderAssumption ==
    MaxBlocks \in Nat \ {0} /\ MaxTimeShift \in Nat \ {0} /\ MaxSkipped \in Nat

\* B256::ZERO; no chain consists of this block.
ZeroHash == << [ts |-> -1, op |-> 0, tx |-> 0, ret |-> 0] >>

NoBatch == [made |-> FALSE, blocks |-> <<>>, parent |-> ZeroHash, checkpoint |-> ZeroHash,
            ops |-> <<>>, txs |-> <<>>, slots |-> <<>>, calls |-> <<>>]

EmptyBuilder == [queue |-> <<>>, current |-> NoBatch]

HasCurrent(b) == b.current.made

IsEmpty(b) == ~HasCurrent(b) /\ b.queue = <<>>

\* get_current_proposal_last_block_timestamp; -1 when there is none.
LastTimestamp(b) == IF b.current.blocks = <<>> THEN -1 ELSE Last(b.current.blocks).ts
-----------------------------------------------------------------------------
IsTimeShiftExpired(b, ts) == b.current.blocks # <<>> /\ ts - LastTimestamp(b) > MaxTimeShift

CanConsumeL2Block(b, ts) ==
    /\ HasCurrent(b)
    /\ Len(b.current.blocks) + 1 <= MaxBlocks
    /\ ~IsTimeShiftExpired(b, ts)

\* finalize_current_batch: a batch without blocks is dropped.
Finalize(b) ==
    [queue   |-> IF b.current.blocks # <<>> THEN Append(b.queue, b.current) ELSE b.queue,
     current |-> NoBatch]

CreateNewBatch(b) == [Finalize(b) EXCEPT !.current = [NoBatch EXCEPT !.made = TRUE]]

AddL2DraftBlock(b, blk) == [b EXCEPT !.current.blocks = Append(@, blk)]

\* remove_last_l2_block: the batch goes with its last block.
RemoveLastL2Block(b) ==
    IF Len(b.current.blocks) <= 1
    THEN [b EXCEPT !.current = NoBatch]
    ELSE [b EXCEPT !.current.blocks = Front(@)]

\* A sequence of what is there: the number itself, or nothing for 0.
Some(n) == IF n = 0 THEN <<>> ELSE <<n>>

\* add_user_op, add_signal_slot, add_l2_mempool_tx_hash and
\* set_proposal_checkpoint for a block that was built with hash h.
Commit(b, blk, hash, h) ==
    [b EXCEPT !.current.ops        = @ \o Some(blk.op),
              !.current.slots      = @ \o Some(blk.op) \o Some(blk.ret),
              !.current.txs        = @ \o Some(hash),
              !.current.checkpoint = h]

AddL1Call(b, call) == [b EXCEPT !.current.calls = Append(@, call)]

FinalizeIfNeeded(b, onlyFull) ==
    IF HasCurrent(b) /\ (~onlyFull \/ Len(b.current.blocks) + 1 > MaxBlocks)
    THEN Finalize(b) ELSE b

\* The batch that pop_oldest_batch takes out, stamped with its parent.
Oldest(b, hash) == [Head(b.queue) EXCEPT !.parent = hash]

PushFrontBatch(b, batch) == [b EXCEPT !.queue = <<batch>> \o @]

\* should_new_block_be_created, with n pending transactions of which one is
\* enough (preconf_min_txs).
ShouldNewBlockBeCreated(b, n, ts, endOfSequencing) ==
    \/ b.current.blocks # <<>> /\ ts - LastTimestamp(b) >= MaxTimeShift - 1
    \/ endOfSequencing
    \/ n >= 1
    \/ b.current.blocks = <<>>
    \/ ts - LastTimestamp(b) > MaxSkipped
-----------------------------------------------------------------------------
\* The return signals that the L1 calls of a batch have to produce.
RequiredReturnSignals(batch) ==
    SelectSeq([i \in 1 .. Len(batch.calls) |-> batch.calls[i].ret], LAMBDA s : s # 0)

\* build_inbox_calls: the call or the two calls to the inbox, with the slots
\* that each one verifies.
InboxCalls(batch) ==
    LET required == RequiredReturnSignals(batch)
    IN  IF required = <<>>
        THEN << [kind |-> "propose", slots |-> batch.slots] >>
        ELSE << [kind |-> "tentative",
                 slots |-> SelectSeq(batch.slots, LAMBDA s : ~Contains(required, s))],
                [kind |-> "finalize", slots |-> required] >>

UserOpCalls(batch) == [i \in 1 .. Len(batch.ops) |-> [kind |-> "op", slots |-> <<batch.ops[i]>>]]

\* build_l1_call_call: processMessage of the message that a transaction sent.
L1Calls(batch) ==
    [i \in 1 .. Len(batch.calls) |-> [kind |-> "message", slots |-> Some(batch.calls[i].ret)]]

\* Faulty: the inbox is called before the operations that send the signals.
BuildProposeTxInboxFirst(batch) ==
    LET inbox == InboxCalls(batch)
    IN  <<inbox[1]>> \o UserOpCalls(batch) \o L1Calls(batch) \o Tail(inbox)

\* build_propose_blob: the calls of the multicall in their order.
BuildProposeTx(batch) ==
    LET inbox == InboxCalls(batch)
    IN  UserOpCalls(batch) \o <<inbox[1]>> \o L1Calls(batch) \o Tail(inbox)

\* External: the multicall executes iff every call to the inbox finds its
\* slots among the signals sent before; an operation and a processed message
\* send theirs, a message only once its block was proposed.
Verifies(calls) ==
    LET Step(r, c) ==
            IF c.kind = "op" THEN [r EXCEPT !.sent = @ \cup ToSet(c.slots)]
            ELSE IF c.kind = "message"
            THEN [ok |-> r.ok /\ r.proposed, proposed |-> r.proposed, sent |-> r.sent \cup ToSet(c.slots)]
            ELSE [ok |-> r.ok /\ ToSet(c.slots) \subseteq r.sent, proposed |-> TRUE, sent |-> r.sent]
    IN  FoldLeft(Step, [ok |-> TRUE, proposed |-> FALSE, sent |-> {}], calls).ok
=============================================================================
