--------------------------- MODULE ProposalBuilder ---------------------------
(***************************************************************************)
(* The proposal builder (shasta/src/node/proposal_manager/): the queue of  *)
(* finished proposals and the current one, as operators on a builder       *)
(* b = [queue, current].                                                   *)
(*                                                                         *)
(* An L2 block of a proposal is [by, tx]: by is its coinbase, tx stands    *)
(* for everything else that makes its hash (transactions, timestamp,       *)
(* anchor).  Forced inclusions (FI) are not stored in a proposal, only     *)
(* counted.  The limit on bytes acts like the one on blocks and is part    *)
(* of MaxBlocks.                                                           *)
(***************************************************************************)
EXTENDS Integers, Sequences, SequencesExt

CONSTANTS
    MaxBlocks,      \* max_blocks_per_batch
    MaxProposalFI   \* max_forced_inclusions

ASSUME BuilderAssumption == MaxBlocks \in Nat \ {0} /\ MaxProposalFI \in Nat

\* None: current_proposal before the first block; real ids start at 1.
NoProposal == [id |-> 0, fi |-> 0, blocks |-> <<>>, pending |-> FALSE]

Proposal == [id : Nat, fi : Nat, blocks : Seq([by : {"us", "other"}, tx : Nat]),
             pending : BOOLEAN]

EmptyBuilder == [queue |-> <<>>, current |-> NoProposal]

HasCurrent(b) == b.current # NoProposal
-----------------------------------------------------------------------------
CanConsumeL2Block(b) == HasCurrent(b) /\ Len(b.current.blocks) + 1 <= MaxBlocks

CanAddForcedInclusion(b) ==
    HasCurrent(b) /\ b.current.blocks = <<>> /\ b.current.fi < MaxProposalFI

\* finalize_current_proposal: a proposal without L2 blocks is dropped.
Finalize(b) ==
    [queue   |-> IF b.current.blocks # <<>> THEN Append(b.queue, b.current) ELSE b.queue,
     current |-> NoProposal]

CreateNewProposal(b, id) ==
    [Finalize(b) EXCEPT !.current = [NoProposal EXCEPT !.id = id]]

AddL2Block(b, blk) == [b EXCEPT !.current.blocks = Append(@, blk)]

\* Faulty: the forced inclusion is not counted.
IncForcedInclusionLost(b) == b

IncForcedInclusion(b) == [b EXCEPT !.current.fi = @ + 1]

\* remove_last_l2_block: the proposal goes with its last L2 block.
RemoveLastL2Block(b) ==
    IF Len(b.current.blocks) <= 1
    THEN [b EXCEPT !.current = NoProposal]
    ELSE [b EXCEPT !.current.blocks = Front(@)]

DecreaseForcedInclusionCount(b) ==
    IF b.current.fi <= 1 /\ b.current.blocks = <<>>
    THEN [b EXCEPT !.current = NoProposal]
    ELSE [b EXCEPT !.current.fi = IF @ > 0 THEN @ - 1 ELSE 0]

\* Faulty: a confirmed proposal stays.
RemoveConfirmedSkipped(b) == b

\* remove_confirmed
RemoveConfirmed(b) ==
    IF b.queue # <<>> /\ Head(b.queue).pending THEN [b EXCEPT !.queue = Tail(@)] ELSE b

\* Faulty: the other end of the queue is marked.
MarkBack(b, pending) ==
    IF b.queue = <<>> THEN b ELSE [b EXCEPT !.queue[Len(b.queue)].pending = pending]

\* mark_front_for_resubmit
MarkFront(b, pending) ==
    IF b.queue = <<>> THEN b ELSE [b EXCEPT !.queue[1].pending = pending]

\* The part of try_submit_oldest_proposal before the queue is looked at.
FinalizeToSubmit(b, onlyFull, expired) ==
    IF HasCurrent(b) /\ (~onlyFull \/ Len(b.current.blocks) + 1 > MaxBlocks \/ expired)
    THEN Finalize(b) ELSE b

\* Faulty: the recovered proposals get behind the node's own.
PrependBehind(b, proposals) == [b EXCEPT !.queue = @ \o proposals]

Prepend(b, proposals) == [b EXCEPT !.queue = proposals \o @]
-----------------------------------------------------------------------------
\* recover_from: take over the block blk of the L2 chain.  ok is FALSE when
\* it returned an error.
RecoverFrom(b, blk) ==
    LET c == IF b.current.id = blk.pid THEN b ELSE CreateNewProposal(b, blk.pid)
    IN  IF blk.fi
        THEN [ok |-> blk.by = "us" /\ CanAddForcedInclusion(c), b |-> IncForcedInclusion(c)]
        ELSE [ok |-> CanConsumeL2Block(c),
              b  |-> AddL2Block(c, [by |-> blk.by, tx |-> blk.tx])]

\* recover_from_l2_block: the first recovered block starts the proposal
\* after its parent's, a later one may also continue its parent's.
RecoverL2Block(r, blk) ==
    LET step == blk.pid - r.pid
        rec  == RecoverFrom(r.b, blk)
    IN  [ok    |-> r.ok /\ step \in (IF r.first THEN {1} ELSE {0, 1}) /\ rec.ok,
         b     |-> rec.b,
         pid   |-> blk.pid,
         first |-> FALSE]

\* Faulty: the last recovered proposal is not finalized.
RecoverUnfinished(pid, blocks) ==
    LET r == FoldLeft(RecoverL2Block,
                      [ok |-> TRUE, b |-> EmptyBuilder, pid |-> pid, first |-> TRUE], blocks)
    IN  [ok |-> r.ok, proposals |-> r.b.queue]

\* handle_unprocessed_blocks and the end of verify_submitted_blocks: the
\* proposals recovered from the blocks after one of proposal pid.
Recover(pid, blocks) ==
    LET r == FoldLeft(RecoverL2Block,
                      [ok |-> TRUE, b |-> EmptyBuilder, pid |-> pid, first |-> TRUE], blocks)
    IN  [ok |-> r.ok, proposals |-> Finalize(r.b).queue]
-----------------------------------------------------------------------------
\* The L2 blocks that a proposal stands for when it gets the number pid and
\* its forced inclusions are the ones from index fiHead on.
ForcedBlocks(pid, by, fiHead, n) ==
    [i \in 1 .. n |-> [pid |-> pid, fi |-> TRUE, by |-> by, tx |-> fiHead + i - 1]]

CommonBlocks(pid, blocks) ==
    [i \in 1 .. Len(blocks) |-> [pid |-> pid, fi |-> FALSE, by |-> blocks[i].by,
                                 tx |-> blocks[i].tx]]

\* The L2 blocks of a list of proposals, each under its own id, the first
\* forced inclusion having index fiHead.
ChainOf(proposals, fiHead) ==
    FoldLeft(LAMBDA r, p :
                [fi |-> r.fi + p.fi,
                 blocks |-> r.blocks \o ForcedBlocks(p.id, "us", r.fi, p.fi)
                                     \o CommonBlocks(p.id, p.blocks)],
             [fi |-> fiHead, blocks |-> <<>>], proposals)
=============================================================================
