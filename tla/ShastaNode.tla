----------------------------- MODULE ShastaNode -----------------------------
(***************************************************************************)
(* The Shasta preconfirmation node (shasta/src/node/): the main loop, the  *)
(* proposal manager, the verifier and the recovery by reanchoring, on top  *)
(* of the transaction monitor (MonitorContract) and the proposal builder   *)
(* (ProposalBuilder).                                                      *)
(*                                                                         *)
(* The node preconfirms L2 blocks into Taiko Geth and proposes them to the *)
(* inbox contract on L1, taking turns with other operators.  A step of the *)
(* main loop is a sequence of stages, between which everybody else may     *)
(* act: L1, the monitor's task, the verifier's thread, the other operator. *)
(*                                                                         *)
(* A chain is the sequence of its blocks [pid, fi, by, tx]: proposal id,   *)
(* forced inclusion or not, coinbase, and a number for the contents (for a *)
(* forced inclusion, its index in the inbox).  Two blocks of one height    *)
(* have the same hash iff the chains up to them are equal.                 *)
(***************************************************************************)
EXTENDS ProposalBuilder, FiniteSetsExt

CONSTANTS
    MaxHeight,      \* bound: length of the L2 chain
    MaxFI,          \* bound: forced inclusions sent to the inbox
    MaxNonce,       \* bound: L1 transactions of the node
    MaxReanchor,    \* max_blocks_to_reanchor
    ProposeFI,      \* propose_forced_inclusion
    Scenarios       \* [windows, first, faults, height, fi, nonce]: the windows the epochs
                    \* go through and the first of them, the failures that may happen,
                    \* and tighter bounds on blocks, forced inclusions, transactions

AllWindows == {"other", "handover", "ours", "closing"}

AllFaults ==
    {"crash",           \* the process dies
     "unsynced",        \* geth and the driver are not in sync
     "txList",          \* the pending transactions cannot be read
     "inboxState",      \* get_inbox_forced_inclusion_state fails
     "startRpc",        \* another RPC call of the start slot fails
     "stepRpc",         \* an RPC call of another stage fails before anything is changed
     "fiHead",          \* calculate_current_fi_head fails
     "fiBlob",          \* the blob of a forced inclusion cannot be read
     "fiParams",        \* get_block_params_from_geth fails
     "advance",         \* the driver refuses a block
     "advanceFi",       \* the driver refuses a forced inclusion block
     "advanceLost",     \* the driver takes a block and its answer is lost
     "verifierRpc",     \* an RPC call of the verifier's thread fails
     "emptyBlocks",     \* some blocks to reanchor are empty
     "stale",           \* blocks are not proposed until their offsets expire
     "due",             \* a forced inclusion is due
     "missedEnd",       \* the end of sequencing slot is missed
     "txError",         \* a transaction fails for a reason not named here
     "silentRevert",    \* a reverted transaction is not reported, see MonitorContract
     "lateVerification",\* a verification takes longer than the node's turn
     "lateProposal"}    \* the node starts to preconfirm in its epoch before the last
                        \* L1 block of the previous one is seen

ASSUME NodeAssumption ==
    /\ MaxHeight \in Nat /\ MaxFI \in Nat /\ MaxNonce \in Nat /\ MaxReanchor \in Nat
    /\ ProposeFI \in BOOLEAN
    /\ Scenarios \subseteq [windows : SUBSET AllWindows, first : AllWindows,
                            faults : SUBSET AllFaults, height : 0 .. MaxHeight,
                            fi : 0 .. MaxFI, nonce : 0 .. MaxNonce]

VARIABLES
    scenario,       \* one of Scenarios, fixed
    \* the surroundings
    window,         \* which part of the epochs it is
    settled,        \* the first L1 block of the epoch has been seen
    turn,           \* the height at which the other operator's turn began
    stale,          \* the offsets of the first unproposed block have expired
    geth,           \* the chain of Taiko Geth
    inbox,          \* the inbox contract: derived chain and counters
    \* the transaction monitor
    job, channel, live, mined,
    \* the node
    pc,             \* the next stage of the main loop's step
    ctx,            \* what the step read at its beginning
    wasPreconfer,   \* Operator.was_synced_preconfer
    builder,        \* ProposalManager.proposal_builder
    fiIndex,        \* ProposalManager.forced_inclusion.index
    head,           \* HeadVerifier: the chain up to the expected head
    verifier,       \* the verifier and its thread
    re              \* reanchor_blocks: what is left to do

calendar == <<scenario, window, settled, turn>>
envVars == <<calendar, stale, geth, inbox>>
monVars == <<job, channel, live, mined>>
nodeVars == <<pc, ctx, wasPreconfer, builder, fiIndex, head, verifier, re>>
vars == <<envVars, monVars, nodeVars>>

NoPayload == [fi |-> 0, blocks |-> <<>>]

Monitor == INSTANCE MonitorContract WITH
    Payload <- {NoPayload}, RpcSimulates <- FALSE, SilentRevert <- TRUE

Faults == scenario.faults
-----------------------------------------------------------------------------
Preconfer == window \in {"handover", "ours"}
Submitter == window \in {"ours", "closing"}

\* The L1 block that is built next belongs to an epoch of the node.
OursOnL1 == IF settled THEN Submitter ELSE window = "other"

NoCtx == [preconfer |-> FALSE, submitter |-> FALSE, synced |-> FALSE, start |-> FALSE,
          endSeq |-> FALSE, inProgress |-> FALSE, parent |-> <<>>]

NoVerifier == [thread |-> "none", gate |-> "now", root |-> <<>>, height |-> 0,
               proposals |-> <<>>]

NoReanchor == [todo |-> <<>>, parent |-> <<>>, done |-> 0, common |-> FALSE, back |-> "idle"]

\* HeadVerifier::new: the head that no chain has.
NoHead == <<[pid |-> 0, fi |-> FALSE, by |-> "us", tx |-> 0]>>

Chain(h) == SubSeq(geth, 1, h)

\* The first proposal id of interest; calculate_current_fi_head treats the
\* ids up to 2 in another way.
FirstId == 3

LastId(chain) == IF chain = <<>> THEN FirstId - 1 ELSE Last(chain).pid

\* LastSafeL2BlockFinder: the last block of Taiko Geth in a proposal that
\* the inbox has.
SafeHeight == Cardinality({i \in DOMAIN geth : geth[i].pid < inbox.nextId})

ForcedIn(chain) == Cardinality({i \in DOMAIN chain : chain[i].fi})

\* Contents that no block has had before, up to renaming.
Fresh ==
    LET blocks == ToSet(geth) \cup ToSet(inbox.blocks) \cup ToSet(head) \cup ToSet(ctx.parent)
                  \cup ToSet(verifier.root) \cup ToSet(re.todo)
        sent   == UNION {ToSet(t.payload.blocks) : t \in live}
        kept   == UNION {ToSet(p.blocks) : p \in ToSet(builder.queue) \cup {builder.current}}
        used   == {x.tx : x \in blocks \cup sent \cup kept}
    IN  Min({n \in 1 .. (Cardinality(used) + 1) : n \notin used})
-----------------------------------------------------------------------------
\* The stages of main_block_preconfirmation_step, in their order.
Stages == <<"channel", "start", "preconfirm", "submit", "cleanup">>

\* Faulty: the channel is read while a transaction is in progress.
AppliesInProgress(c, stage) ==
    CASE stage = "channel"    -> TRUE
      [] stage = "start"      -> c.start
      [] stage = "preconfirm" -> c.preconfer /\ c.synced
      [] stage = "submit"     -> c.submitter /\ ~c.inProgress
      [] stage = "cleanup"    -> ~c.submitter /\ ~c.preconfer

\* Faulty: a start slot is missed.
AppliesNoStart(c, stage) ==
    CASE stage = "channel"    -> ~c.inProgress
      [] stage = "start"      -> FALSE
      [] stage = "preconfirm" -> c.preconfer /\ c.synced
      [] stage = "submit"     -> c.submitter /\ ~c.inProgress
      [] stage = "cleanup"    -> ~c.submitter /\ ~c.preconfer

Applies(c, stage) ==
    CASE stage = "channel"    -> ~c.inProgress
      [] stage = "start"      -> c.start
      [] stage = "preconfirm" -> c.preconfer /\ c.synced
      [] stage = "submit"     -> c.submitter /\ ~c.inProgress
      [] stage = "cleanup"    -> ~c.submitter /\ ~c.preconfer

\* The first stage from the i-th on that applies; "idle" ends the step.
StageFrom(c, i) ==
    LET S == {j \in i .. Len(Stages) : Applies(c, Stages[j])}
    IN  IF S = {} THEN "idle" ELSE Stages[Min(S)]

Goto(p) == pc' = p /\ ctx' = IF p \in {"idle", "down"} THEN NoCtx ELSE ctx

\* An error returned by a stage ends the step, cancel_on_critical_error the
\* process.
Abort == Goto("idle")
Cancel == Goto("down")
-----------------------------------------------------------------------------
\* get_slot_info_and_status and is_transaction_in_progress, before anything
\* is looked at.  When the pending transactions cannot be read, the step
\* ends after the operator's status has changed.
BeginStep ==
    /\ pc = "idle"
    /\ \E synced \in BOOLEAN, endSeq \in BOOLEAN :
        LET c == [preconfer  |-> Preconfer, submitter |-> Submitter, synced |-> synced,
                  start      |-> ~wasPreconfer /\ Preconfer /\ synced,
                  endSeq     |-> endSeq,
                  inProgress |-> Monitor!InProgress,
                  parent     |-> geth]
            p == StageFrom(c, 1)
        IN  /\ synced => Len(geth) >= Len(inbox.blocks)
            /\ ~synced => "unsynced" \in Faults \/ Len(geth) < Len(inbox.blocks)
            /\ endSeq => window = "ours"
            /\ c.start /\ Submitter => settled \/ "lateProposal" \in Faults
            /\ wasPreconfer' = (Preconfer /\ (wasPreconfer \/ synced))
            /\ \/ pc' = p /\ ctx' = IF p = "idle" THEN NoCtx ELSE c
               \/ "txList" \in Faults /\ UNCHANGED <<pc, ctx>>
    /\ UNCHANGED <<envVars, monVars, builder, fiIndex, head, verifier, re>>

\* Node::reanchor_blocks up to the loop; back is where the step goes on.
ReanchorBegin(back) ==
    /\ verifier' = NoVerifier
    /\ builder' = EmptyBuilder
    /\ fiIndex' = inbox.fiHead
    /\ re' = [todo |-> SubSeq(geth, SafeHeight + 1, Len(geth)), parent |-> Chain(SafeHeight),
              done |-> 0, common |-> FALSE, back |-> back]
    /\ Goto("reanchor")
    /\ UNCHANGED <<wasPreconfer, head>>

\* check_transaction_error_channel and handle_transaction_error
CheckChannel ==
    /\ pc = "channel"
    /\ \/ /\ channel = <<>>
          /\ builder' = RemoveConfirmed(builder)
          /\ Goto(StageFrom(ctx, 2))
          /\ UNCHANGED <<monVars, wasPreconfer, fiIndex, head, verifier, re>>
       \/ /\ Monitor!TryRecv
          /\ \/ /\ Head(channel) \in {"EstimationTooEarly", "NotTheOperatorInCurrentEpoch"}
                /\ builder' = MarkFront(builder, FALSE)
                /\ Goto(StageFrom(ctx, 2))
                /\ UNCHANGED <<wasPreconfer, fiIndex, head, verifier, re>>
             \/ Head(channel) = "OldestForcedInclusionDue" /\ ReanchorBegin("channel")
             \/ /\ Head(channel) \notin Monitor!Retryable
                /\ Cancel
                /\ UNCHANGED <<wasPreconfer, builder, fiIndex, head, verifier, re>>
    /\ UNCHANGED envVars

\* calculate_current_fi_head
CurrentFiHead ==
    IF inbox.nextId > 2 /\ inbox.fiHead < inbox.fiTail
    THEN Min({inbox.fiHead + ForcedIn(SubSeq(geth, SafeHeight + 1, Len(geth))), inbox.fiTail})
    ELSE inbox.fiHead

\* Faulty: transactions on their way are not waited for.
NoncesIgnored == TRUE

\* get_preconfer_nonce_latest = get_preconfer_nonce_pending
NoncesEqual == \A t \in live : t.nonce # Len(mined)

\* The preconfirmation start slot.  A verifier made before the node's epoch
\* waits for the first L1 block of the next epoch by the clock.
StartSlot ==
    /\ pc = "start"
    /\ head' = ctx.parent
    /\ \/ "inboxState" \in Faults /\ Abort /\ UNCHANGED <<verifier, fiIndex>>
       \/ /\ "startRpc" \in Faults \/ (ctx.submitter /\ SafeHeight # Len(geth) /\ ~NoncesEqual)
          /\ Cancel
          /\ UNCHANGED <<verifier, fiIndex>>
       \/ /\ IF ctx.submitter
             THEN \/ SafeHeight = Len(geth) /\ UNCHANGED verifier
                  \/ /\ SafeHeight # Len(geth) /\ NoncesEqual
                     /\ verifier' = [NoVerifier EXCEPT !.thread = "new", !.root = geth]
             ELSE verifier' = [NoVerifier EXCEPT !.thread = "new",
                                   !.gate = IF window = "handover" THEN "epoch" ELSE "later",
                                   !.root = Chain(Len(ctx.parent))]
          /\ \/ "fiHead" \in Faults /\ Abort /\ UNCHANGED fiIndex
             \/ fiIndex' = CurrentFiHead /\ Goto(StageFrom(ctx, 3))
    /\ UNCHANGED <<envVars, monVars, wasPreconfer, builder, re>>
-----------------------------------------------------------------------------
\* create_new_proposal with get_next_proposal_id, when the block needs one.
WithProposal(parent) ==
    IF CanConsumeL2Block(builder)
    THEN builder
    ELSE CreateNewProposal(builder, 1 + IF HasCurrent(builder) THEN builder.current.id
                                                               ELSE LastId(parent))

TakesForced(b, allow) ==
    allow /\ ProposeFI /\ CanAddForcedInclusion(b) /\ fiIndex < inbox.fiTail

\* add_new_l2_block: the block, the builder with it, and the builder when
\* the driver refuses it.
Added(parent, allow) ==
    LET b == WithProposal(parent)
        c == AddL2Block(b, [by |-> "us", tx |-> Fresh])
        f == IncForcedInclusion(b)
        block(fi, tx) == [pid |-> b.current.id, fi |-> fi, by |-> "us", tx |-> tx]
    IN  IF TakesForced(b, allow)
        THEN [block |-> block(TRUE, fiIndex), builder |-> f, fiIndex |-> fiIndex + 1,
              refused |-> DecreaseForcedInclusionCount(f)]
        ELSE [block |-> block(FALSE, Fresh), builder |-> c, fiIndex |-> fiIndex,
              refused |-> RemoveLastL2Block(c)]

\* consume_forced_inclusion, get_block_params_from_geth after it, or
\* advance_head_to_new_l2_block fails.
AddFailed(parent, allow) ==
    LET a == Added(parent, allow)
    IN  \/ /\ (IF a.block.fi THEN "advanceFi" ELSE "advance") \in Faults
           /\ builder' = a.refused
           /\ UNCHANGED <<geth, fiIndex>>
        \/ /\ "advanceLost" \in Faults
           /\ builder' = a.refused
           /\ geth' = Append(parent, a.block)
           /\ UNCHANGED fiIndex
        \/ /\ a.block.fi /\ "fiBlob" \in Faults
           /\ builder' = WithProposal(parent)
           /\ UNCHANGED <<geth, fiIndex>>
        \/ /\ a.block.fi /\ "fiParams" \in Faults
           /\ builder' = WithProposal(parent)
           /\ fiIndex' = a.fiIndex
           /\ UNCHANGED geth

\* The fast reanchoring in the handover window, then the check of the head,
\* then at most one new block.  The proposal is finalized when its anchor is
\* too old, which an FI block alone never is: the next slot adds a block.
Preconfirm ==
    LET fast == ~ctx.submitter /\ SafeHeight < Len(ctx.parent) /\ stale
        a    == Added(ctx.parent, ~ctx.endSeq)
        full == Len(ctx.parent) >= scenario.height
    IN  /\ pc = "preconfirm"
        /\ \/ fast /\ ReanchorBegin("idle") /\ UNCHANGED geth
           \/ /\ ~fast /\ head # ctx.parent
              /\ Cancel
              /\ UNCHANGED <<geth, builder, fiIndex, head, verifier, re, wasPreconfer>>
           \/ /\ ~fast /\ head = ctx.parent /\ (~ctx.endSeq \/ full)
              /\ Goto(StageFrom(ctx, 4))
              /\ UNCHANGED <<geth, builder, fiIndex, head, verifier, re, wasPreconfer>>
           \/ /\ ~fast /\ head = ctx.parent /\ ~full
              /\ geth' = Append(ctx.parent, a.block)
              /\ head' = geth'
              /\ fiIndex' = a.fiIndex
              /\ \/ builder' = a.builder
                 \/ a.builder.current.blocks # <<>> /\ builder' = Finalize(a.builder)
              /\ Goto(StageFrom(ctx, 4))
              /\ UNCHANGED <<verifier, re, wasPreconfer>>
           \/ /\ ~fast /\ head = ctx.parent /\ ~full
              /\ AddFailed(ctx.parent, ~ctx.endSeq)
              /\ Abort
              /\ UNCHANGED <<head, verifier, re, wasPreconfer>>
           \/ /\ "stepRpc" \in Faults
              /\ Abort
              /\ UNCHANGED <<geth, builder, fiIndex, head, verifier, re, wasPreconfer>>
        /\ UNCHANGED <<monVars, calendar, stale, inbox>>
-----------------------------------------------------------------------------
\* One round of ProposalManager::reanchor_blocks: build the next common block
\* again, or a forced inclusion before it.  Forced inclusions of the old
\* chain are skipped, and empty blocks after the first.  A failure ends the
\* process.
ReanchorBlock ==
    LET common == {i \in DOMAIN re.todo : ~re.todo[i].fi}
        i      == Min(common)
        isLast == i = Len(re.todo) \/ re.done + 1 = MaxReanchor
        parent == IF re.done = 0 THEN re.parent ELSE geth
        a      == Added(parent, ~isLast)
        after  == SubSeq(re.todo, i + 1, Len(re.todo))
    IN  /\ pc = "reanchor" /\ common # {} /\ re.done < MaxReanchor
        /\ \/ /\ re.common /\ "emptyBlocks" \in Faults
              /\ re' = [re EXCEPT !.todo = after]
              /\ UNCHANGED <<pc, ctx, geth, stale, builder, fiIndex>>
           \/ /\ geth' = Append(parent, a.block)
              /\ stale' = FALSE
              /\ builder' = a.builder
              /\ fiIndex' = a.fiIndex
              /\ re' = [re EXCEPT !.done = @ + 1, !.common = @ \/ ~a.block.fi,
                                  !.todo = IF a.block.fi THEN @ ELSE after]
              /\ UNCHANGED <<pc, ctx>>
           \/ AddFailed(parent, ~isLast) /\ Cancel /\ UNCHANGED <<re, stale>>
        /\ UNCHANGED <<monVars, calendar, inbox, wasPreconfer, head, verifier>>

\* The end of both reanchor_blocks.  A step that reanchored because of an
\* error in the channel goes on as after any other error.
ReanchorEnd ==
    /\ pc = "reanchor"
    /\ (\A i \in DOMAIN re.todo : re.todo[i].fi) \/ re.done >= MaxReanchor
    /\ head' = geth
    /\ re' = NoReanchor
    /\ IF re.back = "channel"
       THEN builder' = MarkFront(Finalize(builder), FALSE) /\ Goto(StageFrom(ctx, 2))
       ELSE builder' = Finalize(builder) /\ Goto(re.back)
    /\ UNCHANGED <<envVars, monVars, wasPreconfer, fiIndex, verifier>>
-----------------------------------------------------------------------------
\* try_submit_oldest_proposal on the builder b.  A proposal of an FI alone
\* does not expire: the next slot adds a block.
TrySubmit(b) ==
    \E expired \in BOOLEAN :
        LET c == FinalizeToSubmit(b, ctx.preconfer, expired)
            p == Head(c.queue)
        IN  /\ expired => b.current.blocks # <<>>
            /\ \/ builder' = c /\ UNCHANGED monVars    \* nothing to send, or an error
               \/ /\ c.queue # <<>> /\ ~p.pending
                  /\ Monitor!Start([fi |-> p.fi, blocks |-> p.blocks])
                  /\ job'.nonce < scenario.nonce
                  /\ builder' = MarkFront(c, TRUE)
            /\ Goto("idle")

\* Faulty: the verifier does not wait for the node's epoch.
GateIgnored == TRUE

GateOpen ==
    \/ verifier.gate = "now"
    \/ verifier.gate = "epoch" /\ Submitter /\ settled

\* has_verified_unsent_proposals, then the submission.
Submit ==
    /\ pc = "submit"
    /\ \/ /\ verifier.thread = "new"
          /\ \/ GateOpen /\ verifier' = [verifier EXCEPT !.thread = "running",
                                                       !.height = SafeHeight]
             \/ (GateOpen => "stepRpc" \in Faults) /\ UNCHANGED verifier
          /\ Goto("idle")
          /\ UNCHANGED <<monVars, builder, fiIndex, re>>
       \/ /\ verifier.thread = "running"
          /\ Goto("idle")
          /\ UNCHANGED <<monVars, builder, fiIndex, verifier, re>>
       \/ verifier.thread = "error" /\ ReanchorBegin("trySubmit") /\ UNCHANGED monVars
       \/ /\ verifier.thread \in {"none", "success"}
          /\ verifier' = NoVerifier
          /\ TrySubmit(Prepend(builder, verifier.proposals))
          /\ UNCHANGED <<fiIndex, re>>
    /\ UNCHANGED <<envVars, wasPreconfer, head>>

SubmitAfterReanchor ==
    /\ pc = "trySubmit"
    /\ TrySubmit(builder)
    /\ UNCHANGED <<envVars, wasPreconfer, fiIndex, head, verifier, re>>

\* verify_submitted_blocks, in its own thread: the root must still be in the
\* chain and not below the inbox; the blocks between them become proposals.
VerifySubmittedBlocks ==
    LET h == verifier.height
        n == Len(verifier.root)
        r == Recover(LastId(Chain(h)), SubSeq(geth, h + 1, n))
        ok == Len(geth) >= n /\ Chain(n) = verifier.root /\ n >= h /\ (n > h => ~stale /\ r.ok)
    IN  /\ verifier.thread = "running"
        /\ \/ ok /\ verifier' = [verifier EXCEPT !.thread = "success",
                                    !.proposals = IF n > h THEN r.proposals ELSE <<>>]
           \/ /\ ~ok \/ "verifierRpc" \in Faults
              /\ verifier' = [verifier EXCEPT !.thread = "error"]
        /\ UNCHANGED <<envVars, monVars, pc, ctx, wasPreconfer, builder, fiIndex, head, re>>

\* A step without a role.
Cleanup ==
    /\ pc = "cleanup"
    /\ builder' = EmptyBuilder
    /\ fiIndex' = IF builder = EmptyBuilder THEN fiIndex ELSE inbox.fiHead
    /\ verifier' = NoVerifier
    /\ Goto("idle")
    /\ UNCHANGED <<envVars, monVars, wasPreconfer, head, re>>

\* The process dies and a new one is started.
Restart ==
    /\ pc = "down" \/ ("crash" \in Faults /\ pc # "warmup")
    /\ Monitor!Crash
    /\ pc' = "warmup" /\ ctx' = NoCtx
    /\ wasPreconfer' = FALSE
    /\ builder' = EmptyBuilder
    /\ fiIndex' = inbox.fiHead
    /\ head' = NoHead
    /\ verifier' = NoVerifier
    /\ re' = NoReanchor
    /\ UNCHANGED envVars

\* Node::warmup: wait for Taiko Geth and for the node's own transactions.
Warmup ==
    /\ pc = "warmup"
    /\ inbox.nextId <= LastId(geth) + 1
    /\ NoncesEqual
    /\ Goto("idle")
    /\ UNCHANGED <<envVars, monVars, wasPreconfer, builder, fiIndex, head, verifier, re>>

MainStep ==
    \/ BeginStep \/ CheckChannel \/ StartSlot \/ Preconfirm \/ ReanchorBlock \/ ReanchorEnd
    \/ Submit \/ SubmitAfterReanchor \/ Cleanup \/ Warmup
=============================================================================
