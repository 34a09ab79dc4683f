---------------------------- MODULE ShastaSystem ----------------------------
(***************************************************************************)
(* The Shasta node among the things it works with: L1 with the inbox       *)
(* contract, the epochs, and the other operator, which follows the same    *)
(* rules.  None of these is part of the repository; they are modelled from *)
(* what the node expects of them.                                          *)
(***************************************************************************)
EXTENDS ShastaNode

Available == inbox.fiTail - inbox.fiHead
-----------------------------------------------------------------------------
\* L1 executes a proposal of the node.  The inbox takes a proposal from the
\* operator of the epoch only, gives it the next id, wherever the proposer
\* meant it to be, and puts the oldest forced inclusions before its blocks.
Mine(t) ==
    LET n == Min({t.payload.fi, Available})
    IN  /\ \/ /\ ~OursOnL1
              /\ Monitor!Mine(t, "NotTheOperatorInCurrentEpoch")
              /\ UNCHANGED inbox
           \/ /\ OursOnL1 /\ n < Available /\ "due" \in Faults
              /\ Monitor!Mine(t, "OldestForcedInclusionDue")
              /\ UNCHANGED inbox
           \/ /\ OursOnL1 /\ "txError" \in Faults
              /\ Monitor!Mine(t, "TransactionReverted")
              /\ UNCHANGED inbox
           \/ /\ OursOnL1
              /\ Monitor!Mine(t, "ok")
              /\ inbox' = [inbox EXCEPT
                    !.blocks = @ \o ForcedBlocks(inbox.nextId, "us", inbox.fiHead, n)
                                 \o CommonBlocks(inbox.nextId, t.payload.blocks),
                    !.nextId = @ + 1, !.fiHead = @ + n]
        /\ UNCHANGED <<nodeVars, calendar, stale, geth>>

\* The errors that a job ends with.  Those of the inbox reach it through the
\* estimation or the receipt, when they are true of L1.
JobError(e) ==
    /\ \/ e = "EstimationTooEarly"
       \/ e = "NotTheOperatorInCurrentEpoch" /\ (~OursOnL1 \/ Monitor!NonceUsed)
       \/ /\ e = "OldestForcedInclusionDue" /\ "due" \in Faults
          /\ Monitor!NonceUsed \/ (OursOnL1 /\ job.payload.fi < Available)
       \/ e \notin Monitor!Retryable /\ "txError" \in Faults
    /\ Monitor!NonceUsed => e \in {mined[job.nonce + 1].status, "GetBlockNumberFailed",
                                    "TransactionReverted"}
    /\ \E l \in BOOLEAN : Monitor!EndWithError(e, l)

MonitorStep ==
    /\ \/ Monitor!Send
       \/ Monitor!EndSilently /\ (Monitor!Executed \/ "silentRevert" \in Faults)
       \/ \E e \in Monitor!TransactionError : JobError(e)
       \/ Monitor!Finish
    /\ UNCHANGED <<envVars, nodeVars>>

Evict(t) == "txError" \in Faults /\ Monitor!Evict(t) /\ UNCHANGED <<envVars, nodeVars>>

AddForcedInclusion ==
    /\ inbox.fiTail < scenario.fi
    /\ inbox' = [inbox EXCEPT !.fiTail = @ + 1]
    /\ UNCHANGED <<calendar, stale, geth, monVars, nodeVars>>
-----------------------------------------------------------------------------
\* The next part of the epochs begins.  A step of the node does not last
\* longer than one of them, and a verification or a reanchoring does not go
\* on when the next operator has its turn.  The last block of a turn, which
\* is marked as the end of sequencing, is not a forced inclusion.  In an
\* epoch of the other operator the node has a step without a role and its
\* last transactions come to an end.
AdvanceWindow ==
    LET next == CASE window = "other" -> "handover" [] window = "handover" -> "ours"
                  [] window = "ours" -> "closing" [] window = "closing" -> "other"
    IN  /\ next \in scenario.windows
        /\ settled
        /\ pc \in {"idle", "down", "warmup"}
             \/ (ctx.preconfer = Preconfer /\ ctx.submitter = Submitter)
        /\ window = "ours" /\ "lateVerification" \notin Faults
             => pc # "reanchor" /\ ~ctx.start /\ verifier = NoVerifier
        /\ window = "other" => /\ builder = EmptyBuilder /\ verifier = NoVerifier
                               /\ ~wasPreconfer /\ live = {} /\ ~Monitor!InProgress
        /\ window \in {"other", "ours"} /\ "missedEnd" \notin Faults
             => /\ geth # <<>> => ~Last(geth).fi
                /\ pc \in {"channel", "start", "preconfirm"} /\ ctx.preconfer => ctx.endSeq
        /\ window' = next
        /\ settled' = (next \in {"handover", "closing"})
        /\ turn' = CASE next = "closing" -> Len(geth) [] next = "other" -> turn [] OTHER -> 0
        /\ UNCHANGED <<scenario, stale, geth, inbox, monVars, nodeVars>>

\* The first L1 block of an epoch.
Settle ==
    /\ ~settled
    /\ settled' = TRUE
    /\ UNCHANGED <<scenario, window, turn, stale, geth, inbox, monVars, nodeVars>>

\* The blocks after the inbox are not proposed until it is too late.
Expire ==
    /\ "stale" \in Faults /\ ~stale
    /\ window \in {"other", "handover"} /\ settled
    /\ SafeHeight < Len(geth)
    /\ window = "other" \/ geth[SafeHeight + 1].by = "other"
    /\ stale' = TRUE
    /\ UNCHANGED <<calendar, geth, inbox, monVars, nodeVars>>

\* The other operator preconfirms a block, in its window or, once the node
\* has stopped, at the end of the node's epoch.
OtherPreconfirm ==
    LET pid   == LastId(geth)
        index == inbox.fiHead + ForcedIn(SubSeq(geth, SafeHeight + 1, Len(geth)))
        own   == SelectSeq(geth, LAMBDA b : b.pid = pid /\ ~b.fi)
        add(p, fi, tx) == geth' = Append(geth, [pid |-> p, fi |-> fi, by |-> "other", tx |-> tx])
    IN  /\ window \in {"other", "closing"} /\ ~ctx.preconfer
        /\ Len(geth) < scenario.height
        /\ \/ add(pid + 1, FALSE, Fresh)
           \/ /\ Len(geth) > turn /\ pid >= inbox.nextId /\ Last(geth).by = "other"
              /\ Len(own) < MaxBlocks
              /\ add(pid, FALSE, Fresh)
           \/ index < inbox.fiTail /\ add(pid + 1, TRUE, index)
        /\ UNCHANGED <<calendar, stale, inbox, monVars, nodeVars>>

\* The other operator proposes the next blocks of the chain.
OtherPropose ==
    LET group == SelectSeq(geth, LAMBDA b : b.pid = inbox.nextId)
    IN  /\ ~OursOnL1 /\ ~stale
        /\ \E b \in ToSet(group) : ~b.fi
        /\ \A b \in ToSet(group) : b.by = "us" => window = "other" /\ ~b.fi
        /\ inbox' = [inbox EXCEPT !.blocks = @ \o group, !.nextId = @ + 1,
                                  !.fiHead = @ + ForcedIn(group)]
        /\ UNCHANGED <<calendar, stale, geth, monVars, nodeVars>>
-----------------------------------------------------------------------------
Init ==
    /\ scenario \in Scenarios
    /\ window = scenario.first /\ settled = TRUE /\ turn = 0 /\ stale = FALSE
    /\ geth = <<>>
    /\ inbox = [blocks |-> <<>>, nextId |-> FirstId, fiHead |-> 0, fiTail |-> 0]
    /\ job = Monitor!Idle(NoPayload) /\ channel = <<>> /\ live = {} /\ mined = <<>>
    /\ pc = "idle" /\ ctx = NoCtx /\ wasPreconfer = FALSE
    /\ builder = EmptyBuilder /\ fiIndex = 0
    /\ head = NoHead /\ verifier = NoVerifier /\ re = NoReanchor

Next ==
    \/ MainStep
    \/ VerifySubmittedBlocks
    \/ Restart
    \/ MonitorStep
    \/ \E t \in live : Mine(t)
    \/ \E t \in live : Evict(t)
    \/ AddForcedInclusion
    \/ AdvanceWindow
    \/ Settle
    \/ Expire
    \/ OtherPreconfirm
    \/ OtherPropose

Spec == Init /\ [][Next]_vars

\* The main loop runs on every heartbeat, and the tasks of the runtime get
\* their turns.  A proposal's time limit is reached, L1 and its RPC node do
\* not fail or refuse forever.
Fairness ==
    /\ WF_vars(MainStep) /\ WF_vars(VerifySubmittedBlocks) /\ WF_vars(MonitorStep)
    /\ SF_vars(Submit /\ HasCurrent(builder) /\ ~HasCurrent(builder'))
    /\ SF_vars(Submit /\ job' # job)
    /\ SF_vars(MonitorStep /\ live' # live)
    /\ SF_vars(MonitorStep /\ Monitor!EndSilently)
    /\ SF_vars(\E t \in live : Mine(t) /\ inbox' # inbox)

FairSpec == Spec /\ Fairness
-----------------------------------------------------------------------------
Stage == ToSet(Stages) \cup {"idle", "reanchor", "trySubmit", "down", "warmup"}

Block == [pid : Nat, fi : BOOLEAN, by : {"us", "other"}, tx : Nat]

\* The types of the surroundings and of the node's state; the forced
\* inclusion that the node takes next is never beyond the end of the inbox's queue.
TypeOK ==
    /\ scenario \in Scenarios
    /\ window \in scenario.windows /\ settled \in BOOLEAN /\ turn \in 0 .. MaxHeight /\ stale \in BOOLEAN
    /\ geth \in Seq(Block) /\ head \in Seq(Block)
    /\ inbox \in [blocks : Seq(Block), nextId : Nat, fiHead : 0 .. MaxFI, fiTail : 0 .. MaxFI]
    /\ inbox.fiHead <= inbox.fiTail
    /\ pc \in Stage
    /\ ctx \in [preconfer : BOOLEAN, submitter : BOOLEAN, synced : BOOLEAN, start : BOOLEAN,
                endSeq : BOOLEAN, inProgress : BOOLEAN, parent : Seq(Block)]
    /\ wasPreconfer \in BOOLEAN
    /\ builder \in [queue : Seq(Proposal), current : Proposal]
    /\ fiIndex \in 0 .. inbox.fiTail
    /\ verifier \in [thread : {"none", "new", "running", "success", "error"},
                     gate : {"now", "epoch", "later"}, root : Seq(Block), height : Nat,
                     proposals : Seq(Proposal)]
    /\ re \in [todo : Seq(Block), parent : Seq(Block), done : 0 .. MaxReanchor,
               common : BOOLEAN, back : {"idle", "channel", "trySubmit"}]

\* What the inbox derives from the proposals is what was preconfirmed: Taiko
\* Geth never has to replace a block because of L1, and between the blocks
\* of two proposals there is no gap.  It takes the whole of the node: the
\* start slot, the verifier, the queue and its resubmissions, the counting
\* of forced inclusions, against the other operator's proposals and L1.
NoReorg == IsPrefix(inbox.blocks, geth)

\* The queue without a first proposal that L1 has already executed.
Unexecuted ==
    IF builder.queue # <<>> /\ Head(builder.queue).pending /\ Monitor!Executed
    THEN Tail(builder.queue) ELSE builder.queue

\* The node is in its turn, and its verifier has found no fault.
InTurn ==
    pc = "idle" /\ wasPreconfer /\ window \in {"handover", "ours"} /\ verifier.thread # "error"

\* The blocks that the node's proposals come after: those of the inbox, or
\* with them the blocks that are still being verified.
Base == IF verifier.thread = "none" THEN inbox.blocks ELSE verifier.root

\* The blocks of the node's proposals, finished and current.
Own ==
    ChainOf(Unexecuted \o (IF HasCurrent(builder) THEN <<builder.current>> ELSE <<>>),
            inbox.fiHead + ForcedIn(SubSeq(Base, SafeHeight + 1, Len(Base))))

\* The property is stated for the failures other than these.
Without(faults) == Faults \cap faults = {}

\* In its turn the node's proposals are exactly the blocks of Taiko Geth
\* after the inbox and the blocks still being verified: nothing of what was
\* preconfirmed is forgotten by the builder, and nothing is in it twice.  A
\* block that the driver took unheard is not in them; the node restarts.
ProposalsMatchChain == InTurn /\ Without({"advanceLost"}) => geth = Base \o Own.blocks

\* In its turn the forced inclusion that the node takes next is the one
\* after those in the chain, unless the parameters for one could not be read
\* or the start slot ended before it was computed.
ForcedInclusionsInOrder ==
    InTurn /\ Without({"fiParams", "fiHead", "inboxState"}) => fiIndex = Own.fi

\* When the channel is found empty, so that remove_confirmed will forget the
\* proposal that was sent, the inbox has its blocks; unless its transaction
\* reverted unnoticed.
ConfirmedIsExecuted ==
    (/\ pc = "channel" /\ channel = <<>>
     /\ builder.queue # <<>> /\ Head(builder.queue).pending
     /\ Without({"silentRevert"})) =>
        LET p == Head(builder.queue)
        IN  ToSet(CommonBlocks(p.id, p.blocks)) \subseteq ToSet(inbox.blocks)

\* At most one proposal waits for its confirmation, the first, and it is the
\* one that the transaction monitor was given last.
PendingIsOfJob ==
    \A i \in DOMAIN builder.queue :
        LET p == builder.queue[i]
        IN  p.pending => i = 1 /\ job.payload = [fi |-> p.fi, blocks |-> p.blocks]
                               /\ job.pc # "none"

\* The node does not stop itself: the head verifier agrees with Taiko Geth,
\* no transaction is on its way at a start slot in the node's epoch, and no
\* transaction ends with an error that the node cannot deal with.  The
\* failures named here stop it.
NoShutdown == Without({"due", "txError", "startRpc", "advanceLost"}) => pc # "down"

\* Every block with transactions that the node preconfirms gets into the
\* inbox, whatever number of proposals are in front of it and however often
\* they have to be sent again.
PreconfirmedIsProposed ==
    \A n \in 1 .. MaxHeight :
        (Len(geth) >= n /\ ~geth[n].fi) ~> (Len(inbox.blocks) >= n)
=============================================================================
