--------------------------- MODULE Permissionless --------------------------
(***************************************************************************)
(* The permissionless node (permissionless/src): the preconfirmation loop  *)
(* of an iteration of the process.  A step reads the head of geth, signs a *)
(* commitment to the next block and publishes it through the               *)
(* preconfirmation driver, and hands a full proposal to the transaction    *)
(* monitor.  There is no warmup and no check of the head: what the node    *)
(* holds is lost with it.  Nor does anything take a confirmed proposal out *)
(* of the queue.  Blocks are their numbers.                                *)
(***************************************************************************)
EXTENDS Supervisor

CONSTANTS
    ProposalBlocks  \* max_blocks_per_batch

VARIABLES
    node,       \* node[i]: the loop of iteration i
    geth,       \* the head of geth
    driver,     \* the head of the preconfirmation driver
    commits,    \* the block numbers of the commitments the driver received
    sent,       \* sent[i]: the blocks of the proposal in flight
    proposed    \* the blocks on L1, in order

loopVars == <<node, geth, driver, commits, sent, proposed>>

\* queue and current are those of the proposal builder; pending is
\* pending_confirmation of the front of the queue.
NewNode == [pc |-> "idle", parent |-> 0, busy |-> FALSE, error |-> "none",
            queue |-> <<>>, pending |-> FALSE, current |-> <<>>, counter |-> 0]

LoopInit ==
    /\ node = [i \in Iter |-> NewNode]
    /\ geth = 0 /\ driver = 0
    /\ commits = <<>> /\ proposed = <<>>
    /\ sent = [i \in Iter |-> <<>>]

Runs(i) == scenario.fork = "permissionless" /\ "loop" \in tasks[i]

----------------------------------------------------------------------------
(* The heads of the loop: the token is looked at, the slot is read. *)

LoopEnds(i) ==
    /\ "loop" \in tasks[i] /\ token[i] /\ node[i].pc = "idle"
    /\ tasks' = [tasks EXCEPT ![i] = @ \ {"loop"}]
    /\ UNCHANGED <<sup, token, hook, loopVars>>

\* get_slot_info_and_status, is_transaction_in_progress
ReadSlot(i) ==
    /\ Runs(i) /\ ~token[i] /\ node[i].pc = "idle" /\ Without({"dead"})
    /\ node' = [node EXCEPT ![i].pc = "step", ![i].parent = geth, ![i].busy = sent[i] # <<>>]
    /\ UNCHANGED <<supVars, geth, driver, commits, sent, proposed>>

\* A step ends with an error: the watchdog counts, and cancels the token.
Errs(i, n) ==
    /\ node' = [node EXCEPT ![i] = [n EXCEPT !.pc = "idle", !.error = "none",
                                            !.counter = Increment(@)]]
    /\ IF Bites(Increment(n.counter)) THEN Cancel(i) ELSE token' = token
    /\ UNCHANGED <<sup, tasks, hook>>

\* A step ends without one: the watchdog is reset.
Succeeds(i, n) ==
    /\ node' = [node EXCEPT ![i] = [n EXCEPT !.pc = "idle", !.error = "none", !.counter = 0]]
    /\ UNCHANGED supVars

ReadSlotFails(i) ==
    /\ Runs(i) /\ ~token[i] /\ node[i].pc = "idle" /\ ~Without({"rpc", "dead"})
    /\ Errs(i, node[i])
    /\ UNCHANGED <<geth, driver, commits, sent, proposed>>

\* check_transaction_error_channel, handle_transaction_error: all but two
\* errors are critical.
HandleError(i) ==
    /\ Runs(i) /\ node[i].pc = "step" /\ node[i].error = "fatal"
    /\ node' = [node EXCEPT ![i].pc = "idle", ![i].error = "none", ![i].counter = Increment(@)]
    /\ Cancel(i)
    /\ UNCHANGED <<sup, tasks, hook, geth, driver, commits, sent, proposed>>

----------------------------------------------------------------------------
(***************************************************************************)
(* The rest of a step: preconfirm_block, when a block is wanted, and       *)
(* try_submit_oldest_proposal, unless a transaction was in flight when the *)
(* step began.                                                             *)
(***************************************************************************)
Publish(i) ==
    LET number == node[i].parent + 1
    IN /\ commits' = Append(commits, number)
       /\ driver' = IF number > driver THEN number ELSE driver
       /\ geth' \in IF Without({"lag"}) THEN {driver'} ELSE {geth, driver'}

\* create_new_proposal finalizes the current proposal.
Finalized(n) ==
    IF n.current = <<>> THEN n
    ELSE [n EXCEPT !.queue = Append(@, n.current), !.current = <<>>]

Full(n) == Len(n.current) >= ProposalBlocks

RoomForBlock(n) == IF Full(n) THEN Finalized(n) ELSE n

\* Faulty: the block is put in front of the others.
WithBlockFirst(n) ==
    [RoomForBlock(n) EXCEPT !.current = <<n.parent + 1>> \o @]

WithBlock(n) == [RoomForBlock(n) EXCEPT !.current = Append(@, n.parent + 1)]

\* try_submit_oldest_proposal: the current proposal is finalized when it is
\* full or old, and the front of the queue is handed over.  A front that was
\* handed over before is an error, and so is a nonce that cannot be read.
SubmitOldest(i, n) ==
    IF n.busy THEN Succeeds(i, n) /\ UNCHANGED sent
    ELSE \E old \in IF Without({"old"}) THEN {FALSE} ELSE BOOLEAN :
         LET f == IF Full(n) \/ old THEN Finalized(n) ELSE n
         IN IF f.queue = <<>> THEN Succeeds(i, f) /\ UNCHANGED sent
            ELSE IF f.pending THEN Errs(i, f) /\ UNCHANGED sent
            ELSE \/ /\ Succeeds(i, [f EXCEPT !.pending = TRUE])
                    /\ sent' = [sent EXCEPT ![i] = Head(f.queue)]
                 \/ ~Without({"rpc"}) /\ Errs(i, f) /\ UNCHANGED sent

Preconfirm(i) ==
    /\ Runs(i) /\ node[i].pc = "step" /\ node[i].error # "fatal"
    /\ Len(commits) < scenario.blocks
    /\ Publish(i)
    /\ SubmitOldest(i, WithBlock(node[i]))
    /\ UNCHANGED proposed

NoBlockWanted(i) ==
    /\ Runs(i) /\ node[i].pc = "step" /\ node[i].error # "fatal"
    /\ SubmitOldest(i, node[i])
    /\ UNCHANGED <<geth, driver, commits, proposed>>

\* The driver names another signer for the slot.
NotPreconfer(i) ==
    /\ Runs(i) /\ node[i].pc = "step" /\ node[i].error # "fatal" /\ ~Without({"other"})
    /\ Succeeds(i, node[i])
    /\ UNCHANGED <<geth, driver, commits, sent, proposed>>

\* The publication fails, before or after the driver has the block; the block
\* is removed from the proposal either way.
PublishFails(i) ==
    /\ Runs(i) /\ node[i].pc = "step" /\ node[i].error # "fatal" /\ ~Without({"timeout"})
    /\ \/ Len(commits) < scenario.blocks /\ Publish(i)
       \/ UNCHANGED <<commits, driver, geth>>
    /\ Errs(i, RoomForBlock(node[i]))
    /\ UNCHANGED <<sent, proposed>>

----------------------------------------------------------------------------
(***************************************************************************)
(* External: geth follows the driver; the transaction monitor of an        *)
(* iteration, which outlives its token, has the proposal mined or gives    *)
(* up.  Proposals of two iterations compete for one nonce.                 *)
(***************************************************************************)
GethFollows ==
    /\ geth < driver
    /\ geth' = driver
    /\ UNCHANGED <<supVars, node, driver, commits, sent, proposed>>

Mined(i) ==
    /\ sent[i] # <<>>
    /\ proposed' = proposed \o sent[i]
    /\ sent' = [j \in Iter |-> <<>>]
    /\ UNCHANGED <<supVars, node, geth, driver, commits>>

SendFails(i) ==
    /\ sent[i] # <<>>
    /\ \E e \in {"fatal", "late"} : ~Without({e}) /\ node' = [node EXCEPT ![i].error = e]
    /\ sent' = [sent EXCEPT ![i] = <<>>]
    /\ UNCHANGED <<supVars, geth, driver, commits, proposed>>

LoopSteps(i) ==
    \/ LoopEnds(i) \/ ReadSlot(i) \/ ReadSlotFails(i) \/ HandleError(i)
    \/ Preconfirm(i) \/ NoBlockWanted(i) \/ NotPreconfer(i) \/ PublishFails(i)

EnvSteps == GethFollows \/ \E i \in Iter : Mined(i) \/ SendFails(i)
=============================================================================
