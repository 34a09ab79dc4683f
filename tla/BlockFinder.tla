---------------------------- MODULE BlockFinder ----------------------------
(***************************************************************************)
(* LastSafeL2BlockFinder (shasta/src/node/last_safe_l2_block_finder): the  *)
(* number of the last L2 block whose proposal the inbox on L1 already has. *)
(* The node preconfirms, verifies and reanchors from that number on.  The  *)
(* answer is put together from several calls to L1, to the L2 engine and   *)
(* to Taiko Geth, between which blocks are preconfirmed, received and      *)
(* proposed, and it is kept in a cache by proposal id.                     *)
(*                                                                         *)
(* A block is its number; id[b] is the proposal id in its extra data.      *)
(* Blocks 1..top exist on the network, Taiko Geth has 1..head of them, and *)
(* the Taiko driver has derived 1..origin from L1.  Block last[p] is the   *)
(* last one of proposal p, and next is the nextProposalId of the inbox.    *)
(***************************************************************************)
EXTENDS Naturals

CONSTANTS
    MaxHeight,      \* bound on the number of L2 blocks
    MaxProposal,    \* bound on the number of proposals
    Scenarios       \* the sets of faults that a behaviour may have

\* late: Taiko Geth receives preconfirmed blocks late.
\* reorg: L1 drops its last proposal, and another one takes its place.
Faults == {"late", "reorg"}

ASSUME FinderAssumption ==
    /\ MaxHeight \in Nat
    /\ MaxProposal \in Nat
    /\ Scenarios \subseteq SUBSET Faults

VARIABLES
    top, id,        \* the L2 blocks of the network and their proposal ids
    head, origin,   \* what Taiko Geth has, what the driver has derived
    next, last,     \* the inbox
    cache,          \* LastSafeL2BlockFinder.cache, 0 where there is no entry
    f,              \* the call in progress and its local variables
    scenario        \* the faults of this behaviour

world == <<top, id, head, origin, next, last, scenario>>
vars == <<world, cache, f>>

Without(faults) == scenario \cap faults = {}

Blocks == 0 .. MaxHeight
Proposals == 0 .. MaxProposal

\* No block: the Option of the binary search.  Block 0 is never searched.
None == 0

Idle == [pc |-> "idle", target |-> 0, safe |-> 0, safeId |-> 0,
         left |-> 0, right |-> 0, found |-> None]

Init ==
    /\ top = 0 /\ head = 0 /\ origin = 0 /\ next = 1
    /\ id = [b \in Blocks |-> 0]
    /\ last = [p \in Proposals |-> 0]
    /\ cache = [p \in Proposals |-> 0]
    /\ f = Idle
    /\ scenario \in Scenarios

-----------------------------------------------------------------------------
(* The chains.                                                             *)

\* The preconfer of the slot makes a block, of the proposal of the block
\* before it or of the one after that, and of none that L1 already has.
Preconfirm ==
    /\ top < MaxHeight
    /\ \E p \in Proposals :
          /\ p \in {id[top], id[top] + 1}
          /\ p >= next
          /\ id' = [id EXCEPT ![top + 1] = p]
    /\ top' = top + 1
    /\ head' = IF Without({"late"}) THEN top + 1 ELSE head
    /\ UNCHANGED <<origin, next, last, cache, f, scenario>>

\* Taiko Geth gets the next preconfirmed block from the network.
Receive ==
    /\ head < top
    /\ head' = head + 1
    /\ UNCHANGED <<top, id, origin, next, last, cache, f, scenario>>

\* The inbox takes the next proposal: all the blocks that have its id.
Propose ==
    /\ next \in Proposals
    /\ last[next - 1] < top
    /\ \E b \in (last[next - 1] + 1) .. top :
          /\ id[b] = next
          /\ \A c \in (b + 1) .. top : id[c] # next
          /\ last' = [last EXCEPT ![next] = b]
    /\ next' = next + 1
    /\ UNCHANGED <<top, id, head, origin, cache, f, scenario>>

\* The driver derives the next block from L1 and gives it to Taiko Geth.
Derive ==
    /\ origin < last[next - 1]
    /\ origin' = origin + 1
    /\ head' = IF head <= origin THEN origin + 1 ELSE head
    /\ UNCHANGED <<top, id, next, last, cache, f, scenario>>

\* L1 loses the last proposal, and with it go the blocks it had.
DropProposal ==
    /\ ~Without({"reorg"})
    /\ next > 1
    /\ LET keep == last[next - 2] IN
       /\ next' = next - 1
       /\ top' = keep
       /\ head' = IF head > keep THEN keep ELSE head
       /\ origin' = IF origin > keep THEN keep ELSE origin
       /\ last' = [last EXCEPT ![next - 1] = 0]
       /\ id' = [b \in Blocks |-> IF b > keep THEN 0 ELSE id[b]]
    /\ UNCHANGED <<cache, f, scenario>>

-----------------------------------------------------------------------------
(* LastSafeL2BlockFinder::get.                                             *)

\* Up to the search: the state of the inbox is read and the cache is asked.
\* With no proposal yet the answer is the head L1 origin, 0 if that fails.
Get ==
    /\ f.pc = "idle"
    /\ f' = LET target == next - 1 IN
            IF next = 1 THEN [Idle EXCEPT !.pc = "done", !.found = origin]
            ELSE IF cache[target] # 0
            THEN [Idle EXCEPT !.pc = "done", !.target = target, !.found = cache[target]]
            ELSE [Idle EXCEPT !.pc = "certain", !.target = target]
    /\ UNCHANGED <<world, cache>>

\* The fast path: the L2 engine knows the last block of every proposal that
\* the driver has derived.  Any error leads to the slow path.
CertainBlock ==
    /\ f.pc = "certain"
    /\ \/ /\ f.target < next
          /\ origin >= last[f.target]
          /\ f' = [f EXCEPT !.pc = "store", !.found = last[f.target], !.safeId = f.target]
       \/ f' = [f EXCEPT !.pc = "origin"]
    /\ UNCHANGED <<world, cache>>

HeadL1Origin ==
    /\ f.pc = "origin"
    /\ f' = [f EXCEPT !.pc = "safe", !.safe = origin]
    /\ UNCHANGED <<world, cache>>

SafeProposalId ==
    /\ f.pc = "safe"
    /\ f.safe <= head
    /\ f' = [f EXCEPT !.pc = "latest", !.safeId = id[f.safe]]
    /\ UNCHANGED <<world, cache>>

\* Faulty: the range of the search is not checked, the latest block is taken
\* whenever it is of the target or of a later proposal.
LatestBlockAtLeast ==
    /\ f.pc = "latest"
    /\ f' = IF id[head] >= f.target THEN [f EXCEPT !.pc = "store", !.found = head] ELSE Idle
    /\ UNCHANGED <<world, cache>>

\* The latest block of Taiko Geth: it may be the answer, or it shows that
\* the target is out of range, or it ends the range of the binary search.
LatestBlock ==
    /\ f.pc = "latest"
    /\ f' = IF id[head] = f.target THEN [f EXCEPT !.pc = "store", !.found = head]
            ELSE IF f.target < f.safeId \/ f.target > id[head] THEN Idle
            ELSE [f EXCEPT !.pc = "search", !.left = f.safe + 1, !.right = head]
    /\ UNCHANGED <<world, cache>>

Middle == f.left + (f.right - f.left) \div 2

\* binary_search_last_block, one turn of its loop: the proposal id of the
\* block in the middle is asked of Taiko Geth.
Probe ==
    /\ f.pc = "search"
    /\ f.left <= f.right
    /\ Middle <= head
    /\ f' = IF id[Middle] <= f.target THEN [f EXCEPT !.found = Middle, !.left = Middle + 1]
            ELSE [f EXCEPT !.right = Middle - 1]
    /\ UNCHANGED <<world, cache>>

\* Faulty: the search ends with one block left.
SearchEndsEarly ==
    /\ f.pc = "search"
    /\ f.left >= f.right
    /\ f' = IF f.found = None THEN Idle ELSE [f EXCEPT !.pc = "store"]
    /\ UNCHANGED <<world, cache>>

SearchEnds ==
    /\ f.pc = "search"
    /\ f.left > f.right
    /\ f' = IF f.found = None THEN Idle ELSE [f EXCEPT !.pc = "store"]
    /\ UNCHANGED <<world, cache>>

\* clear_cache for the proposals below the safe one, and the new entry.
Store ==
    /\ f.pc = "store"
    /\ cache' = [p \in Proposals |-> IF p = f.target THEN f.found
                                     ELSE IF p < f.safeId THEN 0 ELSE cache[p]]
    /\ f' = [f EXCEPT !.pc = "done"]
    /\ UNCHANGED world

\* The caller has the answer.
Return ==
    /\ f.pc = "done"
    /\ f' = Idle
    /\ UNCHANGED <<world, cache>>

\* A call of the slow path fails: get returns the error.
Fails ==
    /\ f.pc \in {"origin", "safe", "latest"} \/ (f.pc = "search" /\ f.left <= f.right)
    /\ f' = Idle
    /\ UNCHANGED <<world, cache>>

Chains == Preconfirm \/ Receive \/ Propose \/ Derive \/ DropProposal

Finder ==
    \/ Get \/ CertainBlock \/ HeadL1Origin \/ SafeProposalId \/ LatestBlock
    \/ Probe \/ SearchEnds \/ Store \/ Return \/ Fails

Next == Chains \/ Finder

Spec == Init /\ [][Next]_vars

-----------------------------------------------------------------------------
(* Properties.                                                             *)

Calls ==
    [pc : {"idle", "certain", "origin", "safe", "latest", "search", "store", "done"},
     target : Proposals, safe : Blocks, safeId : Proposals,
     left : 0 .. MaxHeight + 1, right : Blocks, found : Blocks]

\* Every variable has the values that the code can give it.
TypeOK ==
    /\ top \in Blocks /\ head \in 0 .. top /\ origin \in 0 .. top
    /\ id \in [Blocks -> Proposals]
    /\ next \in 1 .. MaxProposal + 1
    /\ last \in [Proposals -> Blocks]
    /\ cache \in [Proposals -> Blocks]
    /\ f \in Calls
    /\ scenario \in Scenarios

\* get answers with the last block of the proposal that was the newest one
\* when it read the inbox, whatever was preconfirmed, proposed or derived
\* between its calls, and from whichever of cache, engine and search the
\* answer came (last_safe_l2_block_finder/mod.rs:61).  Only a Taiko Geth
\* that misses preconfirmed blocks, and a reorg of L1, which the cache does
\* not notice, are left out.
FoundIsLast ==
    Without({"late", "reorg"}) /\ f.pc = "done" => f.found = last[f.target]

\* Also with a Taiko Geth that is behind, no block that is only preconfirmed
\* is reported as proposed: the node would leave it out of its own proposals
\* (the binary search's "last block with proposal_id < target").
FoundIsProposed ==
    Without({"reorg"}) /\ f.pc = "done" => f.found <= last[f.target]
=============================================================================
