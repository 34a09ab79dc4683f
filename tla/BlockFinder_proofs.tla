------------------------- MODULE BlockFinder_proofs -------------------------
(***************************************************************************)
(* FoundIsLast and FoundIsProposed for chains and proposals of any length. *)
(*                                                                         *)
(* The answer is right because proposal ids never decrease along the chain *)
(* and the blocks of a proposal that the inbox has are complete: whatever  *)
(* happens between the calls of the finder happens above the last block of *)
(* the target.  The loop of the binary search keeps, beside its result,    *)
(* that every block above the range is of a later proposal.                *)
(***************************************************************************)
EXTENDS BlockFinder, TLAPS

\* The chains: ids never decrease, and the inbox has whole proposals.
ChainInv ==
    /\ \A b, c \in 0 .. top : b <= c => id[b] <= id[c]
    /\ \A p \in 0 .. next - 1 :
          /\ last[p] <= top
          /\ id[last[p]] = p
          /\ \A b \in 0 .. top : b > last[p] => id[b] > p
    /\ last[0] = 0
    /\ origin <= last[next - 1]
    /\ origin <= head
    /\ Without({"late"}) => head = top

\* Block b is a right answer for proposal p.
Right(b, p) ==
    /\ p < next
    /\ b <= last[p]
    /\ Without({"late"}) => b = last[p]

CacheInv == \A p \in Proposals : cache[p] # 0 => Right(cache[p], p)

\* What the calls made so far have shown.
CallInv ==
    /\ f.pc # "idle" => f.target < next
    /\ f.pc \in {"certain", "origin", "safe", "latest"} => f.found = None
    /\ f.pc \in {"safe", "latest", "search"} => f.safe <= origin
    /\ f.pc = "search" =>
          /\ 1 <= f.left /\ f.left <= f.right + 1
          /\ f.right <= head
          /\ f.target < id[top]
          /\ \A b \in 0 .. top : b > f.right => id[b] > f.target
          /\ f.found # None => f.found = f.left - 1 /\ id[f.found] <= f.target
    /\ f.pc \in {"store", "done"} => Right(f.found, f.target)

\* The search never asks for block 0, whatever L1 does.
SearchInv == f.pc = "search" => 1 <= f.left

IInv ==
    /\ TypeOK
    /\ ChainInv
    /\ SearchInv
    /\ Without({"reorg"}) => CacheInv /\ CallInv

-----------------------------------------------------------------------------

\* No call in progress.
LEMMA IdleType == Idle \in Calls
BY FinderAssumption DEF Idle, Calls, Blocks, Proposals, None

LEMMA Initially == Init => IInv
<1>. SUFFICES ASSUME Init  PROVE IInv
  OBVIOUS
<1>. MaxHeight \in Nat /\ MaxProposal \in Nat
  BY FinderAssumption
<1>1. TypeOK
  BY IdleType DEF Init, TypeOK, Blocks, Proposals
<1>2. ChainInv
  BY DEF Init, ChainInv, Blocks, Proposals
<1>3. SearchInv /\ CacheInv /\ CallInv
  BY DEF Init, SearchInv, CacheInv, CallInv, Idle
<1>. QED  BY <1>1, <1>2, <1>3 DEF IInv

\* The steps of the chains: each keeps the order of the ids and the whole
\* proposals, and touches no block at or below the last one of the target.
LEMMA ChainsKeep ==
    ASSUME IInv, Chains
    PROVE  IInv'
<1>. MaxHeight \in Nat /\ MaxProposal \in Nat
  BY FinderAssumption
<1>t. /\ top \in 0 .. MaxHeight /\ head \in 0 .. top /\ origin \in 0 .. top
      /\ next \in 1 .. MaxProposal + 1
  BY DEF IInv, TypeOK, Blocks, Proposals
<1>i. id \in [0 .. MaxHeight -> 0 .. MaxProposal]
  BY DEF IInv, TypeOK, Blocks, Proposals
<1>l. last \in [0 .. MaxProposal -> 0 .. MaxHeight]
  BY DEF IInv, TypeOK, Blocks, Proposals
<1>1. CASE Preconfirm
  <2>p. PICK p \in 0 .. MaxProposal :
          /\ p \in {id[top], id[top] + 1}
          /\ p >= next
          /\ id' = [id EXCEPT ![top + 1] = p]
    BY <1>1 DEF Preconfirm, Proposals
  <2>c. /\ top < MaxHeight /\ top' = top + 1
        /\ head' \in {head, top + 1} /\ (Without({"late"}) => head' = top + 1)
        /\ origin' = origin /\ next' = next /\ last' = last
        /\ cache' = cache /\ f' = f /\ scenario' = scenario
    BY <1>1 DEF Preconfirm
  <2>i. /\ id' \in [0 .. MaxHeight -> 0 .. MaxProposal]
        /\ \A b \in 0 .. top : id'[b] = id[b]
        /\ id'[top + 1] = p
    BY <2>p, <2>c, <1>t, <1>i
  <2>o. /\ p >= id[top] /\ p >= next
    BY <2>p, <1>t, <1>i
  <2>1. TypeOK'
    <3>1. top' \in 0 .. MaxHeight /\ head' \in 0 .. top' /\ origin' \in 0 .. top'
      BY <1>t, <2>c
    <3>. QED  BY <3>1, <2>i, <2>c DEF IInv, TypeOK, Blocks, Proposals
  <2>4. ChainInv'
    <3>1. \A b, c \in 0 .. top' : b <= c => id'[b] <= id'[c]
      <4>. SUFFICES ASSUME NEW b \in 0 .. top + 1, NEW c \in 0 .. top + 1, b <= c
                    PROVE  id'[b] <= id'[c]
        BY <2>c
      <4>1. CASE c \in 0 .. top
        BY <4>1, <1>t, <2>i, SMTT(60) DEF IInv, ChainInv
      <4>2. CASE b \in 0 .. top /\ c = top + 1
        <5>1. id[b] <= id[top] /\ id[b] \in Nat /\ id[top] \in Nat
          BY <4>2, <1>t, <1>i DEF IInv, ChainInv
        <5>. QED  BY <4>2, <5>1, <2>i, <2>o, SMTT(60)
      <4>3. CASE b = top + 1
        BY <4>3, <1>t, <2>i
      <4>. QED  BY <4>1, <4>2, <4>3, <1>t
    <3>2. ASSUME NEW q \in 0 .. next - 1
          PROVE  /\ last[q] <= top + 1
                 /\ id'[last[q]] = q
                 /\ \A b \in 0 .. top + 1 : b > last[q] => id'[b] > q
      <4>1. /\ last[q] \in 0 .. top /\ id[last[q]] = q
            /\ \A b \in 0 .. top : b > last[q] => id[b] > q
        BY <1>t, <1>l DEF IInv, ChainInv
      <4>2. q < p
        BY <1>t, <2>o
      <4>. QED  BY <1>t, <4>1, <4>2, <2>i, SMTT(60)
    <3>3. Without({"late"})' => head' = top'
      BY <2>c DEF Without
    <3>4. origin <= head'
      BY <1>t, <2>c DEF IInv, ChainInv
    <3>. QED  BY <1>t, <2>c, <3>1, <3>2, <3>3, <3>4 DEF IInv, ChainInv
  <2>5. SearchInv'
    BY <2>c DEF IInv, SearchInv
  <2>6. Without({"reorg"})' => (CacheInv /\ CallInv)'
    <3>. SUFFICES ASSUME Without({"reorg"})'  PROVE (CacheInv /\ CallInv)'
      OBVIOUS
    <3>1. CacheInv /\ CallInv
      BY <2>c DEF IInv, Without
    <3>2. ASSUME NEW b, NEW q, Right(b, q)  PROVE Right(b, q)'
      BY <2>c, <3>2 DEF Right, Without
    <3>3. CacheInv'
      BY <2>c, <3>1, <3>2 DEF CacheInv
    <3>4. CallInv'
      <4>1. ASSUME f.pc = "search"
            PROVE  /\ f.right <= head' /\ f.target < id'[top']
                   /\ \A b \in 0 .. top' : b > f.right => id'[b] > f.target
                   /\ f.found # None => id'[f.found] <= f.target
        <5>1. f.target \in Nat /\ f.right \in Nat /\ f.left \in Nat /\ f.found \in Nat
          BY DEF IInv, TypeOK, Calls, Blocks, Proposals
        <5>2. /\ f.right <= head /\ f.target < id[top] /\ f.left <= f.right + 1
              /\ \A b \in 0 .. top : b > f.right => id[b] > f.target
              /\ f.found # None => f.found = f.left - 1 /\ id[f.found] <= f.target
          BY <4>1, <3>1 DEF CallInv
        <5>3. f.target < p
          BY <5>1, <5>2, <2>o, <1>t, <1>i
        <5>4. f.found # None => f.found \in 0 .. top
          BY <5>1, <5>2, <1>t
        <5>5. ASSUME NEW b \in 0 .. top + 1, b > f.right  PROVE id'[b] > f.target
          <6>1. CASE b \in 0 .. top
            BY <6>1, <5>5, <5>2, <2>i
          <6>2. CASE b = top + 1
            BY <6>2, <5>3, <2>i
          <6>. QED  BY <6>1, <6>2, <1>t
        <5>6. f.right <= head' /\ f.target < id'[top']
          BY <5>1, <5>2, <5>3, <1>t, <2>i, <2>c, SMTT(60)
        <5>7. f.found # None => id'[f.found] <= f.target
          BY <5>2, <5>4, <2>i
        <5>. QED  BY <5>5, <5>6, <5>7, <2>c
      <4>. QED  BY <2>c, <3>1, <3>2, <4>1 DEF CallInv
    <3>. QED  BY <3>3, <3>4
  <2>. QED  BY <2>1, <2>4, <2>5, <2>6 DEF IInv
<1>2. CASE Receive \/ Derive
  <2>c. /\ head' \in Nat /\ head <= head' /\ head' <= top
        /\ origin' \in Nat /\ origin <= origin' /\ origin' <= last[next - 1] /\ origin' <= head'
        /\ top' = top /\ id' = id /\ next' = next /\ last' = last
        /\ cache' = cache /\ f' = f /\ scenario' = scenario
    <3>1. last[next - 1] \in 0 .. top
      BY <1>t, <1>l DEF IInv, ChainInv
    <3>2. origin <= head /\ origin <= last[next - 1]
      BY DEF IInv, ChainInv
    <3>. QED  BY <1>2, <1>t, <3>1, <3>2 DEF Receive, Derive
  <2>1. TypeOK'
    <3>1. head' \in 0 .. top' /\ origin' \in 0 .. top'
      BY <1>t, <2>c
    <3>. QED  BY <3>1, <2>c DEF IInv, TypeOK
  <2>2. ChainInv'
    BY <1>t, <2>c DEF IInv, ChainInv, Without
  <2>3. SearchInv'
    BY <2>c DEF IInv, SearchInv
  <2>4. Without({"reorg"})' => (CacheInv /\ CallInv)'
    <3>1. f.safe \in Nat /\ f.right \in Nat
      BY DEF IInv, TypeOK, Calls, Blocks
    <3>2. CacheInv => CacheInv'
      BY <2>c DEF CacheInv, Right, Without
    <3>3. CallInv => CallInv'
      BY <1>t, <2>c, <3>1 DEF CallInv, Right, Without
    <3>. QED  BY <2>c, <3>2, <3>3 DEF IInv, Without
  <2>. QED  BY <2>1, <2>2, <2>3, <2>4 DEF IInv
<1>3. CASE Propose
  <2>p. PICK b \in (last[next - 1] + 1) .. top :
          /\ id[b] = next
          /\ \A c \in (b + 1) .. top : id[c] # next
          /\ last' = [last EXCEPT ![next] = b]
    BY <1>3 DEF Propose
  <2>c. /\ next \in 0 .. MaxProposal /\ next' = next + 1
        /\ top' = top /\ id' = id /\ head' = head /\ origin' = origin
        /\ cache' = cache /\ f' = f /\ scenario' = scenario
    BY <1>3 DEF Propose, Proposals
  <2>b. b \in 1 .. top /\ b > last[next - 1]
    <3>1. last[next - 1] \in Nat
      BY <1>t, <1>l
    <3>. QED  BY <3>1, <1>t
  <2>l. /\ last' \in [0 .. MaxProposal -> 0 .. MaxHeight]
        /\ \A q \in 0 .. next - 1 : last'[q] = last[q]
        /\ last'[next] = b
    BY <2>p, <2>c, <2>b, <1>t, <1>l
  <2>1. TypeOK'
    <3>1. next' \in 1 .. MaxProposal + 1
      BY <1>t, <2>c
    <3>2. last' \in [Proposals -> Blocks]
      BY <2>l DEF Proposals, Blocks
    <3>. QED  BY <3>1, <3>2, <2>c DEF IInv, TypeOK
  <2>2. ChainInv'
    <3>1. ASSUME NEW c \in 0 .. top, c > b  PROVE id[c] > next
      <4>1. id[c] # next
        BY <3>1, <2>p, <2>b, <1>t
      <4>2. id[b] <= id[c] /\ id[c] \in Nat /\ id[b] = next
        BY <3>1, <2>p, <2>b, <1>t, <1>i DEF IInv, ChainInv
      <4>. QED  BY <4>1, <4>2, <1>t
    <3>2. ASSUME NEW q \in 0 .. next
          PROVE  /\ last'[q] <= top
                 /\ id[last'[q]] = q
                 /\ \A c \in 0 .. top : c > last'[q] => id[c] > q
      <4>1. CASE q \in 0 .. next - 1
        BY <4>1, <2>l, <1>t DEF IInv, ChainInv
      <4>2. CASE q = next
        BY <4>2, <2>l, <2>b, <2>p, <3>1, <1>t
      <4>. QED  BY <4>1, <4>2, <1>t
    <3>3. last'[0] = 0
      BY <2>l, <1>t, SMTT(60) DEF IInv, ChainInv
    <3>4. origin <= last'[next]
      BY <2>l, <2>b, <1>t, <1>l DEF IInv, ChainInv
    <3>. QED  BY <1>t, <2>c, <3>2, <3>3, <3>4 DEF IInv, ChainInv, Without
  <2>3. SearchInv'
    BY <2>c DEF IInv, SearchInv
  <2>4. Without({"reorg"})' => (CacheInv /\ CallInv)'
    <3>. SUFFICES ASSUME Without({"reorg"})'  PROVE (CacheInv /\ CallInv)'
      OBVIOUS
    <3>1. CacheInv /\ CallInv
      BY <2>c DEF IInv, Without
    <3>2. ASSUME NEW d, NEW q \in 0 .. MaxProposal, Right(d, q)  PROVE Right(d, q)'
      BY <1>t, <2>c, <2>l, <3>2 DEF Right, Without
    <3>3. CacheInv'
      BY <2>c, <3>1, <3>2 DEF CacheInv, Proposals
    <3>4. f.target \in 0 .. MaxProposal
      BY DEF IInv, TypeOK, Calls, Proposals
    <3>5. CallInv'
      BY <1>t, <2>c, <3>1, <3>2, <3>4 DEF CallInv
    <3>. QED  BY <3>3, <3>5
  <2>. QED  BY <2>1, <2>2, <2>3, <2>4 DEF IInv
<1>4. CASE DropProposal
  <2>. DEFINE keep == last[next - 2]
  <2>c. /\ next > 1 /\ next' = next - 1
        /\ top' = keep
        /\ head' = IF head > keep THEN keep ELSE head
        /\ origin' = IF origin > keep THEN keep ELSE origin
        /\ last' = [last EXCEPT ![next - 1] = 0]
        /\ id' = [b \in Blocks |-> IF b > keep THEN 0 ELSE id[b]]
        /\ cache' = cache /\ f' = f /\ scenario' = scenario
        /\ ~Without({"reorg"})
    BY <1>4 DEF DropProposal
  <2>k. /\ keep \in 0 .. top /\ id[keep] = next - 2
        /\ \A c \in 0 .. top : c > keep => id[c] > next - 2
    BY <1>t, <1>l, <2>c, SMTT(60) DEF IInv, ChainInv
  <2>l. /\ last' \in [0 .. MaxProposal -> 0 .. MaxHeight]
        /\ \A q \in 0 .. next - 2 : last'[q] = last[q]
    BY <2>c, <1>t, <1>l, SMTT(60)
  <2>i. /\ id' \in [0 .. MaxHeight -> 0 .. MaxProposal]
        /\ \A b \in 0 .. keep : id'[b] = id[b]
    BY <2>c, <2>k, <1>t, <1>i, SMTT(60) DEF Blocks
  <2>h. /\ head' \in 0 .. keep /\ origin' \in 0 .. keep /\ origin' <= head'
        /\ head = top => head' = keep
    BY <2>c, <2>k, <1>t DEF IInv, ChainInv
  <2>. HIDE DEF keep
  <2>1. TypeOK'
    <3>1. /\ next' \in 1 .. MaxProposal + 1 /\ top' \in Blocks
          /\ head' \in 0 .. top' /\ origin' \in 0 .. top'
      BY <1>t, <2>c, <2>k, <2>h DEF Blocks
    <3>2. last' \in [Proposals -> Blocks] /\ id' \in [Blocks -> Proposals]
      BY <2>l, <2>i DEF Proposals, Blocks
    <3>3. cache' = cache /\ f' = f /\ scenario' = scenario
      BY <2>c
    <3>. QED  BY <3>1, <3>2, <3>3 DEF IInv, TypeOK
  <2>2. ChainInv'
    <3>1. ASSUME NEW q \in 0 .. next - 2
          PROVE  /\ last[q] \in 0 .. keep
                 /\ id[last[q]] = q
                 /\ \A c \in 0 .. keep : c > last[q] => id[c] > q
      <4>1. /\ last[q] \in 0 .. top /\ id[last[q]] = q
            /\ \A c \in 0 .. top : c > last[q] => id[c] > q
        BY <1>t, <1>l, <2>c DEF IInv, ChainInv
      <4>2. last[q] <= keep
        BY <4>1, <2>k, <1>t, <2>c
      <4>. QED  BY <4>1, <4>2, <2>k, <1>t
    <3>2. \A b, c \in 0 .. keep : b <= c => id'[b] <= id'[c]
      BY <2>i, <2>k, <1>t, SMTT(60) DEF IInv, ChainInv
    <3>3. ASSUME NEW q \in 0 .. next - 2
          PROVE  /\ last'[q] <= keep
                 /\ id'[last'[q]] = q
                 /\ \A c \in 0 .. keep : c > last'[q] => id'[c] > q
      <4>1. last'[q] = last[q] /\ last[q] \in 0 .. keep /\ id[last[q]] = q
        BY <3>1, <2>l
      <4>2. id'[last[q]] = q
        BY <4>1, <2>i
      <4>3. ASSUME NEW c \in 0 .. keep, c > last[q]  PROVE id'[c] > q
        BY <4>3, <3>1, <2>i
      <4>. QED  BY <4>1, <4>2, <4>3
    <3>4. last'[0] = 0
      BY <2>l, <2>c, <1>t DEF IInv, ChainInv
    <3>5. last'[next - 2] = keep
      BY <2>l, <2>c, <1>t DEF keep
    <3>6. Without({"late"})' => head' = keep
      BY <2>c, <2>h DEF IInv, ChainInv, Without
    <3>. QED  BY <1>t, <2>c, <2>k, <2>h, <3>2, <3>3, <3>4, <3>5, <3>6 DEF ChainInv
  <2>3. SearchInv'
    BY <2>c DEF IInv, SearchInv
  <2>4. ~Without({"reorg"})'
    BY <2>c DEF Without
  <2>. QED  BY <2>1, <2>2, <2>3, <2>4 DEF IInv
<1>. QED  BY <1>1, <1>2, <1>3, <1>4 DEF Chains

\* The steps of the finder leave the chains alone: what is to show is what
\* they do to the call and to the cache.
LEMMA FinderKeeps ==
    ASSUME IInv, Finder
    PROVE  IInv'
<1>. MaxHeight \in Nat /\ MaxProposal \in Nat
  BY FinderAssumption
<1>w. /\ top' = top /\ id' = id /\ head' = head /\ origin' = origin
      /\ next' = next /\ last' = last /\ scenario' = scenario
  BY DEF Finder, Get, CertainBlock, HeadL1Origin, SafeProposalId, LatestBlock, Probe,
         SearchEnds, Store, Return, Fails, world
<1>t. /\ top \in 0 .. MaxHeight /\ head \in 0 .. top /\ origin \in 0 .. top
      /\ next \in 1 .. MaxProposal + 1
  BY DEF IInv, TypeOK, Blocks, Proposals
<1>i. id \in [0 .. MaxHeight -> 0 .. MaxProposal]
  BY DEF IInv, TypeOK, Blocks, Proposals
<1>l. last \in [0 .. MaxProposal -> 0 .. MaxHeight]
  BY DEF IInv, TypeOK, Blocks, Proposals
<1>c. cache \in [0 .. MaxProposal -> 0 .. MaxHeight]
  BY DEF IInv, TypeOK, Blocks, Proposals
<1>f. /\ f \in Calls
      /\ f.target \in 0 .. MaxProposal /\ f.safe \in 0 .. MaxHeight
      /\ f.left \in 0 .. MaxHeight + 1 /\ f.right \in 0 .. MaxHeight /\ f.found \in 0 .. MaxHeight
  BY DEF IInv, TypeOK, Calls, Blocks, Proposals
<1>r. ASSUME NEW b, NEW p  PROVE Right(b, p)' <=> Right(b, p)
  BY <1>w DEF Right, Without
<1>1. ChainInv'
  BY <1>w DEF IInv, ChainInv, Without
<1>2. SUFFICES /\ f' \in Calls /\ cache' \in [Proposals -> Blocks]
               /\ SearchInv'
               /\ Without({"reorg"}) => CacheInv' /\ CallInv'
  BY <1>1, <1>w DEF IInv, TypeOK, Without
<1>3. cache' = cache => /\ cache' \in [Proposals -> Blocks]
                        /\ Without({"reorg"}) => CacheInv'
  BY <1>r DEF IInv, TypeOK, CacheInv
<1>4. Without({"reorg"}) => CacheInv /\ CallInv
  BY DEF IInv
<1>5. SearchInv
  BY DEF IInv
<1>6. CASE Get
  <2>1. cache' = cache
    BY <1>6 DEF Get
  <2>2. next - 1 \in 0 .. MaxProposal /\ cache[next - 1] \in 0 .. MaxHeight
    BY <1>t, <1>c
  <2>3. f' \in Calls
    <3>1. \/ f' = [Idle EXCEPT !.pc = "done", !.found = origin]
          \/ f' = [Idle EXCEPT !.pc = "done", !.target = next - 1, !.found = cache[next - 1]]
          \/ f' = [Idle EXCEPT !.pc = "certain", !.target = next - 1]
      BY <1>6 DEF Get
    <3>2. origin \in 0 .. MaxHeight
      BY <1>t
    <3>. QED  BY <3>1, <3>2, <2>2, IdleType, ZenonT(60) DEF Calls, Blocks, Proposals
  <2>4. SearchInv'
    BY <1>6 DEF Get, SearchInv, Idle
  <2>5. ASSUME CacheInv  PROVE CallInv'
    <3>1. CASE next = 1
      <4>1. Right(origin, 0)
        BY <3>1, <1>t DEF Right, IInv, ChainInv
      <4>. QED  BY <1>6, <3>1, <4>1, <1>r, <1>w DEF Get, CallInv, Idle
    <3>2. CASE next # 1 /\ cache[next - 1] # 0
      <4>1. Right(cache[next - 1], next - 1)
        BY <3>2, <2>2, <2>5 DEF CacheInv, Proposals
      <4>. QED  BY <1>6, <1>t, <3>2, <4>1, <1>r, <1>w DEF Get, CallInv, Idle
    <3>3. CASE next # 1 /\ cache[next - 1] = 0
      BY <1>6, <1>t, <3>3, <1>w DEF Get, CallInv, Idle
    <3>. QED  BY <3>1, <3>2, <3>3
  <2>. QED  BY <1>3, <1>4, <2>1, <2>3, <2>4, <2>5
<1>7. CASE CertainBlock
  <2>1. cache' = cache
    BY <1>7 DEF CertainBlock
  <2>2. last[f.target] \in 0 .. MaxHeight
    BY <1>f, <1>l
  <2>3. f' \in Calls
    BY <1>7, <1>f, <2>2 DEF CertainBlock, Calls, Blocks, Proposals
  <2>4. SearchInv'
    BY <1>7, <1>f DEF CertainBlock, SearchInv, Calls
  <2>5. ASSUME CallInv  PROVE CallInv'
    <3>1. f.target < next
      BY <1>7, <2>5 DEF CertainBlock, CallInv
    <3>2. Right(last[f.target], f.target)
      BY <3>1, <2>2 DEF Right
    <3>3. CASE f' = [f EXCEPT !.pc = "store", !.found = last[f.target], !.safeId = f.target]
      BY <3>1, <3>2, <3>3, <1>f, <1>r, <1>w DEF CallInv, Calls
    <3>4. CASE f' = [f EXCEPT !.pc = "origin"]
      BY <3>1, <3>4, <1>7, <2>5, <1>f, <1>w DEF CertainBlock, CallInv, Calls
    <3>. QED  BY <1>7, <3>3, <3>4 DEF CertainBlock
  <2>. QED  BY <1>3, <1>4, <2>1, <2>3, <2>4, <2>5
<1>8. CASE HeadL1Origin \/ SafeProposalId
  <2>1. cache' = cache
    BY <1>8 DEF HeadL1Origin, SafeProposalId
  <2>2. f' \in Calls
    <3>1. CASE HeadL1Origin
      <4>1. origin \in 0 .. MaxHeight
        BY <1>t
      <4>. QED  BY <3>1, <4>1, <1>f DEF HeadL1Origin, Calls, Blocks
    <3>2. CASE SafeProposalId
      <4>1. id[f.safe] \in 0 .. MaxProposal
        BY <1>f, <1>i
      <4>. QED  BY <3>2, <4>1, <1>f DEF SafeProposalId, Calls, Proposals
    <3>. QED  BY <1>8, <3>1, <3>2
  <2>3. SearchInv'
    BY <1>8, <1>f DEF HeadL1Origin, SafeProposalId, SearchInv, Calls
  <2>4. ASSUME CallInv  PROVE CallInv'
    <3>1. CASE HeadL1Origin
      <4>1. f.pc = "origin" /\ f' = [f EXCEPT !.pc = "safe", !.safe = origin]
        BY <3>1 DEF HeadL1Origin
      <4>. QED  BY <4>1, <2>4, <1>f, <1>t, <1>w DEF CallInv, Calls
    <3>2. CASE SafeProposalId
      <4>1. f.pc = "safe" /\ f' = [f EXCEPT !.pc = "latest", !.safeId = id[f.safe]]
        BY <3>2 DEF SafeProposalId
      <4>. QED  BY <4>1, <2>4, <1>f, <1>w DEF CallInv, Calls
    <3>. QED  BY <1>8, <3>1, <3>2
  <2>. QED  BY <1>3, <1>4, <2>1, <2>2, <2>3, <2>4
<1>9. CASE LatestBlock
  <2>1. cache' = cache
    BY <1>9 DEF LatestBlock
  <2>2. id[head] \in 0 .. MaxProposal
    BY <1>t, <1>i
  <2>3. f' \in Calls
    <3>1. \/ f' = [f EXCEPT !.pc = "store", !.found = head]
          \/ f' = Idle
          \/ f' = [f EXCEPT !.pc = "search", !.left = f.safe + 1, !.right = head]
      BY <1>9 DEF LatestBlock
    <3>2. head \in 0 .. MaxHeight /\ f.safe + 1 \in 0 .. MaxHeight + 1
      BY <1>t, <1>f
    <3>. QED  BY <3>1, <3>2, <1>f, IdleType, ZenonT(60) DEF Calls, Blocks, Proposals
  <2>4. SearchInv'
    BY <1>9, <1>f DEF LatestBlock, SearchInv, Calls, Idle
  <2>5. ASSUME CallInv  PROVE CallInv'
    <3>1. f.pc = "latest" /\ f.target < next /\ f.safe <= origin /\ origin <= head
      BY <1>9, <2>5 DEF LatestBlock, CallInv, IInv, ChainInv
    <3>2. CASE id[head] = f.target
      <4>1. Right(head, f.target)
        <5>1. /\ last[f.target] \in 0 .. top
              /\ \A b \in 0 .. top : b > last[f.target] => id[b] > f.target
              /\ Without({"late"}) => head = top
          BY <3>1, <1>t, <1>f, <1>l, SMTT(60) DEF IInv, ChainInv
        <5>2. head <= last[f.target]
          BY <5>1, <3>2, <1>t, <1>f
        <5>. QED  BY <5>1, <5>2, <3>1, <1>t DEF Right
      <4>. QED  BY <1>9, <3>1, <3>2, <4>1, <1>f, <1>r, <1>w DEF LatestBlock, CallInv, Calls
    <3>3. CASE id[head] # f.target /\ (f.target < f.safeId \/ f.target > id[head])
      BY <1>9, <3>3 DEF LatestBlock, CallInv, Idle
    <3>4. CASE id[head] # f.target /\ ~(f.target < f.safeId \/ f.target > id[head])
      <4>1. f' = [f EXCEPT !.pc = "search", !.left = f.safe + 1, !.right = head]
        BY <1>9, <3>4 DEF LatestBlock
      <4>2. f.target < id[head]
        BY <3>4, <1>f, <2>2
      <4>3. \A b \in 0 .. top : b >= head => id[b] > f.target
        <5>1. \A b \in 0 .. top : b >= head => id[b] >= id[head]
          BY <1>t DEF IInv, ChainInv
        <5>2. \A b \in 0 .. top : id[b] \in Nat
          BY <1>t, <1>i
        <5>. QED  BY <5>1, <5>2, <4>2, <1>f, <2>2
      <4>4. /\ f'.pc = "search" /\ f'.target = f.target /\ f'.safe = f.safe
            /\ f'.left = f.safe + 1 /\ f'.right = head /\ f'.found = None
        BY <3>1, <4>1, <1>f, <2>5 DEF CallInv, Calls
      <4>5. id[top] > f.target
        BY <4>3, <1>t
      <4>. QED  BY <3>1, <4>3, <4>4, <4>5, <1>f, <1>t, <1>w DEF CallInv
    <3>. QED  BY <3>2, <3>3, <3>4
  <2>. QED  BY <1>3, <1>4, <2>1, <2>3, <2>4, <2>5
<1>10. CASE Probe
  <2>1. /\ cache' = cache
        /\ f.pc = "search" /\ f.left <= f.right
    BY <1>10 DEF Probe
  <2>2. Middle \in Nat /\ f.left <= Middle /\ Middle <= f.right
    BY <2>1, <1>f DEF Middle
  <2>3. 1 <= f.left
    BY <2>1, <1>5 DEF SearchInv
  <2>4. \/ /\ id[Middle] <= f.target
           /\ f' = [f EXCEPT !.found = Middle, !.left = Middle + 1]
        \/ /\ ~(id[Middle] <= f.target)
           /\ f' = [f EXCEPT !.right = Middle - 1]
    BY <1>10 DEF Probe
  <2>. HIDE DEF Middle
  <2>5. f' \in Calls
    <3>1. /\ Middle \in 0 .. MaxHeight /\ Middle + 1 \in 0 .. MaxHeight + 1
          /\ Middle - 1 \in 0 .. MaxHeight
      BY <2>2, <2>3, <1>f
    <3>. QED  BY <2>4, <3>1, <1>f, ZenonT(60) DEF Calls, Blocks, Proposals
  <2>6. SearchInv'
    <3>1. f'.left \in {f.left, Middle + 1}
      BY <2>4, <1>f DEF Calls
    <3>. QED  BY <3>1, <2>2, <2>3, <1>f DEF SearchInv
  <2>7. ASSUME CallInv  PROVE CallInv'
    <3>1. /\ f.target < next /\ f.safe <= origin /\ f.right <= head /\ f.target < id[top]
          /\ \A b \in 0 .. top : b > f.right => id[b] > f.target
          /\ f.found # None => f.found = f.left - 1 /\ id[f.found] <= f.target
          /\ f.left <= f.right + 1
      BY <2>1, <2>7 DEF CallInv
    <3>2. Middle \in 0 .. top /\ id[Middle] \in 0 .. MaxProposal
      <4>1. Middle \in 0 .. top /\ Middle \in 0 .. MaxHeight
        BY <2>2, <3>1, <1>f, <1>t
      <4>. QED  BY <4>1, <1>i
    <3>3. CASE id[Middle] <= f.target
      <4>1. f' = [f EXCEPT !.found = Middle, !.left = Middle + 1]
        BY <3>3, <2>4
      <4>2. /\ f'.pc = "search" /\ f'.target = f.target /\ f'.safe = f.safe
            /\ f'.right = f.right /\ f'.left = Middle + 1 /\ f'.found = Middle
        BY <4>1, <2>1, <1>f DEF Calls
      <4>. QED  BY <4>2, <3>1, <3>2, <3>3, <2>2, <1>f, <1>w DEF CallInv
    <3>4. CASE ~(id[Middle] <= f.target)
      <4>1. f' = [f EXCEPT !.right = Middle - 1]
        BY <3>4, <2>4
      <4>2. \A b \in 0 .. top : b > Middle - 1 => id[b] > f.target
        <5>1. \A b \in 0 .. top : b >= Middle => id[b] >= id[Middle]
          BY <3>2 DEF IInv, ChainInv
        <5>. QED  BY <5>1, <3>2, <3>4, <2>2, <1>f, <1>t, <1>i, SMTT(60)
      <4>3. /\ f'.pc = "search" /\ f'.target = f.target /\ f'.safe = f.safe
            /\ f'.right = Middle - 1 /\ f'.left = f.left /\ f'.found = f.found
        BY <4>1, <2>1, <1>f DEF Calls
      <4>. QED  BY <4>2, <4>3, <3>1, <3>2, <2>2, <2>3, <1>f, <1>t, <1>w DEF CallInv
    <3>. QED  BY <3>3, <3>4
  <2>. QED  BY <1>3, <1>4, <2>1, <2>5, <2>6, <2>7
<1>11. CASE SearchEnds
  <2>1. /\ cache' = cache
        /\ f.pc = "search" /\ f.left > f.right
        /\ f' = IF f.found = None THEN Idle ELSE [f EXCEPT !.pc = "store"]
    BY <1>11 DEF SearchEnds
  <2>2. f' \in Calls
    BY <2>1, <1>f DEF Calls, Idle, Blocks, Proposals, None
  <2>3. SearchInv'
    BY <2>1, <1>f DEF SearchInv, Calls, Idle
  <2>4. ASSUME CallInv  PROVE CallInv'
    <3>1. CASE f.found = None
      BY <3>1, <2>1 DEF CallInv, Idle
    <3>2. CASE f.found # None
      <4>1. /\ f.target < next
            /\ f.found = f.right /\ f.right <= head /\ id[f.found] <= f.target
            /\ \A b \in 0 .. top : b > f.right => id[b] > f.target
        BY <3>2, <2>1, <2>4, <1>f DEF CallInv
      <4>2. /\ last[f.target] \in 0 .. top /\ id[last[f.target]] = f.target
            /\ \A b \in 0 .. top : b > last[f.target] => id[b] > f.target
        BY <4>1, <1>f, <1>t, <1>l, SMTT(60) DEF IInv, ChainInv
      <4>3. f.found <= last[f.target]   \* else id[f.found] > f.target
        <5>1. f.found \in 0 .. top /\ id[f.found] \in Nat /\ f.target \in Nat
          BY <4>1, <1>f, <1>t, <1>i, SMTT(60)
        <5>. QED  BY <4>1, <4>2, <5>1
      <4>4. last[f.target] <= f.found
        BY <4>1, <4>2, <1>f, <1>t
      <4>5. Right(f.found, f.target)
        BY <4>1, <4>2, <4>3, <4>4, <1>f DEF Right
      <4>. QED  BY <2>1, <3>2, <4>1, <4>5, <1>f, <1>r, <1>w DEF CallInv, Calls
    <3>. QED  BY <3>1, <3>2
  <2>. QED  BY <1>3, <1>4, <2>1, <2>2, <2>3, <2>4
<1>12. CASE Store
  <2>1. /\ f.pc = "store"
        /\ f' = [f EXCEPT !.pc = "done"]
        /\ cache' = [p \in Proposals |-> IF p = f.target THEN f.found
                                         ELSE IF p < f.safeId THEN 0 ELSE cache[p]]
    BY <1>12 DEF Store
  <2>2. f' \in Calls
    BY <2>1, <1>f DEF Calls
  <2>3. SearchInv'
    BY <2>1, <1>f DEF SearchInv, Calls
  <2>4. cache' \in [Proposals -> Blocks]
    BY <2>1, <1>f, <1>c DEF Blocks, Proposals
  <2>5. ASSUME CacheInv, CallInv  PROVE CacheInv' /\ CallInv'
    <3>1. f.target < next /\ Right(f.found, f.target)
      BY <2>1, <2>5 DEF CallInv
    <3>2. CallInv'
      BY <2>1, <3>1, <1>f, <1>r, <1>w DEF CallInv, Calls
    <3>3. CacheInv'
      <4>. SUFFICES ASSUME NEW p \in Proposals, cache'[p] # 0  PROVE Right(cache'[p], p)
        BY <1>r DEF CacheInv
      <4>1. \/ p = f.target /\ cache'[p] = f.found
            \/ cache'[p] = cache[p]
        BY <2>1
      <4>. QED  BY <4>1, <3>1, <2>5 DEF CacheInv
    <3>. QED  BY <3>2, <3>3
  <2>. QED  BY <1>4, <2>2, <2>3, <2>4, <2>5
<1>13. CASE Return \/ Fails
  <2>1. cache' = cache /\ f' = Idle
    BY <1>13 DEF Return, Fails
  <2>2. Idle \in Calls
    BY DEF Calls, Idle, Blocks, Proposals, None
  <2>. QED  BY <1>3, <1>4, <2>1, <2>2 DEF SearchInv, CallInv, Idle
<1>. QED
  BY <1>6, <1>7, <1>8, <1>9, <1>10, <1>11, <1>12, <1>13 DEF Finder

LEMMA Stutter ==
    ASSUME IInv, UNCHANGED vars
    PROVE  IInv'
BY DEF vars, world, IInv, TypeOK, ChainInv, SearchInv, CacheInv, CallInv, Right, Without

LEMMA Inductive == Spec => []IInv
<1>1. IInv /\ [Next]_vars => IInv'
  BY ChainsKeep, FinderKeeps, Stutter DEF Next
<1>. QED  BY <1>1, Initially, PTL DEF Spec

\* LastSafeL2BlockFinder::get answers with the last block of the newest
\* proposal of the inbox, for chains of any length and any interleaving of
\* its calls with new blocks, proposals and derivations.
THEOREM AnswerIsLast == Spec => []FoundIsLast
<1>1. IInv => FoundIsLast
  BY DEF IInv, CallInv, Right, FoundIsLast, Without
<1>. QED  BY <1>1, Inductive, PTL

\* Not even behind a Taiko Geth that receives blocks late does get report a
\* block as proposed that the inbox does not have.
THEOREM AnswerIsProposed == Spec => []FoundIsProposed
<1>1. IInv => FoundIsProposed
  BY DEF IInv, CallInv, Right, FoundIsProposed, Without
<1>. QED  BY <1>1, Inductive, PTL
=============================================================================
