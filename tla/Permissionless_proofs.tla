----------------------- MODULE Permissionless_proofs -----------------------
(***************************************************************************)
(* The blocks of a permissionless node, for any number of iterations,      *)
(* blocks and blocks in a proposal: the driver receives one commitment to  *)
(* a number, and the blocks reach L1 in the order of their numbers.        *)
(***************************************************************************)
EXTENDS Process_proofs, TLAPS

-----------------------------------------------------------------------------
(* The blocks of a permissionless node.                                    *)

Nodes == [pc : {"idle", "step"}, parent : Nat, busy : BOOLEAN, error : {"none", "fatal", "late"},
          queue : Seq(Seq(Nat)), pending : BOOLEAN, current : Seq(Nat), counter : Nat]

Increasing(s) == \A j, k \in 1 .. Len(s) : j < k => s[j] < s[k]
UpTo(s, n) == \A k \in 1 .. Len(s) : s[k] <= n
Below(s, t) == \A j \in 1 .. Len(s), k \in 1 .. Len(t) : s[j] < t[k]

\* The proposals that a node holds.
Held(n) == {n.current} \cup {n.queue[k] : k \in 1 .. Len(n.queue)}

(***************************************************************************)
(* geth has every block of the driver, and so the block of the step that   *)
(* is under way is the next one.  A node hands over one proposal in its    *)
(* life, the first one it made: so what is on L1 or in flight is from this *)
(* node's first proposal or from the nodes before it, and below all that   *)
(* it holds.                                                               *)
(***************************************************************************)
BlockInv ==
    /\ geth = driver
    /\ \A i \in Iter : Ahead(i) => node[i] = NewNode /\ sent[i] = <<>>
    /\ \A i \in Iter : "loop" \in tasks[i] /\ node[i].pc = "step" => node[i].parent = driver
    /\ Increasing(commits) /\ UpTo(commits, driver)
    /\ \A i \in Iter : \A s \in Held(node[i]) : Increasing(s) /\ UpTo(s, driver)
    /\ \A i \in Iter : /\ Increasing(sent[i]) /\ UpTo(sent[i], driver)
                       /\ sent[i] # <<>> => node[i].pending
                       /\ Below(proposed, sent[i])
    /\ \A i, j \in Iter : i < j => \A s \in Held(node[j]) : Below(sent[i], s)
    /\ Increasing(proposed) /\ UpTo(proposed, driver)
    /\ ~node[sup.iter].pending => \A s \in Held(node[sup.iter]) : Below(proposed, s)

Blocks ==
    /\ node \in [Iter -> Nodes] /\ sent \in [Iter -> Seq(Nat)]
    /\ driver \in Nat /\ geth \in Nat /\ commits \in Seq(Nat) /\ proposed \in Seq(Nat)

LoopInv ==
    /\ Blocks
    /\ Shasta => commits = <<>> /\ proposed = <<>>
    /\ ~Shasta /\ Without({"lag", "slow"}) => BlockInv

\* What changing the proposals of a node leaves alone.
Keeps(n, f) ==
    /\ f \in Nodes /\ f.pending = n.pending /\ f.parent = n.parent /\ f.busy = n.busy
    /\ Held(f) \subseteq Held(n) \cup {<<>>}

\* Finalizing the current proposal moves it to the queue.
LEMMA FinalizedKeeps ==
    ASSUME NEW n \in Nodes
    PROVE  Keeps(n, Finalized(n))
<1>1. CASE n.current = <<>>
  BY <1>1 DEF Finalized, Keeps
<1>2. CASE n.current # <<>>
  <2> DEFINE q == Append(n.queue, n.current)
             f == [n EXCEPT !.queue = q, !.current = <<>>]
  <2>1. n.queue \in Seq(Seq(Nat)) /\ n.current \in Seq(Nat)
    BY DEF Nodes
  <2>2. /\ q \in Seq(Seq(Nat)) /\ Len(q) = Len(n.queue) + 1 /\ Len(n.queue) \in Nat
        /\ \A k \in 1 .. Len(n.queue) : q[k] = n.queue[k]
        /\ q[Len(n.queue) + 1] = n.current
    BY <2>1
  <2>3. Finalized(n) = f
    BY <1>2 DEF Finalized
  <2> HIDE DEF q
  <2>4. <<>> \in Seq(Nat)
    OBVIOUS
  <2>5. /\ f \in Nodes /\ f.pending = n.pending /\ f.parent = n.parent /\ f.busy = n.busy
        /\ f.queue = q /\ f.current = <<>>
    BY <2>2, <2>4 DEF Nodes
  <2> HIDE DEF f
  <2>6. ASSUME NEW k \in 1 .. Len(q) PROVE q[k] \in Held(n)
    <3>1. k \in 1 .. Len(n.queue) \/ k = Len(n.queue) + 1
      BY <2>2
    <3>2. CASE k \in 1 .. Len(n.queue)
      BY <2>2, <3>2 DEF Held
    <3>3. CASE k = Len(n.queue) + 1
      BY <2>2, <3>3 DEF Held
    <3>. QED  BY <3>1, <3>2, <3>3
  <2>7. Held(f) \subseteq Held(n) \cup {<<>>}
    BY <2>5, <2>6 DEF Held
  <2>. QED  BY <2>3, <2>5, <2>7 DEF Keeps
<1>. QED  BY <1>1, <1>2

\* Making room for a block does no more.
LEMMA RoomKeeps ==
    ASSUME NEW n \in Nodes
    PROVE  Keeps(n, RoomForBlock(n))
<1>1. Keeps(n, n)
  BY DEF Keeps
<1>. QED  BY <1>1, FinalizedKeeps DEF RoomForBlock

\* The next block is appended to a proposal.
LEMMA WithBlockHolds ==
    ASSUME NEW n \in Nodes
    PROVE  LET w == WithBlock(n)
           IN /\ w \in Nodes /\ w.pending = n.pending /\ w.busy = n.busy
              /\ \A s \in Held(w) : \/ s \in Held(n) \cup {<<>>}
                                    \/ \E c \in Held(n) \cup {<<>>} : s = Append(c, n.parent + 1)
<1> DEFINE r == RoomForBlock(n)
           c == Append(r.current, n.parent + 1)
           w == [r EXCEPT !.current = c]
<1>1. Keeps(n, r)
  BY RoomKeeps
<1>2. WithBlock(n) = w
  BY DEF WithBlock
<1> HIDE DEF r
<1>3. r \in Nodes /\ r.current \in Seq(Nat) /\ n.parent + 1 \in Nat /\ r.current \in Held(r)
  BY <1>1 DEF Keeps, Nodes, Held
<1>4. c \in Seq(Nat)
  BY <1>3
<1> HIDE DEF c
<1>5. w \in Nodes /\ w.pending = r.pending /\ w.busy = r.busy /\ w.queue = r.queue /\ w.current = c
  BY <1>3, <1>4 DEF Nodes
<1> HIDE DEF w
<1>6. Held(w) \subseteq Held(r) \cup {c}
  BY <1>5 DEF Held
<1>7. ASSUME NEW s \in Held(w)
      PROVE  \/ s \in Held(n) \cup {<<>>}
             \/ \E d \in Held(n) \cup {<<>>} : s = Append(d, n.parent + 1)
  BY <1>1, <1>3, <1>6 DEF Keeps, c
<1>. QED  BY <1>1, <1>2, <1>5, <1>7 DEF Keeps

\* The ends of a step.
LEMMA Ends ==
    ASSUME node \in [Iter -> Nodes], NEW i \in Iter, NEW n \in Nodes,
           Succeeds(i, n) \/ Errs(i, n)
    PROVE  \E r \in Nodes : /\ node' = [node EXCEPT ![i] = r] /\ r.pc = "idle"
                            /\ r.pending = n.pending /\ Held(r) = Held(n)
<1>1. CASE Succeeds(i, n)
  <2> DEFINE r == [n EXCEPT !.pc = "idle", !.error = "none", !.counter = 0]
  <2>1. node' = [node EXCEPT ![i] = r]
    BY <1>1 DEF Succeeds
  <2>2. /\ r \in Nodes /\ r.pc = "idle" /\ r.pending = n.pending
        /\ r.queue = n.queue /\ r.current = n.current
    BY DEF Nodes
  <2> HIDE DEF r
  <2>3. Held(r) = Held(n)
    BY <2>2 DEF Held
  <2>. QED  BY <2>1, <2>2, <2>3
<1>2. CASE Errs(i, n)
  <2> DEFINE c == Increment(n.counter)
             r == [n EXCEPT !.pc = "idle", !.error = "none", !.counter = c]
  <2>1. node' = [node EXCEPT ![i] = r]
    BY <1>2 DEF Errs
  <2>1a. c \in Nat
    BY DEF Nodes, Increment
  <2> HIDE DEF c
  <2>2. /\ r \in Nodes /\ r.pc = "idle" /\ r.pending = n.pending
        /\ r.queue = n.queue /\ r.current = n.current
    BY <2>1a DEF Nodes
  <2> HIDE DEF r
  <2>3. Held(r) = Held(n)
    BY <2>2 DEF Held
  <2>. QED  BY <2>1, <2>2, <2>3
<1>. QED  BY <1>1, <1>2

\* A step hands over at most one of the proposals of a node, and none after it.
Submits(i, n) ==
    \E r \in Nodes :
        /\ node' = [node EXCEPT ![i] = r] /\ r.pc = "idle"
        /\ Held(r) \subseteq Held(n) \cup {<<>>}
        /\ \/ sent' = sent /\ r.pending = n.pending
           \/ /\ ~n.pending /\ r.pending
              /\ \E s \in Held(n) \cup {<<>>} : s \in Seq(Nat) /\ sent' = [sent EXCEPT ![i] = s]

\* Handing over the front of the queue.
LEMMA SubmitsOldest ==
    ASSUME node \in [Iter -> Nodes], sent \in [Iter -> Seq(Nat)], NEW i \in Iter, NEW n \in Nodes,
           SubmitOldest(i, n)
    PROVE  Submits(i, n)
<1>0. Keeps(n, n)
  BY DEF Keeps
<1>1. CASE n.busy
  <2>1. Succeeds(i, n) /\ sent' = sent
    BY <1>1 DEF SubmitOldest
  <2>. QED  BY <2>1, Ends DEF Submits
<1>2. CASE ~n.busy
  <2>1. PICK old \in BOOLEAN :
          LET f == IF Full(n) \/ old THEN Finalized(n) ELSE n
          IN IF f.queue = <<>> THEN Succeeds(i, f) /\ UNCHANGED sent
             ELSE IF f.pending THEN Errs(i, f) /\ UNCHANGED sent
             ELSE \/ /\ Succeeds(i, [f EXCEPT !.pending = TRUE])
                     /\ sent' = [sent EXCEPT ![i] = Head(f.queue)]
                  \/ ~Without({"rpc"}) /\ Errs(i, f) /\ UNCHANGED sent
    BY <1>2 DEF SubmitOldest
  <2> DEFINE f == IF Full(n) \/ old THEN Finalized(n) ELSE n
  <2>2. Keeps(n, f)
    BY <1>0, FinalizedKeeps
  <2>3. \/ (Succeeds(i, f) \/ Errs(i, f)) /\ sent' = sent
        \/ /\ f.queue # <<>> /\ ~f.pending
           /\ Succeeds(i, [f EXCEPT !.pending = TRUE])
           /\ sent' = [sent EXCEPT ![i] = Head(f.queue)]
    BY <2>1
  <2> HIDE DEF f
  <2>4. f \in Nodes /\ f.pending = n.pending /\ Held(f) \subseteq Held(n) \cup {<<>>}
    BY <2>2 DEF Keeps
  <2>5. CASE (Succeeds(i, f) \/ Errs(i, f)) /\ sent' = sent
    BY <2>4, <2>5, Ends DEF Submits
  <2>6. CASE /\ f.queue # <<>> /\ ~f.pending
             /\ Succeeds(i, [f EXCEPT !.pending = TRUE])
             /\ sent' = [sent EXCEPT ![i] = Head(f.queue)]
    <3> DEFINE g == [f EXCEPT !.pending = TRUE]
               s == Head(f.queue)
    <3>1. g \in Nodes /\ g.pending = TRUE /\ g.queue = f.queue /\ g.current = f.current
      BY <2>4 DEF Nodes
    <3>2. f.queue \in Seq(Seq(Nat)) /\ f.queue # <<>>
      BY <2>4, <2>6 DEF Nodes
    <3>3. s \in Seq(Nat) /\ s = f.queue[1] /\ 1 \in 1 .. Len(f.queue)
      BY <3>2
    <3> HIDE DEF g, s
    <3>4. s \in Held(f) /\ Held(g) = Held(f)
      BY <3>1, <3>3 DEF Held
    <3>5. Succeeds(i, g) /\ sent' = [sent EXCEPT ![i] = s] /\ ~f.pending
      BY <2>6 DEF g, s
    <3>6. PICK r \in Nodes : /\ node' = [node EXCEPT ![i] = r] /\ r.pc = "idle"
                             /\ r.pending = g.pending /\ Held(r) = Held(g)
      BY <3>1, <3>5, Ends
    <3>7. ~n.pending /\ r.pending = TRUE /\ s \in Held(n) \cup {<<>>}
          /\ Held(r) \subseteq Held(n) \cup {<<>>}
      BY <2>4, <3>1, <3>4, <3>5, <3>6
    <3>. QED  BY <3>3, <3>5, <3>6, <3>7 DEF Submits
  <2>. QED  BY <2>3, <2>5, <2>6
<1>3. n.busy \in BOOLEAN
  BY DEF Nodes
<1>. QED  BY <1>1, <1>2

\* What the loop of iteration i holds at the end of a step, without a new block and with one.
Old(i) == Held(node[i]) \cup {<<>>}
New(i) == Old(i) \cup {Append(c, node[i].parent + 1) : c \in Old(i)}

\* A step of the loop of iteration i that leaves no other proposals than those of H.
Steps(i, H) ==
    \E r \in Nodes :
        /\ node' = [node EXCEPT ![i] = r]
        /\ Held(r) \subseteq H
        /\ r.pc = "step" => r.parent = geth /\ UNCHANGED <<geth, driver>>
        /\ \/ sent' = sent /\ r.pending = node[i].pending
           \/ /\ ~node[i].pending /\ r.pending
              /\ \E s \in H : s \in Seq(Nat) /\ sent' = [sent EXCEPT ![i] = s]

\* Handing over and ending are steps of the node.
LEMMA SubmitsIsStep ==
    ASSUME NEW i \in Iter, NEW n, NEW H, Submits(i, n), Held(n) \cup {<<>>} \subseteq H,
           n.pending = node[i].pending
    PROVE  Steps(i, H)
BY DEF Submits, Steps

\* The end of a step.
LEMMA EndsIsStep ==
    ASSUME node \in [Iter -> Nodes], NEW i \in Iter, NEW n \in Nodes,
           Succeeds(i, n) \/ Errs(i, n), sent' = sent, Keeps(node[i], n)
    PROVE  Steps(i, Old(i))
BY Ends DEF Steps, Keeps, Old

\* A step of the loop leaves the driver alone, or publishes one block.
LEMMA LoopCases ==
    ASSUME Blocks, NEW i \in Iter, LoopSteps(i)
    PROVE  \/ UNCHANGED loopVars
           \/ Runs(i) /\ UNCHANGED <<geth, driver, commits, proposed>> /\ Steps(i, Old(i))
           \/ /\ Runs(i) /\ node[i].pc = "step" /\ Publish(i) /\ UNCHANGED proposed
              /\ Steps(i, New(i))
<1>0. /\ node \in [Iter -> Nodes] /\ sent \in [Iter -> Seq(Nat)] /\ node[i] \in Nodes
      /\ geth \in Nat
  BY DEF Blocks
<1>0a. Keeps(node[i], node[i])
  BY <1>0 DEF Keeps
<1>1. CASE LoopEnds(i)
  BY <1>1 DEF LoopEnds
<1>2. CASE ReadSlot(i)
  <2> DEFINE n == node[i]
             b == sent[i] # <<>>
             r == [n EXCEPT !.pc = "step", !.parent = geth, !.busy = b]
  <2>1. node' = [node EXCEPT ![i] = r] /\ UNCHANGED <<geth, driver, commits, proposed, sent>>
    BY <1>0, <1>2 DEF ReadSlot
  <2>2. n \in Nodes /\ b \in BOOLEAN
    BY <1>0
  <2> HIDE DEF b, n
  <2>3. /\ r \in Nodes /\ r.pending = n.pending /\ r.queue = n.queue /\ r.current = n.current
        /\ r.parent = geth
    BY <1>0, <2>2 DEF Nodes
  <2> HIDE DEF r
  <2>4. Held(r) \subseteq Old(i)
    BY <2>3 DEF Held, Old, n
  <2>. QED  BY <1>2, <2>1, <2>3, <2>4 DEF ReadSlot, Steps, n
<1>3. CASE ReadSlotFails(i)
  BY <1>0, <1>0a, <1>3, EndsIsStep DEF ReadSlotFails
<1>4. CASE HandleError(i)
  <2> DEFINE n == node[i]
             c == Increment(n.counter)
             r == [n EXCEPT !.pc = "idle", !.error = "none", !.counter = c]
  <2>1. node' = [node EXCEPT ![i] = r] /\ UNCHANGED <<geth, driver, commits, proposed, sent>>
    BY <1>0, <1>4 DEF HandleError
  <2>2. n \in Nodes /\ c \in Nat
    BY <1>0 DEF Nodes, Increment
  <2> HIDE DEF c, n
  <2>3. /\ r \in Nodes /\ r.pending = n.pending /\ r.queue = n.queue /\ r.current = n.current
        /\ r.pc = "idle"
    BY <2>2 DEF Nodes
  <2> HIDE DEF r
  <2>4. Held(r) \subseteq Old(i)
    BY <2>3 DEF Held, Old, n
  <2>. QED  BY <1>4, <2>1, <2>3, <2>4 DEF HandleError, Steps, n
<1>5. CASE Preconfirm(i)
  <2> DEFINE n == node[i]
             w == WithBlock(n)
  <2>1. /\ w \in Nodes /\ w.pending = n.pending
        /\ \A s \in Held(w) : \/ s \in Held(n) \cup {<<>>}
                              \/ \E c \in Held(n) \cup {<<>>} : s = Append(c, n.parent + 1)
    BY <1>0, WithBlockHolds
  <2>2. SubmitOldest(i, w)
    BY <1>5 DEF Preconfirm
  <2> HIDE DEF w
  <2>3. Held(w) \cup {<<>>} \subseteq New(i)
    BY <2>1 DEF New, Old
  <2>4. Steps(i, New(i))
    BY <1>0, <2>1, <2>2, <2>3, SubmitsOldest, SubmitsIsStep
  <2>. QED  BY <1>5, <2>4 DEF Preconfirm
<1>6. CASE NoBlockWanted(i)
  <2>1. Steps(i, Old(i))
    BY <1>0, <1>6, SubmitsOldest, SubmitsIsStep DEF NoBlockWanted, Old
  <2>. QED  BY <1>6, <2>1 DEF NoBlockWanted
<1>7. CASE NotPreconfer(i)
  BY <1>0, <1>0a, <1>7, EndsIsStep DEF NotPreconfer
<1>8. CASE PublishFails(i)
  <2>1. Steps(i, Old(i))
    <3>1. RoomForBlock(node[i]) \in Nodes /\ Keeps(node[i], RoomForBlock(node[i]))
      BY <1>0, RoomKeeps DEF Keeps
    <3>. QED  BY <1>0, <1>8, <3>1, EndsIsStep DEF PublishFails
  <2>2. Steps(i, New(i))
    BY <2>1 DEF Steps, New
  <2>. QED  BY <1>8, <2>1, <2>2 DEF PublishFails
<1>. QED  BY <1>1, <1>2, <1>3, <1>4, <1>5, <1>6, <1>7, <1>8 DEF LoopSteps

\* A block above a proposal.
LEMMA AppendedAbove ==
    ASSUME NEW s \in Seq(Nat), NEW d \in Nat, Increasing(s), UpTo(s, d)
    PROVE  LET t == Append(s, d + 1)
           IN /\ t \in Seq(Nat) /\ Increasing(t) /\ UpTo(t, d + 1)
              /\ \A u \in Seq(Nat) : Below(u, s) /\ UpTo(u, d) => Below(u, t)
<1> DEFINE t == Append(s, d + 1)
<1>1. /\ t \in Seq(Nat) /\ Len(t) = Len(s) + 1 /\ Len(s) \in Nat /\ t[Len(s) + 1] = d + 1
      /\ \A k \in 1 .. Len(s) : t[k] = s[k] /\ s[k] \in Nat
  OBVIOUS
<1>2. \A k \in 1 .. Len(s) : s[k] <= d
  BY DEF UpTo
<1>3. \A k \in 1 .. Len(t) : k \in 1 .. Len(s) \/ k = Len(s) + 1
  BY <1>1
<1> HIDE DEF t
<1>4. Increasing(t)
  <2> SUFFICES ASSUME NEW j \in 1 .. Len(t), NEW k \in 1 .. Len(t), j < k PROVE t[j] < t[k]
    BY DEF Increasing
  <2>1. j \in 1 .. Len(s)
    BY <1>1, <1>3
  <2>2. CASE k \in 1 .. Len(s)
    BY <1>1, <2>1, <2>2 DEF Increasing
  <2>3. CASE k = Len(s) + 1
    <3>1. t[j] = s[j] /\ s[j] \in Nat /\ s[j] <= d /\ t[k] = d + 1
      BY <1>1, <1>2, <2>1, <2>3
    <3>. QED  BY <3>1
  <2>. QED  BY <1>3, <2>2, <2>3
<1>5. UpTo(t, d + 1)
  <2> SUFFICES ASSUME NEW k \in 1 .. Len(t) PROVE t[k] <= d + 1
    BY DEF UpTo
  <2>1. CASE k \in 1 .. Len(s)
    <3>1. t[k] = s[k] /\ s[k] \in Nat /\ s[k] <= d
      BY <1>1, <1>2, <2>1
    <3>. QED  BY <3>1
  <2>2. CASE k = Len(s) + 1
    BY <1>1, <2>2
  <2>. QED  BY <1>3, <2>1, <2>2
<1>6. ASSUME NEW u \in Seq(Nat), Below(u, s), UpTo(u, d)
      PROVE  Below(u, t)
  <2> SUFFICES ASSUME NEW j \in 1 .. Len(u), NEW k \in 1 .. Len(t) PROVE u[j] < t[k]
    BY DEF Below
  <2>1. u[j] \in Nat /\ u[j] <= d
    BY <1>6 DEF UpTo
  <2>2. CASE k \in 1 .. Len(s)
    BY <1>1, <1>6, <2>2 DEF Below
  <2>3. CASE k = Len(s) + 1
    BY <1>1, <2>1, <2>3
  <2>. QED  BY <1>3, <2>2, <2>3
<1>. QED  BY <1>1, <1>4, <1>5, <1>6 DEF t

\* A proposal above the ones on L1.
LEMMA JoinedAbove ==
    ASSUME NEW s \in Seq(Nat), NEW r \in Seq(Nat), NEW d \in Nat,
           Increasing(s), Increasing(r), Below(s, r), UpTo(s, d), UpTo(r, d)
    PROVE  LET t == s \o r
           IN /\ t \in Seq(Nat) /\ Increasing(t) /\ UpTo(t, d)
              /\ \A u \in Seq(Nat) : Below(s, u) /\ Below(r, u) => Below(t, u)
<1> DEFINE t == s \o r
           m == Len(s)
           n == Len(r)
<1>1. /\ t \in Seq(Nat) /\ Len(t) = m + n /\ m \in Nat /\ n \in Nat
      /\ \A k \in 1 .. m + n : t[k] = IF k <= m THEN s[k] ELSE r[k - m]
  OBVIOUS
<1>2. /\ \A j, k \in 1 .. m : j < k => s[j] < s[k]
      /\ \A j, k \in 1 .. n : j < k => r[j] < r[k]
      /\ \A j \in 1 .. m, k \in 1 .. n : s[j] < r[k]
      /\ \A k \in 1 .. m : s[k] <= d
      /\ \A k \in 1 .. n : r[k] <= d
  BY DEF Increasing, Below, UpTo
<1> HIDE DEF t
<1>3. /\ \A u : Below(s, u) => \A j \in 1 .. m, k \in 1 .. Len(u) : s[j] < u[k]
      /\ \A u : Below(r, u) => \A j \in 1 .. n, k \in 1 .. Len(u) : r[j] < u[k]
  BY DEF Below
<1> HIDE DEF m, n
<1>4. ASSUME NEW k \in 1 .. m + n
      PROVE  \/ k \in 1 .. m /\ t[k] = s[k]
             \/ k > m /\ k - m \in 1 .. n /\ t[k] = r[k - m]
  BY <1>1
<1>5. Increasing(t)
  <2> SUFFICES ASSUME NEW j \in 1 .. m + n, NEW k \in 1 .. m + n, j < k PROVE t[j] < t[k]
    BY <1>1 DEF Increasing
  <2>1. CASE k \in 1 .. m
    <3>1. j \in 1 .. m
      BY <1>1, <2>1
    <3>2. t[j] = s[j] /\ t[k] = s[k]
      BY <1>1, <1>4, <2>1, <3>1
    <3>. QED  BY <1>2, <2>1, <3>1, <3>2
  <2>2. CASE ~(k \in 1 .. m) /\ j \in 1 .. m
    <3>1. t[j] = s[j] /\ k - m \in 1 .. n /\ t[k] = r[k - m]
      BY <1>1, <1>4, <2>2
    <3>. QED  BY <1>2, <2>2, <3>1
  <2>3. CASE ~(k \in 1 .. m) /\ ~(j \in 1 .. m)
    <3>1. j - m \in 1 .. n /\ t[j] = r[j - m] /\ k - m \in 1 .. n /\ t[k] = r[k - m]
      BY <1>4, <2>3
    <3>2. j - m < k - m
      BY <1>1
    <3>. QED  BY <1>2, <3>1, <3>2
  <2>. QED  BY <2>1, <2>2, <2>3
<1>6. UpTo(t, d)
  <2> SUFFICES ASSUME NEW k \in 1 .. m + n PROVE t[k] <= d
    BY <1>1 DEF UpTo
  <2>. QED  BY <1>2, <1>4
<1>7. ASSUME NEW u \in Seq(Nat), Below(s, u), Below(r, u)
      PROVE  Below(t, u)
  <2> SUFFICES ASSUME NEW j \in 1 .. m + n, NEW k \in 1 .. Len(u) PROVE t[j] < u[k]
    BY <1>1 DEF Below
  <2>. QED  BY <1>3, <1>4, <1>7
<1>. QED  BY <1>1, <1>5, <1>6, <1>7 DEF t

\* The empty proposal, and a higher head.
LEMMA EmptyIsFine ==
    /\ <<>> \in Seq(Nat) /\ Increasing(<<>>)
    /\ \A d : UpTo(<<>>, d)
    /\ \A u : Below(u, <<>>) /\ Below(<<>>, u)
<1>1. Len(<<>>) = 0 /\ <<>> \in Seq(Nat)
  OBVIOUS
<1>. QED  BY <1>1 DEF Increasing, UpTo, Below

\* A new node holds no block.
LEMMA NewHolds == \A s \in Held(NewNode) : s = <<>>
<1>1. NewNode.current = <<>> /\ NewNode.queue = <<>>
  BY DEF NewNode
<1>2. Len(<<>>) = 0
  OBVIOUS
<1>. QED  BY <1>1, <1>2 DEF Held

\* A higher head.
LEMMA UpToMore ==
    ASSUME NEW s \in Seq(Nat), NEW d \in Nat, NEW e \in Nat, d <= e, UpTo(s, d)
    PROVE  UpTo(s, e)
<1>1. \A k \in 1 .. Len(s) : s[k] \in Nat
  OBVIOUS
<1>. QED  BY <1>1 DEF UpTo

\* The proposals of a node are sequences of numbers.
LEMMA HeldSeqs ==
    ASSUME NEW n \in Nodes
    PROVE  Held(n) \subseteq Seq(Nat)
BY DEF Held, Nodes

\* A loop that runs is of the last iteration.
LEMMA RunsAlone ==
    ASSUME SupInv, ~Shasta, Without({"lag", "slow"}), NEW i \in Iter, "loop" \in tasks[i]
    PROVE  i = sup.iter /\ ~Ahead(i) /\ \A j \in Iter : j # i => tasks[j] = {}
<1>1. Alone
  BY DEF Alone, Without
<1>. QED  BY <1>1 DEF SupInv

\* A step of the only loop, when all it leaves in its hands is in order.
LEMMA StepKeepsOrder ==
    ASSUME SupInv, Blocks, BlockInv, ~Shasta, Without({"lag", "slow"}),
           NEW i \in Iter, "loop" \in tasks[i], sup' = sup, proposed' = proposed,
           \A j \in Iter : tasks'[j] \subseteq tasks[j],
           driver' \in Nat, driver <= driver', geth' = driver', commits' \in Seq(Nat),
           Increasing(commits'), UpTo(commits', driver'),
           NEW H, Steps(i, H),
           \A s \in H : /\ s \in Seq(Nat) /\ Increasing(s) /\ UpTo(s, driver')
                        /\ \A j \in Iter : j < i => Below(sent[j], s)
                        /\ ~node[i].pending => Below(proposed, s)
    PROVE  BlockInv'
<1>0. /\ node \in [Iter -> Nodes] /\ sent \in [Iter -> Seq(Nat)] /\ driver \in Nat
      /\ proposed \in Seq(Nat)
  BY DEF Blocks
<1>1. i = sup.iter /\ ~Ahead(i) /\ \A j \in Iter : j # i => tasks[j] = {}
  BY RunsAlone
<1>2. PICK r \in Nodes :
        /\ node' = [node EXCEPT ![i] = r]
        /\ Held(r) \subseteq H
        /\ r.pc = "step" => r.parent = geth /\ UNCHANGED <<geth, driver>>
        /\ \/ sent' = sent /\ r.pending = node[i].pending
           \/ /\ ~node[i].pending /\ r.pending
              /\ \E s \in H : s \in Seq(Nat) /\ sent' = [sent EXCEPT ![i] = s]
  BY DEF Steps
<1>3. node'[i] = r /\ \A j \in Iter : j # i => node'[j] = node[j]
  BY <1>0, <1>2
<1>4. /\ sent'[i] = sent[i] \/ sent'[i] \in H
      /\ \A j \in Iter : j # i => sent'[j] = sent[j]
      /\ sent' \in [Iter -> Seq(Nat)]
  BY <1>0, <1>2
<1>5. \A j \in Iter : Ahead(j)' = Ahead(j)
  BY DEF Ahead
<1>6. \A j \in Iter : Ahead(j)' => node'[j] = NewNode /\ sent'[j] = <<>>
  <2>1. \A j \in Iter : Ahead(j) => node[j] = NewNode /\ sent[j] = <<>>
    BY DEF BlockInv
  <2>2. \A j \in Iter : Ahead(j)' => Ahead(j) /\ j # i
    BY <1>1, <1>5
  <2>3. \A j \in Iter : j # i => node'[j] = node[j] /\ sent'[j] = sent[j]
    BY <1>3, <1>4
  <2>. QED  BY <2>1, <2>2, <2>3, Zenon
<1>7. ASSUME NEW j \in Iter, "loop" \in tasks'[j], node'[j].pc = "step"
      PROVE  node'[j].parent = driver'
  <2>1. j = i
    BY <1>1, <1>7
  <2>2. r.parent = geth /\ geth' = geth
    BY <1>2, <1>3, <1>7, <2>1
  <2>. QED  BY <1>3, <2>1, <2>2
<1>8. ASSUME NEW j \in Iter, NEW s \in Held(node'[j]) PROVE Increasing(s) /\ UpTo(s, driver')
  <2>1. CASE j = i
    BY <1>2, <1>3, <2>1
  <2>2. CASE j # i
    <3>1. s \in Held(node[j]) /\ s \in Seq(Nat)
      BY <1>0, <1>3, <2>2, HeldSeqs
    <3>2. Increasing(s) /\ UpTo(s, driver)
      BY <3>1 DEF BlockInv
    <3>. QED  BY <1>0, <3>1, <3>2, UpToMore
  <2>. QED  BY <2>1, <2>2
<1>9. ASSUME NEW j \in Iter
      PROVE  /\ Increasing(sent'[j]) /\ UpTo(sent'[j], driver')
             /\ sent'[j] # <<>> => node'[j].pending
             /\ Below(proposed', sent'[j])
  <2>1. CASE sent'[j] = sent[j] /\ (j = i => r.pending = node[i].pending)
    <3>1. /\ Increasing(sent[j]) /\ UpTo(sent[j], driver) /\ sent[j] \in Seq(Nat)
          /\ sent[j] # <<>> => node[j].pending
          /\ Below(proposed, sent[j])
      BY <1>0 DEF BlockInv
    <3>. QED  BY <1>0, <1>3, <2>1, <3>1, UpToMore
  <2>2. CASE j = i /\ ~node[i].pending /\ r.pending /\ sent'[j] \in H
    BY <1>3, <2>2
  <2>3. \/ sent' = sent /\ r.pending = node[i].pending
        \/ ~node[i].pending /\ r.pending /\ sent'[i] \in H
    BY <1>0, <1>2
  <2>. QED  BY <1>4, <2>1, <2>2, <2>3
<1>10. ASSUME NEW j \in Iter, NEW k \in Iter, j < k, NEW s \in Held(node'[k])
       PROVE  Below(sent'[j], s)
  <2>0. j \in Nat /\ k \in Nat
    BY ProcessAssumption DEF Iter
  <2>1. CASE k = i
    <3>1. sent'[j] = sent[j] /\ s \in H
      BY <1>2, <1>3, <1>4, <1>10, <2>0, <2>1
    <3>. QED  BY <1>10, <2>1, <3>1
  <2>2. CASE k # i /\ j # i
    BY <1>3, <1>4, <1>10, <2>2 DEF BlockInv
  <2>3. CASE j = i
    <3>1. Ahead(k) /\ k # i
      BY <1>1, <1>10, <2>0, <2>3 DEF Ahead
    <3>2. node'[k] = NewNode
      BY <1>3, <3>1 DEF BlockInv
    <3>3. s = <<>>
      BY <1>10, <3>2, NewHolds
    <3>. QED  BY <3>3, EmptyIsFine
  <2>. QED  BY <2>1, <2>2, <2>3
<1>11. Increasing(proposed') /\ UpTo(proposed', driver')
  <2>1. Increasing(proposed) /\ UpTo(proposed, driver)
    BY DEF BlockInv
  <2>. QED  BY <1>0, <2>1, UpToMore
<1>12. ASSUME ~node'[sup'.iter].pending, NEW s \in Held(node'[sup'.iter])
       PROVE  Below(proposed', s)
  <2>1. ~node[i].pending /\ s \in H
    BY <1>1, <1>2, <1>3, <1>12
  <2>. QED  BY <2>1
<1>. QED  BY <1>6, <1>7, <1>8, <1>9, <1>10, <1>11, <1>12 DEF BlockInv

\* The proposals of a node are in order, with a new block and without one.
LEMMA OldInOrder ==
    ASSUME SupInv, Blocks, BlockInv, NEW i \in Iter, i = sup.iter, NEW s \in Old(i)
    PROVE  /\ s \in Seq(Nat) /\ Increasing(s) /\ UpTo(s, driver)
           /\ \A j \in Iter : j < i => Below(sent[j], s)
           /\ ~node[i].pending => Below(proposed, s)
<1>1. CASE s = <<>>
  BY <1>1, EmptyIsFine
<1>2. CASE s \in Held(node[i])
  <2>1. s \in Seq(Nat)
    BY <1>2, HeldSeqs DEF Blocks
  <2>. QED  BY <1>2, <2>1 DEF BlockInv
<1>. QED  BY <1>1, <1>2 DEF Old

\* What the node held, with the block it publishes.
LEMMA NewInOrder ==
    ASSUME SupInv, Blocks, BlockInv, NEW i \in Iter, i = sup.iter, node[i].parent = driver,
           NEW s \in New(i)
    PROVE  /\ s \in Seq(Nat) /\ Increasing(s) /\ UpTo(s, driver + 1)
           /\ \A j \in Iter : j < i => Below(sent[j], s)
           /\ ~node[i].pending => Below(proposed, s)
<1>0. driver \in Nat /\ sent \in [Iter -> Seq(Nat)] /\ proposed \in Seq(Nat)
  BY DEF Blocks
<1>1. CASE s \in Old(i)
  <2>1. /\ s \in Seq(Nat) /\ Increasing(s) /\ UpTo(s, driver)
        /\ \A j \in Iter : j < i => Below(sent[j], s)
        /\ ~node[i].pending => Below(proposed, s)
    BY <1>1, OldInOrder
  <2>2. UpTo(s, driver + 1)
    BY <1>0, <2>1, UpToMore
  <2>. QED  BY <2>1, <2>2
<1>2. CASE \E c \in Old(i) : s = Append(c, driver + 1)
  <2>1. PICK c \in Old(i) : s = Append(c, driver + 1)
    BY <1>2
  <2>2. /\ c \in Seq(Nat) /\ Increasing(c) /\ UpTo(c, driver)
        /\ \A j \in Iter : j < i => Below(sent[j], c)
        /\ ~node[i].pending => Below(proposed, c)
    BY OldInOrder
  <2>3. /\ s \in Seq(Nat) /\ Increasing(s) /\ UpTo(s, driver + 1)
        /\ \A u \in Seq(Nat) : Below(u, c) /\ UpTo(u, driver) => Below(u, s)
    BY <1>0, <2>1, <2>2, AppendedAbove
  <2>4. UpTo(proposed, driver) /\ \A j \in Iter : UpTo(sent[j], driver)
    BY DEF BlockInv
  <2>. QED  BY <1>0, <2>2, <2>3, <2>4
<1>. QED  BY <1>1, <1>2 DEF New

\* No block, no proposal.
LEMMA LoopInitially == Init => LoopInv
<1> SUFFICES ASSUME Init PROVE LoopInv
  OBVIOUS
<1>1. /\ node = [i \in Iter |-> NewNode] /\ geth = 0 /\ driver = 0 /\ sent = [i \in Iter |-> <<>>]
      /\ commits = <<>> /\ proposed = <<>> /\ sup.iter \in Iter
  BY ProcessAssumption DEF Init, LoopInit, SupervisorInit, Iter
<1>2. NewNode \in Nodes /\ Held(NewNode) = {<<>>} /\ NewNode.pc = "idle"
  BY DEF NewNode, Nodes, Held
<1>3. Blocks
  BY <1>1, <1>2 DEF Blocks
<1>4. BlockInv
  BY <1>1, <1>2, EmptyIsFine DEF BlockInv
<1>. QED  BY <1>1, <1>3, <1>4 DEF LoopInv

\* Every step keeps the types.
LEMMA LoopTypes ==
    ASSUME SupInv, Blocks, [Next]_vars
    PROVE  Blocks'
<1>0. /\ node \in [Iter -> Nodes] /\ sent \in [Iter -> Seq(Nat)]
      /\ driver \in Nat /\ geth \in Nat /\ commits \in Seq(Nat) /\ proposed \in Seq(Nat)
  BY DEF Blocks
<1>1. CASE UNCHANGED loopVars
  BY <1>1 DEF Blocks, loopVars
<1>2. ASSUME NEW i \in Iter, NEW H, Steps(i, H)
      PROVE  node' \in [Iter -> Nodes] /\ sent' \in [Iter -> Seq(Nat)]
  BY <1>0, <1>2 DEF Steps
<1>3. ASSUME NEW i \in Iter, Publish(i)
      PROVE  driver' \in Nat /\ geth' \in Nat /\ commits' \in Seq(Nat)
  <2>1. node[i].parent + 1 \in Nat
    BY <1>0 DEF Nodes
  <2>. QED  BY <1>0, <1>3, <2>1 DEF Publish
<1>4. ASSUME NEW i \in Iter, LoopSteps(i) PROVE Blocks'
  <2>1. CASE Runs(i) /\ UNCHANGED <<geth, driver, commits, proposed>> /\ Steps(i, Old(i))
    BY <1>0, <1>2, <2>1 DEF Blocks
  <2>2. CASE Publish(i) /\ UNCHANGED proposed /\ Steps(i, New(i))
    BY <1>0, <1>2, <1>3, <2>2 DEF Blocks
  <2>. QED  BY <1>1, <1>4, <2>1, <2>2, LoopCases
<1>5. CASE GethFollows
  BY <1>5 DEF GethFollows, Blocks
<1>6. ASSUME NEW i \in Iter, Mined(i) PROVE Blocks'
  <2>1. proposed \o sent[i] \in Seq(Nat) /\ <<>> \in Seq(Nat)
    BY <1>0
  <2>. QED  BY <1>0, <1>6, <2>1 DEF Mined, Blocks
<1>7. ASSUME NEW i \in Iter, SendFails(i) PROVE Blocks'
  <2>1. <<>> \in Seq(Nat) /\ sent' = [sent EXCEPT ![i] = <<>>]
    BY <1>7 DEF SendFails
  <2>2. PICK e \in {"fatal", "late"} : node' = [node EXCEPT ![i].error = e]
    BY <1>7 DEF SendFails
  <2>3. [node[i] EXCEPT !.error = e] \in Nodes
    BY <1>0 DEF Nodes
  <2>4. node' \in [Iter -> Nodes]
    BY <1>0, <2>2, <2>3
  <2>. QED  BY <1>0, <1>7, <2>1, <2>4 DEF SendFails, Blocks
<1>. QED  BY <1>1, <1>4, <1>5, <1>6, <1>7 DEF Next, vars, EnvSteps, loopVars

\* A step of the loop keeps the order.
LEMMA LoopKeepsOrder ==
    ASSUME SupInv, Blocks, BlockInv, ~Shasta, Without({"lag", "slow"}), UNCHANGED scenario,
           NEW i \in Iter, LoopSteps(i)
    PROVE  BlockInv'
<1>0. /\ driver \in Nat /\ geth = driver /\ commits \in Seq(Nat)
      /\ Increasing(commits) /\ UpTo(commits, driver)
  BY DEF Blocks, BlockInv
<1>1. sup' = sup /\ \A j \in Iter : tasks'[j] \subseteq tasks[j]
  BY LoopShrinks DEF Shrinks
<1>2. CASE UNCHANGED loopVars
  <2>1. \A j \in Iter : Ahead(j)' = Ahead(j)
    BY <1>1 DEF Ahead
  <2>. QED  BY <1>1, <1>2, <2>1 DEF BlockInv, loopVars
<1>3. CASE Runs(i) /\ UNCHANGED <<geth, driver, commits, proposed>> /\ Steps(i, Old(i))
  <2>1. "loop" \in tasks[i] /\ i = sup.iter
    BY <1>3, RunsAlone DEF Runs
  <2>2. \A s \in Old(i) : /\ s \in Seq(Nat) /\ Increasing(s) /\ UpTo(s, driver)
                          /\ \A j \in Iter : j < i => Below(sent[j], s)
                          /\ ~node[i].pending => Below(proposed, s)
    BY <2>1, OldInOrder
  <2>3. driver' = driver /\ geth' = driver' /\ commits' = commits /\ proposed' = proposed
    BY <1>0, <1>3
  <2>4. driver' \in Nat /\ driver <= driver' /\ UpTo(commits', driver') /\ Increasing(commits')
    BY <1>0, <2>3
  <2>. QED  BY <1>0, <1>1, <1>3, <2>1, <2>2, <2>3, <2>4, StepKeepsOrder
<1>4. CASE /\ Runs(i) /\ node[i].pc = "step" /\ Publish(i) /\ UNCHANGED proposed
           /\ Steps(i, New(i))
  <2>1. "loop" \in tasks[i] /\ i = sup.iter
    BY <1>4, RunsAlone DEF Runs
  <2>2. node[i].parent = driver
    BY <1>4, <2>1 DEF BlockInv
  <2>3. Without({"lag"})
    BY DEF Without
  <2>4. commits' = Append(commits, driver + 1) /\ driver' = driver + 1 /\ geth' = driver'
    BY <1>0, <1>4, <2>2, <2>3 DEF Publish
  <2>5. commits' \in Seq(Nat) /\ Increasing(commits') /\ UpTo(commits', driver')
    BY <1>0, <2>4, AppendedAbove
  <2>6. \A s \in New(i) : /\ s \in Seq(Nat) /\ Increasing(s) /\ UpTo(s, driver')
                          /\ \A j \in Iter : j < i => Below(sent[j], s)
                          /\ ~node[i].pending => Below(proposed, s)
    BY <2>1, <2>2, <2>4, NewInOrder
  <2>7. driver' \in Nat /\ driver <= driver'
    BY <1>0, <2>4
  <2>. QED  BY <1>1, <1>4, <2>1, <2>4, <2>5, <2>6, <2>7, StepKeepsOrder
<1>. QED  BY <1>2, <1>3, <1>4, LoopCases

\* A proposal on L1 is above the ones before it.
LEMMA MinedKeepsOrder ==
    ASSUME SupInv, Blocks, BlockInv, UNCHANGED scenario, NEW i \in Iter, Mined(i)
    PROVE  BlockInv'
<1>0. /\ proposed \in Seq(Nat) /\ sent \in [Iter -> Seq(Nat)] /\ sent[i] \in Seq(Nat)
      /\ driver \in Nat /\ node \in [Iter -> Nodes]
  BY DEF Blocks
<1>1. /\ sent[i] # <<>> /\ proposed' = proposed \o sent[i]
      /\ \A j \in Iter : sent'[j] = <<>>
      /\ UNCHANGED <<sup, tasks, node, geth, driver, commits>>
  BY DEF Mined, supVars
<1>2. /\ Increasing(sent[i]) /\ UpTo(sent[i], driver) /\ Below(proposed, sent[i])
      /\ Increasing(proposed) /\ UpTo(proposed, driver) /\ node[i].pending
  BY <1>1 DEF BlockInv
<1>3. /\ Increasing(proposed') /\ UpTo(proposed', driver)
      /\ \A u \in Seq(Nat) : Below(proposed, u) /\ Below(sent[i], u) => Below(proposed', u)
  BY <1>0, <1>1, <1>2, JoinedAbove
<1>4. i <= sup.iter /\ sup.iter \in Iter /\ i \in Nat /\ sup.iter \in Nat
  <2>1. ~Ahead(i)
    BY <1>1 DEF BlockInv
  <2>2. sup.iter \in Iter
    BY DEF SupInv, SupTypes
  <2>. QED  BY <2>1, <2>2, ProcessAssumption DEF Ahead, Iter
<1>5. ASSUME ~node[sup.iter].pending, NEW s \in Held(node[sup.iter])
      PROVE  Below(proposed', s)
  <2>1. i < sup.iter
    BY <1>2, <1>4, <1>5
  <2>2. s \in Seq(Nat) /\ Below(sent[i], s) /\ Below(proposed, s)
    BY <1>0, <1>4, <1>5, <2>1, HeldSeqs DEF BlockInv
  <2>. QED  BY <1>3, <2>2
<1>6. \A j \in Iter : Ahead(j)' = Ahead(j)
  BY <1>1 DEF Ahead
<1>. QED  BY <1>1, <1>3, <1>5, <1>6, EmptyIsFine DEF BlockInv

\* A proposal that is dropped leaves the rest in order.
LEMMA SendFailsKeepsOrder ==
    ASSUME SupInv, Blocks, BlockInv, UNCHANGED scenario, NEW i \in Iter, SendFails(i)
    PROVE  BlockInv'
<1>0. /\ sent \in [Iter -> Seq(Nat)] /\ node \in [Iter -> Nodes]
  BY DEF Blocks
<1>1. /\ sent' = [sent EXCEPT ![i] = <<>>] /\ sent[i] # <<>>
      /\ UNCHANGED <<sup, tasks, proposed, geth, driver, commits>>
  BY DEF SendFails, supVars
<1>2. PICK e \in {"fatal", "late"} : node' = [node EXCEPT ![i].error = e]
  BY DEF SendFails
<1> DEFINE n == node[i]
           r == [n EXCEPT !.error = e]
<1>3. node' = [node EXCEPT ![i] = r] /\ n \in Nodes
  BY <1>0, <1>2
<1> HIDE DEF n
<1>4. /\ r.pc = n.pc /\ r.parent = n.parent /\ r.pending = n.pending /\ r.queue = n.queue
      /\ r.current = n.current
  BY <1>3 DEF Nodes
<1> HIDE DEF r
<1>5. Held(r) = Held(n)
  BY <1>4 DEF Held
<1>6. \A j \in Iter : /\ Held(node'[j]) = Held(node[j]) /\ node'[j].pc = node[j].pc
                      /\ node'[j].parent = node[j].parent /\ node'[j].pending = node[j].pending
                      /\ j # i => node'[j] = node[j] /\ sent'[j] = sent[j]
                      /\ sent'[j] = sent[j] \/ sent'[j] = <<>>
  BY <1>0, <1>1, <1>3, <1>4, <1>5 DEF n
<1>7. sup.iter \in Iter /\ ~Ahead(i)
  BY <1>1 DEF SupInv, SupTypes, BlockInv
<1>8. \A j \in Iter : Ahead(j)' = Ahead(j)
  BY <1>1 DEF Ahead
<1>9. \A j \in Iter : Ahead(j)' => node'[j] = NewNode /\ sent'[j] = <<>>
  BY <1>6, <1>7, <1>8 DEF BlockInv
<1>10. ASSUME NEW j \in Iter
       PROVE  /\ Increasing(sent'[j]) /\ UpTo(sent'[j], driver')
              /\ sent'[j] # <<>> => node'[j].pending
              /\ Below(proposed', sent'[j])
  <2>1. /\ Increasing(sent[j]) /\ UpTo(sent[j], driver)
        /\ sent[j] # <<>> => node[j].pending
        /\ Below(proposed, sent[j])
    BY DEF BlockInv
  <2>2. CASE sent'[j] = sent[j]
    BY <1>1, <1>6, <2>1, <2>2
  <2>3. CASE sent'[j] = <<>>
    BY <2>3, EmptyIsFine
  <2>. QED  BY <1>6, <2>2, <2>3
<1>11. ASSUME NEW j \in Iter, NEW k \in Iter, j < k, NEW s \in Held(node'[k])
       PROVE  Below(sent'[j], s)
  <2>1. Below(sent[j], s)
    BY <1>6, <1>11 DEF BlockInv
  <2>2. CASE sent'[j] = sent[j]
    BY <2>1, <2>2
  <2>3. CASE sent'[j] = <<>>
    BY <2>3, EmptyIsFine
  <2>. QED  BY <1>6, <2>2, <2>3
<1>12. \A j \in Iter : "loop" \in tasks'[j] /\ node'[j].pc = "step" => node'[j].parent = driver'
  <2>. SUFFICES ASSUME NEW j \in Iter, "loop" \in tasks'[j], node'[j].pc = "step"
                PROVE  node'[j].parent = driver'
    OBVIOUS
  <2>1. "loop" \in tasks[j] /\ node[j].pc = "step" => node[j].parent = driver
    BY DEF BlockInv
  <2>. QED  BY <1>1, <1>6, <2>1
<1>13. \A j \in Iter : \A s \in Held(node'[j]) : Increasing(s) /\ UpTo(s, driver')
  BY <1>1, <1>6 DEF BlockInv
<1>14. ~node'[sup'.iter].pending => \A s \in Held(node'[sup'.iter]) : Below(proposed', s)
  BY <1>1, <1>6, <1>7 DEF BlockInv
<1>15. /\ geth' = driver' /\ Increasing(commits') /\ UpTo(commits', driver')
       /\ Increasing(proposed') /\ UpTo(proposed', driver')
  BY <1>1 DEF BlockInv
<1>. QED  BY <1>9, <1>10, <1>11, <1>12, <1>13, <1>14, <1>15 DEF BlockInv

\* The steps of main: a new iteration has a new node.
LEMMA SupKeepsOrder ==
    ASSUME SupInv, Blocks, BlockInv, ~Shasta, [Next]_vars, UNCHANGED loopVars
    PROVE  BlockInv'
<1>1. ASSUME NEW i \in Iter
      PROVE  /\ Ahead(i)' => Ahead(i)
             /\ ~Ahead(i) => tasks'[i] \subseteq tasks[i]
             /\ sup'.iter \in Iter /\ (sup'.iter = sup.iter \/ Ahead(sup'.iter))
  BY BeginsOnce
<1>2. /\ node' = node /\ sent' = sent /\ geth' = geth /\ driver' = driver
      /\ commits' = commits /\ proposed' = proposed
  BY DEF loopVars
<1>3. sup.iter \in Iter
  BY DEF SupInv, SupTypes
<1>4. \A i \in Iter : "loop" \in tasks'[i] /\ node[i].pc = "step" => node[i].parent = driver
  <2> SUFFICES ASSUME NEW i \in Iter, "loop" \in tasks'[i], node[i].pc = "step"
               PROVE  node[i].parent = driver
    OBVIOUS
  <2>1. ~Ahead(i)
    <3>1. Ahead(i) => node[i] = NewNode
      BY DEF BlockInv
    <3>2. NewNode.pc # "step"
      BY DEF NewNode
    <3>. QED  BY <3>1, <3>2
  <2>2. "loop" \in tasks[i]
    BY <1>1, <2>1
  <2>. QED  BY <2>2 DEF BlockInv
<1>5. ASSUME ~node[sup'.iter].pending, NEW s \in Held(node[sup'.iter])
      PROVE  Below(proposed, s)
  <2>1. CASE sup'.iter = sup.iter
    BY <1>5, <2>1 DEF BlockInv
  <2>2. CASE Ahead(sup'.iter)
    <3>1. node[sup'.iter] = NewNode
      BY <1>1, <1>3, <2>2 DEF BlockInv
    <3>2. s = <<>>
      BY <1>5, <3>1, NewHolds
    <3>. QED  BY <3>2, EmptyIsFine
  <2>. QED  BY <1>1, <1>3, <2>1, <2>2
<1>. QED  BY <1>1, <1>2, <1>4, <1>5 DEF BlockInv

\* Every step keeps the invariant.
LEMMA LoopInductive == SupInv /\ LoopInv /\ [Next]_vars => LoopInv'
<1> SUFFICES ASSUME SupInv, LoopInv, [Next]_vars PROVE LoopInv'
  OBVIOUS
<1>1. Blocks /\ Blocks'
  BY LoopTypes DEF LoopInv
<1>2. scenario' = scenario
  BY BeginsOnce DEF SupInv, SupTypes
<1>3. Shasta' = Shasta /\ Without({"lag", "slow"})' = Without({"lag", "slow"})
  BY <1>2 DEF Shasta, Without
<1>4. ASSUME Shasta PROVE commits' = <<>> /\ proposed' = <<>>
  <2>1. commits = <<>> /\ proposed = <<>>
    BY <1>4 DEF LoopInv
  <2>2. CASE UNCHANGED loopVars
    BY <2>1, <2>2 DEF loopVars
  <2>3. ASSUME NEW i \in Iter, LoopSteps(i) PROVE UNCHANGED loopVars
    <3>1. ~Runs(i)
      BY <1>4 DEF Runs, Shasta
    <3>. QED  BY <1>1, <2>3, <3>1, LoopCases
  <2>. QED  BY <1>4, <2>2, <2>3 DEF Next, vars, loopVars
<1>5. ASSUME ~Shasta, Without({"lag", "slow"}) PROVE BlockInv'
  <2>1. BlockInv
    BY <1>5 DEF LoopInv
  <2>2. CASE UNCHANGED loopVars
    BY <1>1, <1>5, <2>1, <2>2, SupKeepsOrder
  <2>3. CASE GethFollows
    <3>1. geth = driver /\ driver \in Nat
      BY <1>1, <2>1 DEF BlockInv, Blocks
    <3>. QED  BY <2>3, <3>1 DEF GethFollows
  <2>4. CASE EnvSteps
    BY <1>1, <1>2, <2>1, <2>3, <2>4, MinedKeepsOrder, SendFailsKeepsOrder DEF EnvSteps
  <2>5. CASE \E i \in Iter : LoopSteps(i)
    BY <1>1, <1>2, <1>5, <2>1, <2>5, LoopKeepsOrder
  <2>. QED  BY <2>2, <2>4, <2>5 DEF Next, vars, loopVars
<1>. QED  BY <1>1, <1>3, <1>4, <1>5 DEF LoopInv

(***************************************************************************)
(* The preconfirmation driver never receives two commitments to one block  *)
(* number, whatever iterations fail, panic, time out or are replaced.      *)
(***************************************************************************)
THEOREM CommitsOnce == Spec => []OneCommitment
<1>1. LoopInv => OneCommitment
  <2> SUFFICES ASSUME LoopInv, Without({"lag", "slow"})
               PROVE  \A j, k \in 1 .. Len(commits) : j < k => commits[j] # commits[k]
    BY DEF OneCommitment
  <2>1. CASE Shasta
    BY <2>1, EmptyIsFine DEF LoopInv, Increasing
  <2>2. CASE ~Shasta
    <3>1. Increasing(commits) /\ commits \in Seq(Nat)
      BY <2>2 DEF LoopInv, BlockInv, Blocks
    <3>2. \A j \in 1 .. Len(commits) : commits[j] \in Nat
      BY <3>1
    <3>. QED  BY <3>1, <3>2 DEF Increasing
  <2>. QED  BY <2>1, <2>2
<1>. QED  BY <1>1, SupInitially, SupInductive, LoopInitially, LoopInductive, PTL DEF Spec

(***************************************************************************)
(* The blocks on L1 are in the order of their numbers, and each is there   *)
(* once, whatever iterations are replaced while a proposal of theirs is in *)
(* flight.                                                                 *)
(***************************************************************************)
THEOREM ProposesInOrder == Spec => []ProposedInOrder
<1>1. LoopInv => ProposedInOrder
  BY EmptyIsFine DEF LoopInv, BlockInv, ProposedInOrder, Increasing
<1>. QED  BY <1>1, SupInitially, SupInductive, LoopInitially, LoopInductive, PTL DEF Spec
=============================================================================
