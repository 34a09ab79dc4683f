------------------------ MODULE ChainMonitor_proofs ------------------------
(***************************************************************************)
(* The metric counts no reorg that the node announced, for any number of   *)
(* iterations, headers and reorgs.  The count to come is the number of     *)
(* headers in the queue that will look like a reorg when the dispatcher    *)
(* takes them: with what was counted already it never exceeds the reorgs   *)
(* that were a surprise.                                                   *)
(***************************************************************************)
EXTENDS Process_proofs, FiniteSetTheorems, TLAPS

-----------------------------------------------------------------------------
(* The reorgs of geth.                                                     *)

Headers == [number : Nat \ {0}, hash : Nat, parent : Nat]
Monitors == [height : Nat, hash : Nat, expected : Nat, up : BOOLEAN, queue : Seq(Headers)]

\* The number and the hash of the header before number k of the queue.
NumberBefore(m, k) == IF k = 1 THEN m.height ELSE m.queue[k - 1].number
HashBefore(m, k) == IF k = 1 THEN m.hash ELSE m.queue[k - 1].hash

\* The dispatcher will count number k of the queue.
Counts(m, k) ==
    /\ NumberBefore(m, k) # 0
    /\ m.queue[k].number # NumberBefore(m, k) + 1 \/ m.queue[k].parent # HashBefore(m, k)
    /\ m.queue[k].number # m.expected

Surprises(m) == {k \in 1 .. Len(m.queue) : Counts(m, k)}

\* The last header that the monitor was sent, if any, is the head of geth; a
\* subscription that ended is not made again.
Follows(m, chain, ts) ==
    LET next == Len(m.queue) + 1
    IN NumberBefore(m, next) # 0 =>
          IF m.up THEN NumberBefore(m, next) = Len(chain) /\ HashBefore(m, next) = chain[Len(chain)]
                  ELSE "blocks" \notin ts

(***************************************************************************)
(* What the monitor of the last iteration counted, and what it will count  *)
(* of the headers in its queue, are surprises.                             *)
(***************************************************************************)
ReorgInv ==
    /\ observed + Cardinality(Surprises(mon[sup.iter])) <= surprises
    /\ Follows(mon[sup.iter], l2, tasks[sup.iter])
    /\ \A i \in Iter : Ahead(i) => mon[i] = NewMonitor

Quiet == Without({"reconnect", "backlog", "create", "slow"})

MonitorTypes ==
    /\ l2 \in Seq(Nat) /\ l2 # <<>> /\ version \in Nat
    /\ observed \in Nat /\ surprises \in Nat
    /\ mon \in [Iter -> Monitors]

MonitorInv ==
    /\ MonitorTypes
    /\ ~Shasta => observed = 0
    /\ Shasta /\ Quiet => ReorgInv

\* The headers that will be counted are finitely many.
LEMMA SurprisesFinite ==
    ASSUME NEW m \in Monitors
    PROVE  IsFiniteSet(Surprises(m)) /\ Cardinality(Surprises(m)) \in Nat
<1>1. Len(m.queue) \in Nat
  BY DEF Monitors
<1>2. IsFiniteSet(1 .. Len(m.queue)) /\ Surprises(m) \subseteq 1 .. Len(m.queue)
  BY <1>1, FS_Interval, SMTT(30) DEF Surprises
<1>. QED  BY <1>2, FS_Subset, FS_CardinalityType

\* Monitor d is m with header h at the end of its queue.
Longer(m, h, d) ==
    LET next == Len(m.queue) + 1
    IN /\ d \in Monitors /\ d.up = m.up
       /\ NumberBefore(d, Len(d.queue) + 1) = h.number
       /\ HashBefore(d, Len(d.queue) + 1) = h.hash
       /\ Cardinality(Surprises(d)) <= Cardinality(Surprises(m)) + 1
       /\ (\/ NumberBefore(m, next) = 0
           \/ h.number = NumberBefore(m, next) + 1 /\ h.parent = HashBefore(m, next)
           \/ h.number = m.expected) => Surprises(d) = Surprises(m)

\* A header is pushed.
LEMMA Pushed ==
    ASSUME NEW m \in Monitors, NEW h \in Headers, NEW d, d = [m EXCEPT !.queue = Append(@, h)]
    PROVE  Longer(m, h, d)
<1> DEFINE n == Len(m.queue)
           q == Append(m.queue, h)
<1>1. m.queue \in Seq(Headers)
  BY DEF Monitors
<1>2. /\ q \in Seq(Headers) /\ Len(q) = n + 1 /\ n \in Nat /\ q[n + 1] = h
      /\ \A k \in 1 .. n : q[k] = m.queue[k]
  BY <1>1
<1>3. d = [m EXCEPT !.queue = q]
  OBVIOUS
<1> HIDE DEF q
<1>4. /\ d \in Monitors /\ d.queue = q /\ d.up = m.up /\ d.expected = m.expected
      /\ d.height = m.height /\ d.hash = m.hash
  BY <1>2, <1>3 DEF Monitors
<1>5. ASSUME NEW k \in 1 .. n + 1
      PROVE  NumberBefore(d, k) = NumberBefore(m, k) /\ HashBefore(d, k) = HashBefore(m, k)
  <2>1. k = 1 \/ k - 1 \in 1 .. n
    BY <1>2
  <2>. QED  BY <1>2, <1>4, <2>1 DEF NumberBefore, HashBefore
<1>6. ASSUME NEW k \in 1 .. n PROVE Counts(d, k) <=> Counts(m, k)
  <2>1. k \in 1 .. n + 1 /\ d.queue[k] = m.queue[k]
    BY <1>2, <1>4
  <2>. QED  BY <1>4, <1>5, <2>1 DEF Counts
<1>7. Len(d.queue) = n + 1 /\ d.queue[n + 1] = h
  BY <1>2, <1>4
<1>8. NumberBefore(d, (n + 1) + 1) = h.number /\ HashBefore(d, (n + 1) + 1) = h.hash
  <2>1. ((n + 1) + 1) - 1 = n + 1 /\ (n + 1) + 1 # 1
    BY <1>2
  <2>. QED  BY <1>7, <2>1 DEF NumberBefore, HashBefore
<1>9. n + 1 \in 1 .. n + 1 /\ \A k \in 1 .. n + 1 : k \in 1 .. n \/ k = n + 1
  BY <1>2
<1>10. Surprises(m) = {k \in 1 .. n : Counts(m, k)}
       /\ Surprises(d) = {k \in 1 .. n + 1 : Counts(d, k)}
  BY <1>7 DEF Surprises
<1>11. 1 .. n \subseteq 1 .. n + 1
  BY <1>2
<1> HIDE DEF n
<1>12. Surprises(d) \subseteq Surprises(m) \cup {n + 1}
  BY <1>6, <1>9, <1>10
<1>13. Surprises(m) \subseteq Surprises(d)
  BY <1>6, <1>10, <1>11
<1>14. Cardinality(Surprises(d)) <= Cardinality(Surprises(m)) + 1
  <2> DEFINE S == Surprises(m)
             T == Surprises(d)
  <2>1. IsFiniteSet(S) /\ Cardinality(S) \in Nat
    BY SurprisesFinite
  <2>2. T \subseteq S \cup {n + 1}
    BY <1>12
  <2> HIDE DEF S, T
  <2>3. /\ IsFiniteSet(S \cup {n + 1})
        /\ Cardinality(S \cup {n + 1}) = IF n + 1 \in S THEN Cardinality(S) ELSE Cardinality(S) + 1
    BY <2>1, FS_AddElement
  <2>4. Cardinality(T) <= Cardinality(S \cup {n + 1})
    BY <2>2, <2>3, FS_Subset
  <2>5. Cardinality(T) \in Nat
    BY <2>2, <2>3, FS_Subset, FS_CardinalityType
  <2>6. Cardinality(T) <= Cardinality(S) + 1
    BY <2>1, <2>3, <2>4, <2>5
  <2>. QED  BY <2>6 DEF S, T
<1>15. ASSUME \/ NumberBefore(m, n + 1) = 0
              \/ h.number = NumberBefore(m, n + 1) + 1 /\ h.parent = HashBefore(m, n + 1)
              \/ h.number = m.expected
       PROVE  Surprises(d) = Surprises(m)
  <2>1. ~Counts(d, n + 1)
    BY <1>4, <1>5, <1>7, <1>9, <1>15 DEF Counts
  <2>. QED  BY <1>10, <1>12, <1>13, <2>1
<1>. QED  BY <1>4, <1>7, <1>8, <1>14, <1>15 DEF n, Longer

\* A header is dispatched.
LEMMA Popped ==
    ASSUME NEW m \in Monitors, m.queue # <<>>, NEW d, NEW b, b = Head(m.queue),
           d = [m EXCEPT !.queue = Tail(@), !.height = b.number, !.hash = b.hash]
    PROVE  LET counted == /\ m.height # 0 /\ (b.number # m.height + 1 \/ b.parent # m.hash)
                          /\ b.number # m.expected
           IN /\ d \in Monitors /\ d.up = m.up
              /\ NumberBefore(d, Len(d.queue) + 1) = NumberBefore(m, Len(m.queue) + 1)
              /\ HashBefore(d, Len(d.queue) + 1) = HashBefore(m, Len(m.queue) + 1)
              /\ (IF counted THEN 1 ELSE 0) + Cardinality(Surprises(d)) <= Cardinality(Surprises(m))
<1> DEFINE n == Len(m.queue)
           q == Tail(m.queue)
<1>1. m.queue \in Seq(Headers)
  BY DEF Monitors
<1>2. /\ q \in Seq(Headers) /\ Len(q) = n - 1 /\ n \in Nat \ {0} /\ b = m.queue[1]
      /\ \A k \in 1 .. n - 1 : q[k] = m.queue[k + 1]
      /\ \A k \in 1 .. n : m.queue[k] \in Headers
  BY <1>1
<1>2a. 1 \in 1 .. n
  BY <1>2
<1>2b. b \in Headers /\ b.number \in Nat /\ b.hash \in Nat
  BY <1>2, <1>2a DEF Headers
<1>3. d = [m EXCEPT !.queue = q, !.height = b.number, !.hash = b.hash]
  OBVIOUS
<1> HIDE DEF q
<1>4. /\ d \in Monitors /\ d.queue = q /\ d.up = m.up /\ d.expected = m.expected
      /\ d.height = b.number /\ d.hash = b.hash
  BY <1>2, <1>2b, <1>3 DEF Monitors
<1> HIDE DEF n
<1>5. ASSUME NEW k \in 1 .. n
      PROVE  NumberBefore(d, k) = NumberBefore(m, k + 1) /\ HashBefore(d, k) = HashBefore(m, k + 1)
  <2>0. (k + 1) - 1 = k /\ k + 1 # 1
    BY <1>2
  <2>1. CASE k = 1
    BY <1>2, <1>4, <2>0, <2>1 DEF NumberBefore, HashBefore
  <2>2. CASE k # 1
    <3>1. k - 1 \in 1 .. n - 1 /\ (k - 1) + 1 = k
      BY <1>2, <2>2
    <3>2. q[k - 1] = m.queue[k]
      BY <1>2, <3>1
    <3>3. NumberBefore(d, k) = q[k - 1].number /\ HashBefore(d, k) = q[k - 1].hash
      BY <1>4, <2>2 DEF NumberBefore, HashBefore
    <3>4. /\ NumberBefore(m, k + 1) = m.queue[k].number
          /\ HashBefore(m, k + 1) = m.queue[k].hash
      BY <2>0 DEF NumberBefore, HashBefore
    <3>. QED  BY <3>2, <3>3, <3>4
  <2>. QED  BY <2>1, <2>2
<1>6. ASSUME NEW k \in 1 .. n - 1 PROVE Counts(d, k) <=> Counts(m, k + 1)
  <2>1. k \in 1 .. n /\ d.queue[k] = m.queue[k + 1]
    BY <1>2, <1>4
  <2>. QED  BY <1>4, <1>5, <2>1 DEF Counts
<1>7. /\ NumberBefore(d, Len(d.queue) + 1) = NumberBefore(m, n + 1)
      /\ HashBefore(d, Len(d.queue) + 1) = HashBefore(m, n + 1)
  <2>1. Len(d.queue) + 1 = n /\ n \in 1 .. n
    BY <1>2, <1>4
  <2>. QED  BY <1>5, <2>1
<1> DEFINE S == Surprises(m)
           T == Surprises(d)
           f == [k \in T |-> k + 1]
<1>8. S = {k \in 1 .. n : Counts(m, k)} /\ T = {k \in 1 .. n - 1 : Counts(d, k)}
  BY <1>2, <1>4 DEF Surprises, n
<1>9. ASSUME NEW k \in T PROVE k + 1 \in S \ {1} /\ k \in Nat
  <2>1. k \in 1 .. n - 1 /\ Counts(m, k + 1)
    BY <1>6, <1>8
  <2>2. k + 1 \in 1 .. n /\ k + 1 # 1 /\ k \in Nat
    BY <1>2, <2>1
  <2>. QED  BY <1>8, <2>1, <2>2
<1> HIDE DEF S, T
<1>10. f \in Injection(T, S \ {1})
  <2>1. f \in [T -> S \ {1}]
    BY <1>9
  <2>2. \A j, k \in T : f[j] = f[k] => j = k
    BY <1>9
  <2> HIDE DEF f
  <2>. QED  BY <2>1, <2>2 DEF Injection, IsInjective
<1>11. IsFiniteSet(S) /\ Cardinality(S) \in Nat /\ Cardinality(T) \in Nat
  BY <1>4, SurprisesFinite DEF S, T
<1>12. /\ IsFiniteSet(S \ {1})
       /\ Cardinality(S \ {1}) = IF 1 \in S THEN Cardinality(S) - 1 ELSE Cardinality(S)
  BY <1>11, FS_RemoveElement
<1>13. Cardinality(T) <= Cardinality(S \ {1})
  BY <1>10, <1>12, FS_Injection
<1>14. 1 \in S <=> /\ m.height # 0 /\ (b.number # m.height + 1 \/ b.parent # m.hash)
                   /\ b.number # m.expected
  BY <1>2, <1>2a, <1>8 DEF Counts, NumberBefore, HashBefore
<1>15. (IF 1 \in S THEN 1 ELSE 0) + Cardinality(T) <= Cardinality(S)
  BY <1>11, <1>12, <1>13
<1>. QED  BY <1>4, <1>7, <1>14, <1>15 DEF S, T, n

\* A new head of geth is pushed to the monitors that are subscribed.
LEMMA AdoptPushes ==
    ASSUME MonitorTypes, NEW chain \in Seq(Nat), chain # <<>>, Adopt(chain, mon)
    PROVE  /\ l2' = chain /\ Header(chain) \in Headers
           /\ mon' \in [Iter -> Monitors]
           /\ \A i \in Iter : IF mon[i].up
                              THEN mon'[i] = [mon[i] EXCEPT !.queue = Append(@, Header(chain))]
                              ELSE mon'[i] = mon[i]
<1>1. l2' = chain /\ mon \in [Iter -> Monitors]
  BY DEF Adopt, MonitorTypes
<1>2. Len(chain) \in Nat \ {0} /\ \A k \in 1 .. Len(chain) : chain[k] \in Nat
  OBVIOUS
<1>3. Header(chain) \in Headers
  <2>0. ASSUME NEW n \in Nat \ {0} PROVE n \in 1 .. n /\ (n # 1 => n - 1 \in 1 .. n)
    OBVIOUS
  <2>1. Len(chain) \in 1 .. Len(chain) /\ (Len(chain) # 1 => Len(chain) - 1 \in 1 .. Len(chain))
    BY <1>2, <2>0
  <2>. QED  BY <1>2, <2>1 DEF Header, Headers
<1> DEFINE h == Header(chain)
<1>4. mon' = [i \in Iter |-> IF mon[i].up THEN [mon[i] EXCEPT !.queue = Append(@, h)] ELSE mon[i]]
  BY DEF Adopt
<1> HIDE DEF h
<1>5. ASSUME NEW i \in Iter
      PROVE  /\ mon'[i] \in Monitors
             /\ IF mon[i].up THEN mon'[i] = [mon[i] EXCEPT !.queue = Append(@, h)]
                             ELSE mon'[i] = mon[i]
  <2>1. CASE mon[i].up
    <3>1. mon'[i] = [mon[i] EXCEPT !.queue = Append(@, h)]
      BY <1>4, <2>1
    <3>2. mon[i] \in Monitors /\ h \in Headers
      BY <1>1, <1>3 DEF h
    <3>. QED  BY <2>1, <3>1, <3>2, Pushed DEF Longer
  <2>2. CASE ~mon[i].up
    BY <1>1, <1>4, <2>2
  <2>. QED  BY <2>1, <2>2
<1>6. mon' \in [Iter -> Monitors]
  BY <1>4, <1>5
<1>. QED  BY <1>1, <1>3, <1>5, <1>6 DEF h

\* geth adopts a block, which follows the one before, is announced, or is a surprise.
LEMMA AdoptCounts ==
    ASSUME SupInv, MonitorTypes, ReorgInv, UNCHANGED <<sup, tasks, observed>>,
           NEW chain \in Seq(Nat), chain # <<>>, Adopt(chain, mon),
           \/ surprises' = surprises + 1
           \/ /\ surprises' = surprises
              /\ LET m == mon[sup.iter]
                     next == Len(m.queue) + 1
                     h == Header(chain)
                 IN \/ h.number = m.expected
                    \/ NumberBefore(m, next) # 0 /\ m.up =>
                          h.number = NumberBefore(m, next) + 1 /\ h.parent = HashBefore(m, next)
    PROVE  ReorgInv'
<1> DEFINE m == mon[sup.iter]
           d == mon'[sup.iter]
           h == Header(chain)
           next == Len(m.queue) + 1
<1>0. /\ sup.iter \in Iter /\ m \in Monitors /\ observed \in Nat /\ surprises \in Nat
      /\ \A i \in Iter : Ahead(i)' = Ahead(i)
  BY DEF SupInv, SupTypes, MonitorTypes, Ahead
<1>1. /\ l2' = chain /\ h \in Headers /\ d \in Monitors
      /\ IF m.up THEN d = [m EXCEPT !.queue = Append(@, h)] ELSE d = m
      /\ \A i \in Iter : ~mon[i].up => mon'[i] = mon[i]
  BY <1>0, AdoptPushes
<1>2. h.number = Len(chain) /\ h.hash = chain[Len(chain)]
  BY DEF Header
<1>3. /\ observed + Cardinality(Surprises(m)) <= surprises
      /\ Follows(m, l2, tasks[sup.iter])
      /\ \A i \in Iter : Ahead(i) => mon[i] = NewMonitor
  BY DEF ReorgInv
<1>4. \A i \in Iter : Ahead(i)' => mon'[i] = NewMonitor
  BY <1>0, <1>1, <1>3 DEF NewMonitor
<1>5. \/ surprises' = surprises + 1
      \/ /\ surprises' = surprises
         /\ \/ h.number = m.expected
            \/ NumberBefore(m, next) # 0 /\ m.up =>
                 h.number = NumberBefore(m, next) + 1 /\ h.parent = HashBefore(m, next)
  OBVIOUS
<1>6. Cardinality(Surprises(m)) \in Nat /\ Cardinality(Surprises(d)) \in Nat
  BY <1>0, <1>1, SurprisesFinite
<1>7. sup'.iter = sup.iter /\ tasks' = tasks /\ observed' = observed
  OBVIOUS
<1> HIDE DEF m, d, h
<1>8. CASE m.up
  <2>1. d = [m EXCEPT !.queue = Append(@, h)]
    BY <1>1, <1>8
  <2>2. /\ d.up = m.up
        /\ NumberBefore(d, Len(d.queue) + 1) = h.number
        /\ HashBefore(d, Len(d.queue) + 1) = h.hash
        /\ Cardinality(Surprises(d)) <= Cardinality(Surprises(m)) + 1
        /\ (\/ NumberBefore(m, next) = 0
            \/ h.number = NumberBefore(m, next) + 1 /\ h.parent = HashBefore(m, next)
            \/ h.number = m.expected) => Surprises(d) = Surprises(m)
    <3>0. m \in Monitors /\ h \in Headers
      BY <1>0, <1>1
    <3>1. Longer(m, h, d)
      BY <3>0, <2>1, Pushed
    <3>. QED  BY <3>1 DEF Longer
  <2>3. Follows(d, chain, tasks[sup.iter])
    BY <1>2, <1>8, <2>2 DEF Follows
  <2>4. observed + Cardinality(Surprises(d)) <= surprises'
    <3>1. CASE surprises' = surprises + 1
      BY <1>0, <1>3, <1>6, <2>2, <3>1
    <3>2. CASE surprises' = surprises
      <4>1. surprises + 1 # surprises
        BY <1>0
      <4>2. Surprises(d) = Surprises(m)
        BY <1>5, <1>8, <2>2, <3>2, <4>1
      <4>. QED  BY <1>3, <3>2, <4>2
    <3>. QED  BY <1>5, <3>1, <3>2
  <2>. QED  BY <1>1, <1>4, <1>7, <2>3, <2>4 DEF ReorgInv, d
<1>9. CASE ~m.up
  <2>1. d = m
    BY <1>1, <1>9
  <2>2. Follows(d, chain, tasks[sup.iter])
    BY <1>3, <1>9, <2>1 DEF Follows
  <2>3. observed + Cardinality(Surprises(d)) <= surprises'
    <3>1. surprises <= surprises' /\ surprises' \in Nat
      BY <1>0, <1>5
    <3>. QED  BY <1>0, <1>3, <1>6, <2>1, <3>1
  <2>. QED  BY <1>1, <1>4, <1>7, <2>2, <2>3 DEF ReorgInv, d
<1>10. m.up \in BOOLEAN
  BY <1>0 DEF Monitors
<1>. QED  BY <1>8, <1>9

\* A step that concerns one monitor.
LEMMA OneMonitor ==
    ASSUME SupInv, MonitorTypes, ReorgInv, UNCHANGED <<sup, tasks, l2, surprises>>,
           NEW i \in Iter, ~Ahead(i), NEW d \in Monitors, mon' = [mon EXCEPT ![i] = d],
           i # sup.iter => observed' = observed,
           i = sup.iter => /\ observed' + Cardinality(Surprises(d)) <= surprises
                           /\ Follows(d, l2, tasks[i])
    PROVE  ReorgInv'
<1>1. sup.iter \in Iter /\ mon \in [Iter -> Monitors]
  BY DEF SupInv, SupTypes, MonitorTypes
<1>2. mon'[i] = d /\ \A j \in Iter : j # i => mon'[j] = mon[j]
  BY <1>1
<1>3. sup'.iter = sup.iter /\ l2' = l2 /\ tasks' = tasks /\ surprises' = surprises
  OBVIOUS
<1>4. \A j \in Iter : Ahead(j)' = Ahead(j)
  BY DEF Ahead
<1>5. \A j \in Iter : Ahead(j)' => mon'[j] = NewMonitor
  BY <1>2, <1>4 DEF ReorgInv
<1>6. /\ observed' + Cardinality(Surprises(mon'[sup.iter])) <= surprises
      /\ Follows(mon'[sup.iter], l2, tasks[sup.iter])
  <2>1. CASE i = sup.iter
    BY <1>2, <2>1
  <2>2. CASE i # sup.iter
    BY <1>1, <1>2, <2>2 DEF ReorgInv
  <2>. QED  BY <2>1, <2>2
<1>. QED  BY <1>3, <1>5, <1>6 DEF ReorgInv

\* Marking a subscription or an announcement.
LEMMA SetUp ==
    ASSUME NEW m \in Monitors, NEW u \in BOOLEAN, NEW d, d = [m EXCEPT !.up = u]
    PROVE  /\ d \in Monitors /\ d.up = u /\ Surprises(d) = Surprises(m)
           /\ NumberBefore(d, Len(d.queue) + 1) = NumberBefore(m, Len(m.queue) + 1)
           /\ HashBefore(d, Len(d.queue) + 1) = HashBefore(m, Len(m.queue) + 1)
<1>1. /\ d \in Monitors /\ d.up = u /\ d.queue = m.queue /\ d.height = m.height
      /\ d.hash = m.hash /\ d.expected = m.expected
  BY DEF Monitors
<1>2. \A k : NumberBefore(d, k) = NumberBefore(m, k) /\ HashBefore(d, k) = HashBefore(m, k)
  BY <1>1 DEF NumberBefore, HashBefore
<1>3. \A k : Counts(d, k) <=> Counts(m, k)
  BY <1>1, <1>2 DEF Counts
<1>. QED  BY <1>1, <1>2, <1>3 DEF Surprises

\* An announcement is stored.
LEMMA SetExpected ==
    ASSUME NEW m \in Monitors, NEW n \in Nat, NEW d, d = [m EXCEPT !.expected = n]
    PROVE  /\ d \in Monitors /\ d.up = m.up
           /\ m.queue = <<>> => Surprises(d) = Surprises(m)
           /\ NumberBefore(d, Len(d.queue) + 1) = NumberBefore(m, Len(m.queue) + 1)
           /\ HashBefore(d, Len(d.queue) + 1) = HashBefore(m, Len(m.queue) + 1)
<1>1. /\ d \in Monitors /\ d.up = m.up /\ d.queue = m.queue /\ d.height = m.height
      /\ d.hash = m.hash
  BY DEF Monitors
<1>2. \A k : NumberBefore(d, k) = NumberBefore(m, k) /\ HashBefore(d, k) = HashBefore(m, k)
  BY <1>1 DEF NumberBefore, HashBefore
<1>3. Len(<<>>) = 0
  OBVIOUS
<1>4. m.queue = <<>> => Surprises(d) = {} /\ Surprises(m) = {}
  BY <1>1, <1>3 DEF Surprises
<1>. QED  BY <1>1, <1>2, <1>4

\* A new monitor will count nothing.
LEMMA NewIsQuiet ==
    NewMonitor \in Monitors /\ Surprises(NewMonitor) = {}
    /\ \A c, ts : Follows(NewMonitor, c, ts)
<1>1. NewMonitor \in Monitors /\ NewMonitor.queue = <<>> /\ NewMonitor.height = 0
  BY DEF NewMonitor, Monitors
<1>2. Len(<<>>) = 0
  OBVIOUS
<1>3. Surprises(NewMonitor) = {}
  BY <1>1, <1>2 DEF Surprises
<1>4. NumberBefore(NewMonitor, Len(NewMonitor.queue) + 1) = 0
  BY <1>1, <1>2 DEF NumberBefore
<1>. QED  BY <1>1, <1>3, <1>4 DEF Follows

\* No header, no reorg.
LEMMA MonitorInitially == Init => MonitorInv
<1> SUFFICES ASSUME Init PROVE MonitorInv
  OBVIOUS
<1>1. /\ l2 = <<0>> /\ version = 0 /\ surprises = 0 /\ observed = 0
      /\ mon = [i \in Iter |-> NewMonitor] /\ sup.iter \in Iter
  BY ProcessAssumption DEF Init, MonitorInit, SupervisorInit, Iter
<1>2. MonitorTypes
  BY <1>1, NewIsQuiet DEF MonitorTypes
<1>3. ReorgInv
  BY <1>1, NewIsQuiet, FS_EmptySet DEF ReorgInv
<1>. QED  BY <1>1, <1>2, <1>3 DEF MonitorInv

\* A reorg cuts the chain of geth.
LEMMA ChainCuts ==
    ASSUME NEW c \in Seq(Nat), NEW n \in 1 .. Len(c)
    PROVE  /\ SubSeq(c, 1, n) \in Seq(Nat) /\ SubSeq(c, 1, n) # <<>> /\ Len(SubSeq(c, 1, n)) = n
           /\ SubSeq(c, 1, n - 1) \in Seq(Nat)
<1>1. n \in Int /\ n - 1 \in Int /\ \A k \in 1 .. n : c[k] \in Nat
  OBVIOUS
<1>2. SubSeq(c, 1, n) \in Seq(Nat) /\ Len(SubSeq(c, 1, n)) = n
  BY <1>1
<1>3. SubSeq(c, 1, n - 1) \in Seq(Nat)
  BY <1>1
<1>4. SubSeq(c, 1, n) # <<>>
  BY <1>2
<1>. QED  BY <1>2, <1>3, <1>4

\* The steps of geth and of the node keep the types.
LEMMA ChainKeepsTypes ==
    ASSUME MonitorTypes, ChainSteps
    PROVE  MonitorTypes'
<1>0. /\ l2 \in Seq(Nat) /\ l2 # <<>> /\ version \in Nat /\ observed \in Nat /\ surprises \in Nat
      /\ mon \in [Iter -> Monitors]
  BY DEF MonitorTypes
<1>1. CASE GethExtends
  <2> DEFINE c == Append(l2, version)
  <2>1. c \in Seq(Nat) /\ c # <<>>
    BY <1>0
  <2>2. Adopt(c, mon) /\ UNCHANGED <<version, surprises, observed>>
    BY <1>1 DEF GethExtends
  <2> HIDE DEF c
  <2>3. l2' = c /\ mon' \in [Iter -> Monitors]
    BY <2>1, <2>2, AdoptPushes
  <2>. QED  BY <1>0, <2>1, <2>2, <2>3 DEF MonitorTypes
<1>2. CASE GethReorgs
  <2>1. PICK n \in 1 .. Len(l2) :
          /\ version' = version + 1 /\ surprises' = surprises + 1
          /\ Adopt(Append(SubSeq(l2, 1, n - 1), version'), mon)
          /\ observed' = observed
    BY <1>2 DEF GethReorgs
  <2> DEFINE c == Append(SubSeq(l2, 1, n - 1), version')
  <2>2. version' \in Nat /\ surprises' \in Nat /\ SubSeq(l2, 1, n - 1) \in Seq(Nat)
    BY <1>0, <2>1, ChainCuts
  <2>3. c \in Seq(Nat) /\ c # <<>>
    BY <2>2
  <2>4. Adopt(c, mon)
    BY <2>1
  <2> HIDE DEF c
  <2>5. l2' = c /\ mon' \in [Iter -> Monitors]
    BY <2>3, <2>4, AdoptPushes
  <2>. QED  BY <1>0, <2>1, <2>2, <2>3, <2>5 DEF MonitorTypes
<1>3. CASE Announce
  <2>1. PICK n \in 1 .. Len(l2) - 1 : mon' = [mon EXCEPT ![sup.iter].expected = n]
    BY <1>3 DEF Announce
  <2>2. n \in Nat
    OBVIOUS
  <2>3. ASSUME NEW i \in Iter PROVE [mon[i] EXCEPT !.expected = n] \in Monitors
    BY <1>0, <2>2, SetExpected
  <2>4. mon' \in [Iter -> Monitors]
    BY <1>0, <2>1, <2>3
  <2>. QED  BY <1>0, <1>3, <2>4 DEF Announce, MonitorTypes
<1>4. CASE NodeReanchors
  <2> DEFINE n == mon[sup.iter].expected
             c == SubSeq(l2, 1, n)
  <2>1. /\ n \in 1 .. Len(l2) - 1 /\ version' = version + 1 /\ Adopt(c, mon)
        /\ UNCHANGED <<surprises, observed>>
    BY <1>4 DEF NodeReanchors
  <2>2. n \in 1 .. Len(l2)
    BY <1>0, <2>1
  <2>3. c \in Seq(Nat) /\ c # <<>>
    BY <1>0, <2>2, ChainCuts
  <2> HIDE DEF c
  <2>4. l2' = c /\ mon' \in [Iter -> Monitors]
    BY <2>1, <2>3, AdoptPushes
  <2>. QED  BY <1>0, <2>1, <2>3, <2>4 DEF MonitorTypes
<1>5. CASE L1Extends
  BY <1>5 DEF L1Extends, MonitorTypes
<1>. QED  BY <1>1, <1>2, <1>3, <1>4, <1>5 DEF ChainSteps

\* A reorg is a surprise, or announced; a new block is neither.
LEMMA ChainKeepsCount ==
    ASSUME SupInv, MonitorTypes, ReorgInv, Quiet, UNCHANGED <<supVars, scenario>>, ChainSteps
    PROVE  ReorgInv'
<1> DEFINE m == mon[sup.iter]
           next == Len(m.queue) + 1
<1>0. /\ l2 \in Seq(Nat) /\ l2 # <<>> /\ version \in Nat /\ surprises \in Nat
      /\ mon \in [Iter -> Monitors] /\ sup.iter \in Iter /\ m \in Monitors
      /\ UNCHANGED <<sup, tasks>>
  BY DEF MonitorTypes, SupInv, SupTypes, supVars
<1>1. CASE GethExtends
  <2> DEFINE c == Append(l2, version)
             h == Header(c)
  <2>1. /\ c \in Seq(Nat) /\ c # <<>> /\ Len(c) = Len(l2) + 1 /\ Len(l2) \in Nat \ {0}
        /\ c[Len(l2)] = l2[Len(l2)]
    BY <1>0
  <2>2. Adopt(c, mon) /\ UNCHANGED <<surprises, observed>>
    BY <1>1 DEF GethExtends
  <2> HIDE DEF c
  <2>3. Len(c) # 1 /\ Len(c) - 1 = Len(l2)
    BY <2>1
  <2>4. h.number = Len(l2) + 1 /\ h.parent = l2[Len(l2)]
    BY <2>1, <2>3 DEF Header
  <2>5. NumberBefore(m, next) # 0 /\ m.up =>
           h.number = NumberBefore(m, next) + 1 /\ h.parent = HashBefore(m, next)
    BY <2>4 DEF ReorgInv, Follows
  <2>. QED  BY <1>0, <2>1, <2>2, <2>5, AdoptCounts
<1>2. CASE GethReorgs
  <2>1. PICK n \in 1 .. Len(l2) :
          /\ version' = version + 1 /\ surprises' = surprises + 1
          /\ Adopt(Append(SubSeq(l2, 1, n - 1), version'), mon)
          /\ observed' = observed
    BY <1>2 DEF GethReorgs
  <2> DEFINE c == Append(SubSeq(l2, 1, n - 1), version')
  <2>2. version' \in Nat /\ SubSeq(l2, 1, n - 1) \in Seq(Nat)
    BY <1>0, <2>1, ChainCuts
  <2>3. c \in Seq(Nat) /\ c # <<>>
    BY <2>2
  <2>4. Adopt(c, mon)
    BY <2>1
  <2> HIDE DEF c
  <2>. QED  BY <1>0, <2>1, <2>3, <2>4, AdoptCounts
<1>3. CASE Announce
  <2>1. PICK n \in 1 .. Len(l2) - 1 : mon' = [mon EXCEPT ![sup.iter].expected = n]
    BY <1>3 DEF Announce
  <2> DEFINE d == [m EXCEPT !.expected = n]
  <2>2. n \in Nat
    OBVIOUS
  <2>3. m.queue = <<>> /\ "loop" \in tasks[sup.iter] /\ UNCHANGED <<l2, surprises, observed>>
    BY <1>3 DEF Announce, Quiet, Without
  <2>4. mon' = [mon EXCEPT ![sup.iter] = d]
    BY <1>0, <2>1
  <2>5. /\ d \in Monitors /\ d.up = m.up
        /\ m.queue = <<>> => Surprises(d) = Surprises(m)
        /\ NumberBefore(d, Len(d.queue) + 1) = NumberBefore(m, Len(m.queue) + 1)
        /\ HashBefore(d, Len(d.queue) + 1) = HashBefore(m, Len(m.queue) + 1)
    BY <1>0, <2>2, SetExpected
  <2> HIDE DEF d
  <2>6. /\ observed' + Cardinality(Surprises(d)) <= surprises
        /\ Follows(d, l2, tasks[sup.iter])
    BY <2>3, <2>5 DEF ReorgInv, Follows
  <2>7. ~Ahead(sup.iter)
    BY <1>0, <2>3 DEF SupInv
  <2>. QED  BY <1>0, <2>3, <2>4, <2>5, <2>6, <2>7, OneMonitor
<1>4. CASE NodeReanchors
  <2> DEFINE n == m.expected
             c == SubSeq(l2, 1, n)
  <2>1. n \in 1 .. Len(l2) - 1 /\ Adopt(c, mon) /\ UNCHANGED <<surprises, observed>>
    BY <1>4 DEF NodeReanchors
  <2>2. n \in 1 .. Len(l2)
    BY <1>0, <2>1
  <2>3. c \in Seq(Nat) /\ c # <<>> /\ Len(c) = n
    BY <1>0, <2>2, ChainCuts
  <2> HIDE DEF c
  <2>4. Header(c).number = m.expected
    BY <2>3 DEF Header
  <2>. QED  BY <1>0, <2>1, <2>3, <2>4, AdoptCounts
<1>5. CASE L1Extends
  <2>1. UNCHANGED <<l2, surprises, observed, mon>> /\ \A j \in Iter : Ahead(j)' = Ahead(j)
    BY <1>0, <1>5 DEF L1Extends, Ahead
  <2>. QED  BY <1>0, <2>1 DEF ReorgInv
<1>. QED  BY <1>1, <1>2, <1>3, <1>4, <1>5 DEF ChainSteps

\* The steps of a monitor change its own record.
LEMMA MonitorStepsType ==
    ASSUME MonitorTypes, NEW i \in Iter,
           Subscribe(i) \/ Disconnect(i) \/ Dispatch(i) \/ Connect(i) \/ Poll(i) \/ ListenerFails(i)
    PROVE  MonitorTypes'
<1>0. /\ observed \in Nat /\ mon \in [Iter -> Monitors] /\ mon[i] \in Monitors
  BY DEF MonitorTypes
<1>1. CASE Subscribe(i) \/ Disconnect(i)
  <2>1. PICK u \in BOOLEAN : mon' = [mon EXCEPT ![i].up = u]
    BY <1>1 DEF Subscribe, Disconnect
  <2>2. [mon[i] EXCEPT !.up = u] \in Monitors
    BY <1>0, SetUp
  <2>3. mon' \in [Iter -> Monitors]
    BY <1>0, <2>1, <2>2
  <2>. QED  BY <1>1, <2>3 DEF Subscribe, Disconnect, MonitorTypes
<1>2. CASE Dispatch(i)
  <2> DEFINE m == mon[i]
             b == Head(m.queue)
             d == [m EXCEPT !.queue = Tail(@), !.height = b.number, !.hash = b.hash]
  <2>1. /\ m.queue # <<>> /\ mon' = [mon EXCEPT ![i] = d]
        /\ observed' = observed \/ observed' = observed + 1
        /\ UNCHANGED <<l2, version, surprises>>
    BY <1>0, <1>2 DEF Dispatch
  <2>2. d \in Monitors
    BY <1>0, <2>1, Popped
  <2> HIDE DEF d
  <2>3. mon' \in [Iter -> Monitors] /\ observed' \in Nat
    BY <1>0, <2>1, <2>2
  <2>. QED  BY <2>1, <2>3 DEF MonitorTypes
<1>3. CASE Connect(i) \/ Poll(i) \/ ListenerFails(i)
  BY <1>3 DEF Connect, Poll, ListenerFails, MonitorTypes
<1>. QED  BY <1>1, <1>2, <1>3

\* The steps of a monitor only move what will be counted to what was.
LEMMA MonitorKeepsCount ==
    ASSUME SupInv, MonitorTypes, ReorgInv, Quiet, Shasta, UNCHANGED <<supVars, scenario>>,
           NEW i \in Iter,
           Subscribe(i) \/ Disconnect(i) \/ Dispatch(i) \/ Connect(i) \/ Poll(i) \/ ListenerFails(i)
    PROVE  ReorgInv'
<1> DEFINE m == mon[i]
<1>0. /\ observed \in Nat /\ surprises \in Nat /\ mon \in [Iter -> Monitors] /\ m \in Monitors
      /\ UNCHANGED <<sup, tasks>>
  BY DEF MonitorTypes, supVars
<1>1. tasks[i] # {} => i = sup.iter /\ ~Ahead(i)
  <2>1. Alone
    BY DEF Quiet, Alone, Without
  <2>. QED  BY <2>1 DEF SupInv
<1>2. /\ i = sup.iter => /\ observed + Cardinality(Surprises(m)) <= surprises
                         /\ Follows(m, l2, tasks[i])
      /\ Ahead(i) => m = NewMonitor
  BY DEF ReorgInv
<1>3. CASE Subscribe(i)
  <2> DEFINE d == [m EXCEPT !.up = TRUE]
  <2>1. /\ mon' = [mon EXCEPT ![i] = d] /\ ~m.up /\ "blocks" \in tasks[i]
        /\ UNCHANGED <<l2, surprises, observed>>
    BY <1>0, <1>3 DEF Subscribe
  <2>2. /\ d \in Monitors /\ d.up = TRUE /\ Surprises(d) = Surprises(m)
        /\ NumberBefore(d, Len(d.queue) + 1) = NumberBefore(m, Len(m.queue) + 1)
    <3>1. m \in Monitors /\ d = [m EXCEPT !.up = TRUE]
      BY <1>0
    <3> HIDE DEF d, m
    <3>. QED  BY <3>1, SetUp
  <2> HIDE DEF d
  <2>3. i = sup.iter /\ ~Ahead(i)
    BY <1>1, <2>1
  <2>4. Follows(d, l2, tasks[i])
    BY <1>2, <2>1, <2>2, <2>3 DEF Follows
  <2>. QED  BY <1>0, <1>2, <2>1, <2>2, <2>3, <2>4, OneMonitor
<1>4. CASE Disconnect(i)
  <2> DEFINE d == [m EXCEPT !.up = FALSE]
  <2>1. /\ mon' = [mon EXCEPT ![i] = d] /\ m.up /\ "blocks" \notin tasks[i]
        /\ UNCHANGED <<l2, surprises, observed>>
    BY <1>0, <1>4 DEF Disconnect, Quiet, Without
  <2>2. d \in Monitors /\ d.up = FALSE /\ Surprises(d) = Surprises(m)
    BY <1>0, SetUp
  <2> HIDE DEF d
  <2>3. ~Ahead(i)
    BY <1>2, <2>1 DEF NewMonitor
  <2>4. Follows(d, l2, tasks[i])
    BY <2>1, <2>2 DEF Follows
  <2>. QED  BY <1>0, <1>2, <2>1, <2>2, <2>3, <2>4, OneMonitor
<1>5. CASE Dispatch(i)
  <2> DEFINE b == Head(m.queue)
             d == [m EXCEPT !.queue = Tail(@), !.height = b.number, !.hash = b.hash]
             counted == /\ m.height # 0 /\ (b.number # m.height + 1 \/ b.parent # m.hash)
                        /\ b.number # m.expected
  <2>1. /\ m.queue # <<>> /\ mon' = [mon EXCEPT ![i] = d] /\ "dispatcher" \in tasks[i]
        /\ observed' = observed + IF counted THEN 1 ELSE 0
        /\ UNCHANGED <<l2, surprises>>
    BY <1>0, <1>5 DEF Dispatch
  <2>2. /\ d \in Monitors /\ d.up = m.up
        /\ NumberBefore(d, Len(d.queue) + 1) = NumberBefore(m, Len(m.queue) + 1)
        /\ HashBefore(d, Len(d.queue) + 1) = HashBefore(m, Len(m.queue) + 1)
        /\ (IF counted THEN 1 ELSE 0) + Cardinality(Surprises(d)) <= Cardinality(Surprises(m))
    BY <1>0, <2>1, Popped
  <2> HIDE DEF d, counted
  <2>3. i = sup.iter /\ ~Ahead(i)
    BY <1>1, <2>1
  <2>4. Follows(d, l2, tasks[i])
    BY <1>2, <2>2, <2>3 DEF Follows
  <2>5. Cardinality(Surprises(d)) \in Nat /\ Cardinality(Surprises(m)) \in Nat
    BY <1>0, <2>2, SurprisesFinite
  <2>6. observed' + Cardinality(Surprises(d)) <= surprises
    <3> DEFINE x == Cardinality(Surprises(d))
               y == Cardinality(Surprises(m))
               c == IF counted THEN 1 ELSE 0
    <3>1. c \in Nat
      OBVIOUS
    <3>2. x \in Nat /\ y \in Nat /\ c + x <= y /\ observed' = observed + c
      BY <2>1, <2>2, <2>5
    <3>3. observed + y <= surprises /\ observed \in Nat /\ surprises \in Nat
      BY <1>0, <1>2, <2>3
    <3> HIDE DEF x, y, c
    <3>4. observed' + x <= surprises
      BY <3>1, <3>2, <3>3
    <3>. QED  BY <3>4 DEF x
  <2>. QED  BY <1>0, <2>1, <2>2, <2>3, <2>4, <2>6, OneMonitor
<1>6. CASE Connect(i) \/ Poll(i) \/ ListenerFails(i)
  <2>1. UNCHANGED <<l2, surprises, observed, mon>> /\ \A j \in Iter : Ahead(j)' = Ahead(j)
    BY <1>0, <1>6 DEF Connect, Poll, ListenerFails, Ahead
  <2>. QED  BY <1>0, <2>1 DEF ReorgInv
<1>. QED  BY <1>3, <1>4, <1>5, <1>6

\* The steps of main: a new iteration has a new monitor.
LEMMA SupKeepsCount ==
    ASSUME SupInv, MonitorTypes, ReorgInv, [Next]_vars, UNCHANGED monVars
    PROVE  ReorgInv'
<1>0. /\ observed \in Nat /\ surprises \in Nat /\ mon \in [Iter -> Monitors] /\ sup.iter \in Iter
      /\ UNCHANGED <<l2, surprises, observed, mon>>
  BY DEF MonitorTypes, SupInv, SupTypes, monVars
<1>1. ASSUME NEW i \in Iter
      PROVE  /\ Ahead(i)' => Ahead(i)
             /\ ~Ahead(i) => ("blocks" \in tasks'[i] => "blocks" \in tasks[i])
             /\ sup'.iter \in Iter /\ (sup'.iter = sup.iter \/ Ahead(sup'.iter))
  BY BeginsOnce DEF MonitorTasks
<1>2. \A i \in Iter : Ahead(i)' => mon'[i] = NewMonitor
  BY <1>0, <1>1 DEF ReorgInv
<1>3. Cardinality(Surprises(mon[sup.iter])) \in Nat
  BY <1>0, SurprisesFinite
<1>4. CASE Ahead(sup'.iter)
  <2>1. mon[sup'.iter] = NewMonitor
    BY <1>0, <1>1, <1>4 DEF ReorgInv
  <2>2. Cardinality(Surprises(NewMonitor)) = 0
    BY NewIsQuiet, FS_EmptySet
  <2>3. observed <= surprises
    BY <1>0, <1>3 DEF ReorgInv
  <2>4. observed' + Cardinality(Surprises(mon'[sup'.iter])) <= surprises'
    BY <1>0, <2>1, <2>2, <2>3
  <2>5. Follows(mon[sup'.iter], l2', tasks'[sup'.iter])
    BY <2>1, NewIsQuiet
  <2>. QED  BY <1>0, <1>2, <2>4, <2>5 DEF ReorgInv
<1>5. CASE ~Ahead(sup'.iter)
  <2>1. sup'.iter = sup.iter /\ ("blocks" \in tasks'[sup.iter] => "blocks" \in tasks[sup.iter])
    BY <1>0, <1>1, <1>5
  <2>2. Follows(mon[sup.iter], l2, tasks'[sup.iter])
    BY <2>1 DEF ReorgInv, Follows
  <2>. QED  BY <1>0, <1>2, <2>1, <2>2 DEF ReorgInv
<1>. QED  BY <1>4, <1>5

\* Every step keeps the invariant.
LEMMA MonitorInductive == SupInv /\ MonitorInv /\ [Next]_vars => MonitorInv'
<1> SUFFICES ASSUME SupInv, MonitorInv, [Next]_vars PROVE MonitorInv'
  OBVIOUS
<1>1. scenario' = scenario
  BY BeginsOnce DEF SupInv, SupTypes
<1>2. Shasta' = Shasta /\ Quiet' = Quiet
  BY <1>1 DEF Shasta, Quiet, Without
<1>3. CASE UNCHANGED monVars
  <2>1. MonitorTypes' /\ (~Shasta' => observed' = 0)
    BY <1>2, <1>3 DEF monVars, MonitorInv, MonitorTypes
  <2>2. (Shasta /\ Quiet)' => ReorgInv'
    BY <1>2, <1>3, SupKeepsCount DEF MonitorInv
  <2>. QED  BY <2>1, <2>2 DEF MonitorInv
<1>4. CASE Shasta /\ ChainSteps /\ UNCHANGED supVars
  BY <1>1, <1>2, <1>4, ChainKeepsTypes, ChainKeepsCount DEF MonitorInv
<1>5. CASE Shasta /\ MonitorSteps /\ UNCHANGED supVars
  BY <1>1, <1>2, <1>5, MonitorStepsType, MonitorKeepsCount DEF MonitorInv, MonitorSteps
<1>. QED  BY <1>3, <1>4, <1>5 DEF Next, vars, monVars

(***************************************************************************)
(* handle_incoming_messages counts no more reorgs than geth had that       *)
(* set_expected_reorg did not announce.                                    *)
(***************************************************************************)
THEOREM CountsSurprises == Spec => []ReorgsAreReal
<1>1. SupInv /\ MonitorInv => ReorgsAreReal
  <2> SUFFICES ASSUME SupInv, MonitorInv, Quiet PROVE observed <= surprises
    BY DEF ReorgsAreReal, Quiet
  <2>1. observed \in Nat /\ surprises \in Nat
    BY DEF MonitorInv, MonitorTypes
  <2>2. CASE ~Shasta
    BY <2>1, <2>2 DEF MonitorInv
  <2>3. CASE Shasta
    <3>1. sup.iter \in Iter /\ mon[sup.iter] \in Monitors
      BY DEF SupInv, SupTypes, MonitorInv, MonitorTypes
    <3>2. Cardinality(Surprises(mon[sup.iter])) \in Nat
      BY <3>1, SurprisesFinite
    <3>. QED  BY <2>1, <2>3, <3>2 DEF MonitorInv, ReorgInv
  <2>. QED  BY <2>2, <2>3
<1>. QED  BY <1>1, SupInitially, SupInductive, MonitorInitially, MonitorInductive, PTL DEF Spec
=============================================================================
