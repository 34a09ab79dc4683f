-------------------------- MODULE Lookahead_proofs -------------------------
(***************************************************************************)
(* What the monitor has indexed is true, and what the builder answers is   *)
(* of the epoch, skips no preconfer and names only operators that opted    *)
(* in: for any number of operators and keys, any chain of registry events, *)
(* any depth of reorgs up to the one that the monitor waits for, and any   *)
(* lengths of slots and epochs.                                            *)
(*                                                                         *)
(* The database is between two sets (RegInv).  Every row in it was written *)
(* by an event of a final block (UpperInv), and every row of an event up   *)
(* to the indexed block is in it (LowerInv); what an interrupted pass has  *)
(* left is in between.  Final blocks are those ForkDepth below the highest *)
(* block that L1 has had: no reorg reaches them (KeepsFinal), and the head *)
(* that the monitor reads is never higher.                                 *)
(*                                                                         *)
(* The builder keeps two lookaheads, of an epoch and the next one          *)
(* (BuilderInv).  The entries of each are of slots of its epoch and in     *)
(* their order (Placed), and all entries before the index are over.        *)
(***************************************************************************)
EXTENDS Lookahead, TLAPS

-----------------------------------------------------------------------------
(* Rows and their statements.                                              *)

Tables == {"operators", "keys", "protocols", "unregistered", "slashed"}
Rows == [table : Tables, root : Roots, idx : Nat]

\* The length and the elements of a concatenation.
LEMMA ConcatLen ==
    ASSUME NEW S, NEW u \in Seq(S), NEW w \in Seq(S)
    PROVE  u \o w \in Seq(S) /\ Len(u \o w) = Len(u) + Len(w)
OBVIOUS

\* The elements of a concatenation.
LEMMA ConcatElement ==
    ASSUME NEW S, NEW u \in Seq(S), NEW w \in Seq(S)
    PROVE  \A j \in 1 .. Len(u) + Len(w) :
              (u \o w)[j] = IF j <= Len(u) THEN u[j] ELSE w[j - Len(u)]
OBVIOUS

\* A sequence with one more element in front.
LEMMA ConsSeq ==
    ASSUME NEW S, NEW u \in Seq(S), NEW w \in Seq(S), Len(u) = 1
    PROVE  /\ u \o w \in Seq(S)
           /\ Len(u \o w) = 1 + Len(w)
           /\ \A j \in 1 .. 1 + Len(w) : (u \o w)[j] = IF j <= 1 THEN u[j] ELSE w[j - 1]
<1>1. /\ u \o w \in Seq(S)
      /\ Len(u \o w) = Len(u) + Len(w)
      /\ \A j \in 1 .. Len(u) + Len(w) : (u \o w)[j] = IF j <= Len(u) THEN u[j] ELSE w[j - Len(u)]
  <2>1. u \o w \in Seq(S) /\ Len(u \o w) = Len(u) + Len(w)
    BY ConcatLen
  <2>2. \A j \in 1 .. Len(u) + Len(w) : (u \o w)[j] = IF j <= Len(u) THEN u[j] ELSE w[j - Len(u)]
    BY ConcatElement
  <2>. QED  BY <2>1, <2>2
<1>. DEFINE r == u \o w
<1>. HIDE DEF r
<1>2. /\ r \in Seq(S)
      /\ Len(r) = 1 + Len(w)
      /\ \A j \in 1 .. 1 + Len(w) : r[j] = IF j <= 1 THEN u[j] ELSE w[j - 1]
  BY <1>1 DEF r
<1>. QED  BY <1>2 DEF r

\* The event that a row comes from.
KindOf(row) ==
    CASE row.table \in {"operators", "keys"} -> "register"
      [] row.table = "protocols" -> "optin"
      [] row.table = "unregistered" -> "unregister"
      [] OTHER -> "slash"

\* The statements of an event write rows of its kind and its operator.
LEMMA RowsOfEvent ==
    ASSUME NEW e \in Events
    PROVE  /\ RowsOf(e) \in Seq(Rows)
           /\ \A j \in 1 .. Len(RowsOf(e)) :
                 KindOf(RowsOf(e)[j]) = e.kind /\ RowsOf(e)[j].root = e.root
           /\ e.kind = "register" => 1 \in 1 .. Len(RowsOf(e)) /\ RowsOf(e)[1] = Row("operators", e.root, 0)
<1>. DEFINE keys == [i \in 1 .. Len(Keys[e.root]) |-> Row("keys", e.root, i)]
            first == <<Row("operators", e.root, 0)>>
<1>1. e.root \in Roots /\ e.kind \in {"register", "optin", "unregister", "slash"}
  BY DEF Events
<1>2. CASE e.kind = "register"
  <2>1. Keys[e.root] \in Seq(Validators) /\ Len(Keys[e.root]) \in Nat
    BY <1>1, RegistryAssumption
  <2>2. keys \in Seq(Rows) /\ Len(keys) = Len(Keys[e.root])
        /\ \A i \in 1 .. Len(keys) : keys[i] = Row("keys", e.root, i)
    BY <1>1, <2>1 DEF Rows, Tables, Row
  <2>3. first \in Seq(Rows) /\ Len(first) = 1 /\ first[1] = Row("operators", e.root, 0)
    BY <1>1 DEF Rows, Tables, Row
  <2>4. RowsOf(e) = first \o keys
    BY <1>2 DEF RowsOf, IndexRegister
  <2>. HIDE DEF keys, first
  <2>5. /\ first \o keys \in Seq(Rows)
        /\ Len(first \o keys) = 1 + Len(keys)
        /\ \A j \in 1 .. 1 + Len(keys) : (first \o keys)[j] = IF j <= 1 THEN first[j] ELSE keys[j - 1]
    BY <2>2, <2>3, ConsSeq
  <2>6. \A j \in 1 .. 1 + Len(keys) :
           \/ (first \o keys)[j] = Row("operators", e.root, 0)
           \/ \E i \in Nat : (first \o keys)[j] = Row("keys", e.root, i)
    <3>. SUFFICES ASSUME NEW j \in 1 .. 1 + Len(keys)
                  PROVE  \/ (first \o keys)[j] = Row("operators", e.root, 0)
                         \/ \E i \in Nat : (first \o keys)[j] = Row("keys", e.root, i)
      OBVIOUS
    <3>0. Len(keys) \in Nat /\ j \in Int
      BY <2>1, <2>2
    <3>1. CASE j = 1
      BY <2>3, <2>5, <3>1
    <3>2. CASE j # 1
      <4>1. j - 1 \in 1 .. Len(keys) /\ ~(j <= 1) /\ j - 1 \in Nat
        BY <3>0, <3>2
      <4>2. (first \o keys)[j] = keys[j - 1]
        BY <2>5, <4>1
      <4>. QED  BY <2>2, <4>1, <4>2
    <3>. QED  BY <3>1, <3>2
  <2>7. \A j \in 1 .. 1 + Len(keys) :
           KindOf((first \o keys)[j]) = "register" /\ (first \o keys)[j].root = e.root
    <3>1. /\ KindOf(Row("operators", e.root, 0)) = "register" /\ Row("operators", e.root, 0).root = e.root
          /\ \A i : KindOf(Row("keys", e.root, i)) = "register" /\ Row("keys", e.root, i).root = e.root
      BY DEF KindOf, Row
    <3>. QED  BY <2>6, <3>1
  <2>. QED  BY <1>2, <2>2, <2>3, <2>4, <2>5, <2>7
<1>3. CASE e.kind = "optin"
  BY <1>1, <1>3 DEF RowsOf, IndexOptIn, Rows, Tables, Row, KindOf
<1>4. CASE e.kind = "unregister"
  BY <1>1, <1>4 DEF RowsOf, IndexUnregister, Rows, Tables, Row, KindOf
<1>5. CASE e.kind = "slash"
  BY <1>1, <1>5 DEF RowsOf, IndexSlash, Rows, Tables, Row, KindOf
<1>. QED  BY <1>1, <1>2, <1>3, <1>4, <1>5

\* A statement for row is in block k; there is one for the logs in block k;
\* there is one in the blocks after a up to b.
WrittenIn(c, row, k) ==
    \E i \in 1 .. Len(c[k]) : \E j \in 1 .. Len(RowsOf(c[k][i])) : row = RowsOf(c[k][i])[j]
LoggedIn(c, logs, row, k) ==
    \E i \in 1 .. Len(c[k]) :
        <<k, i>> \in logs /\ \E j \in 1 .. Len(RowsOf(c[k][i])) : row = RowsOf(c[k][i])[j]
InRange(c, row, a, b) == \E k \in 1 .. Len(c) : a < k /\ k <= b /\ WrittenIn(c, row, k)

\* The rows of the statements for a set of logs.
LEMMA LogStatements ==
    ASSUME chain \in Seq(Seq(Events)), NEW a \in Int, NEW b \in Int,
           NEW logs, logs \subseteq Places(a + 1, b)
    PROVE  \A row : (\E s \in StatementsOf(logs) : s.row = row) <=>
                    (\E k \in 1 .. Len(chain) : a < k /\ k <= b /\ LoggedIn(chain, logs, row, k))
<1>. DEFINE places == UNION {Statements(p[1], p[2]) : p \in logs}
<1>1. ASSUME NEW p \in logs
      PROVE  \E k \in 1 .. Len(chain), i \in Nat :
                p = <<k, i>> /\ a < k /\ k <= b /\ i \in 1 .. Len(chain[k])
  <2>1. PICK k \in (a + 1 .. b) \cap (1 .. Len(chain)) : \E i \in 1 .. Len(chain[k]) : p = <<k, i>>
    BY DEF Places
  <2>2. PICK i \in 1 .. Len(chain[k]) : p = <<k, i>>
    BY <2>1
  <2>3. chain[k] \in Seq(Events) /\ Len(chain[k]) \in Nat /\ k \in Int
    BY <2>1
  <2>. QED  BY <2>1, <2>2, <2>3
<1>2. ASSUME NEW s \in StatementsOf(logs)
      PROVE  \E k \in 1 .. Len(chain) : a < k /\ k <= b /\ LoggedIn(chain, logs, s.row, k)
  <2>1. PICK q \in places : s = [at |-> q, row |-> RowsOf(chain[q[1]][q[2]])[q[3]]]
    BY DEF StatementsOf
  <2>2. PICK p \in logs : q \in Statements(p[1], p[2])
    OBVIOUS
  <2>3. PICK k \in 1 .. Len(chain), i \in Nat :
             p = <<k, i>> /\ a < k /\ k <= b /\ i \in 1 .. Len(chain[k])
    BY <1>1
  <2>4. PICK j \in 1 .. Len(RowsOf(chain[k][i])) : q = <<k, i, j>>
    BY <2>2, <2>3 DEF Statements
  <2>5. s.row = RowsOf(chain[k][i])[j] /\ <<k, i>> \in logs
    BY <2>1, <2>3, <2>4
  <2>6. LoggedIn(chain, logs, s.row, k)
    BY <2>3, <2>4, <2>5 DEF LoggedIn
  <2>. QED  BY <2>3, <2>6
<1>3. ASSUME NEW row, NEW k \in 1 .. Len(chain), LoggedIn(chain, logs, row, k)
      PROVE  \E s \in StatementsOf(logs) : s.row = row
  <2>0. PICK i \in 1 .. Len(chain[k]) :
           <<k, i>> \in logs /\ \E j \in 1 .. Len(RowsOf(chain[k][i])) : row = RowsOf(chain[k][i])[j]
    BY <1>3 DEF LoggedIn
  <2>1. PICK j \in 1 .. Len(RowsOf(chain[k][i])) : row = RowsOf(chain[k][i])[j]
    BY <2>0
  <2>2. <<k, i, j>> \in Statements(k, i)
    BY DEF Statements
  <2>3. Statements(k, i) \in {Statements(p[1], p[2]) : p \in logs}
    BY <2>0
  <2>. DEFINE q == <<k, i, j>>
              s == [at |-> q, row |-> RowsOf(chain[q[1]][q[2]])[q[3]]]
  <2>4. q \in places
    BY <2>2, <2>3
  <2>5. s.row = row
    BY <2>1
  <2>. HIDE DEF q, places
  <2>6. s \in StatementsOf(logs)
    BY <2>4 DEF StatementsOf, places
  <2>. QED  BY <2>5, <2>6
<1>. QED  BY <1>2, <1>3

\* The rows of the blocks up to n.
LEMMA RowsUpToRange ==
    ASSUME chain \in Seq(Seq(Events)), NEW n \in Int
    PROVE  \A row : row \in RowsUpTo(n) <=> InRange(chain, row, StartBlock, n)
<1>. DEFINE logs == Places(StartBlock + 1, n)
<1>0. StartBlock \in Int
  BY RegistryAssumption
<1>1. logs \subseteq Places(StartBlock + 1, n)
  OBVIOUS
<1>2. RowsUpTo(n) = {s.row : s \in StatementsOf(logs)}
  BY DEF RowsUpTo
<1>3. ASSUME NEW k \in 1 .. Len(chain), StartBlock < k, k <= n
      PROVE  \A row : LoggedIn(chain, logs, row, k) <=> WrittenIn(chain, row, k)
  <2>1. k \in (StartBlock + 1 .. n) \cap (1 .. Len(chain))
    BY <1>0, <1>3
  <2>2. \A i \in 1 .. Len(chain[k]) : <<k, i>> \in logs
    BY <2>1 DEF Places
  <2>. QED  BY <2>2 DEF LoggedIn, WrittenIn
<1>. HIDE DEF logs
<1>4. \A row : (\E s \in StatementsOf(logs) : s.row = row) <=>
         (\E k \in 1 .. Len(chain) : StartBlock < k /\ k <= n /\ LoggedIn(chain, logs, row, k))
  BY <1>0, <1>1, LogStatements
<1>. QED  BY <1>2, <1>3, <1>4 DEF InRange

\* The statements are those for the events of a kind in a range.
StatementsFor(todo, kind, a, b) ==
    \A row : (\E s \in todo : s.row = row) <=> InRange(chain, row, a, b) /\ KindOf(row) = kind

\* The statements of a range of blocks are for the rows of its events.
LEMMA LogsRange ==
    ASSUME chain \in Seq(Seq(Events)), NEW a \in Int, NEW b \in Int, NEW kind, NEW first, first = a + 1
    PROVE  StatementsFor(StatementsOf(Logs(kind, first, b)), kind, a, b)
<1>. DEFINE logs == Logs(kind, a + 1, b)
<1>1. logs \subseteq Places(a + 1, b)
  BY DEF Logs
<1>3. ASSUME NEW k \in 1 .. Len(chain), a < k, k <= b, NEW row
      PROVE  LoggedIn(chain, logs, row, k) <=> WrittenIn(chain, row, k) /\ KindOf(row) = kind
  <2>1. k \in (a + 1 .. b) \cap (1 .. Len(chain))
    BY <1>3
  <2>2. \A i \in 1 .. Len(chain[k]) : <<k, i>> \in Places(a + 1, b)
    BY <2>1 DEF Places
  <2>3. \A i \in 1 .. Len(chain[k]) : <<k, i>> \in logs <=> chain[k][i].kind = kind
    BY <2>2 DEF Logs
  <2>4. chain[k] \in Seq(Events)
    OBVIOUS
  <2>5. \A i \in 1 .. Len(chain[k]) : \A j \in 1 .. Len(RowsOf(chain[k][i])) :
           KindOf(RowsOf(chain[k][i])[j]) = chain[k][i].kind
    BY <2>4, RowsOfEvent
  <2>. HIDE DEF logs
  <2>. QED  BY <2>3, <2>5 DEF LoggedIn, WrittenIn
<1>. HIDE DEF logs
<1>4. \A row : (\E s \in StatementsOf(logs) : s.row = row) <=>
         (\E k \in 1 .. Len(chain) : a < k /\ k <= b /\ LoggedIn(chain, logs, row, k))
  BY <1>1, LogStatements
<1>5. \A row : (\E s \in StatementsOf(logs) : s.row = row) <=>
                    InRange(chain, row, a, b) /\ KindOf(row) = kind
  BY <1>3, <1>4 DEF InRange
<1>. QED  BY <1>5 DEF logs, StatementsFor

-----------------------------------------------------------------------------
(* The invariant of the monitor.                                           *)

Suffixes == {Kinds, <<"optin", "unregister", "slash">>, <<"unregister", "slash">>, <<"slash">>, <<>>}

\* The number of kinds that are left when a kind is taken.
Rank(kind) ==
    CASE kind = "register" -> 4 [] kind = "optin" -> 3 [] kind = "unregister" -> 2 [] OTHER -> 1

\* The chain, and how far it can be cut back.
ChainInv ==
    /\ Sound(chain, scenario.faults)
    /\ peak \in Nat /\ Len(chain) <= peak /\ Final <= Len(chain)

\* What the process has read of the status row, and of L1.
MonitorInv ==
    /\ db = [rows |-> db.rows, indexed |-> db.indexed]
    /\ db.rows \subseteq Rows /\ db.indexed \in Nat
    /\ m = [pc |-> m.pc, indexed |-> m.indexed, end |-> m.end, kinds |-> m.kinds, todo |-> m.todo]
    /\ m.pc \in {"down", "idle", "index"} /\ m.indexed \in Nat /\ m.end \in Nat
    /\ m.kinds \in Suffixes
    /\ db.indexed = 0 \/ db.indexed <= Final
    /\ m.pc # "down" => m.indexed = IF db.indexed > StartBlock THEN db.indexed ELSE StartBlock
    /\ m.pc = "index" => m.indexed < m.end /\ m.end <= Final
    /\ m.pc # "index" => m.todo = {}

\* No row that the final blocks do not write.
UpperInv ==
    /\ \A row \in db.rows : InRange(chain, row, StartBlock, Final)
    /\ \A s \in m.todo : /\ InRange(chain, s.row, m.indexed, m.end)
                         /\ Rank(KindOf(s.row)) = Len(m.kinds) + 1

\* Every row of the blocks indexed; of the blocks of the range, every row of
\* the kinds taken, unless its statement is still to be executed.
LowerInv ==
    "start" \notin scenario.faults =>
        \A row \in Rows :
            /\ InRange(chain, row, StartBlock, db.indexed) => row \in db.rows
            /\ m.pc = "index" /\ InRange(chain, row, m.indexed, m.end)
               /\ Rank(KindOf(row)) > Len(m.kinds) =>
                 row \in db.rows \/ \E s \in m.todo : s.row = row

RegInv == ChainInv /\ MonitorInv /\ UpperInv /\ LowerInv

-----------------------------------------------------------------------------
(* Ranges of blocks.                                                       *)

\* A range is only about its blocks.
LEMMA RangePrefix ==
    ASSUME NEW c \in Seq(Seq(Events)), NEW d \in Seq(Seq(Events)), NEW n \in Int,
           n <= Len(c), n <= Len(d), \A k \in 1 .. n : c[k] = d[k],
           NEW row, NEW a \in Int, NEW b \in Int, b <= n, InRange(c, row, a, b)
    PROVE  InRange(d, row, a, b)
<1>1. PICK k \in 1 .. Len(c) : a < k /\ k <= b /\ WrittenIn(c, row, k)
  BY DEF InRange
<1>2. k \in 1 .. n /\ k \in 1 .. Len(d)
  BY <1>1
<1>3. c[k] = d[k]
  BY <1>2
<1>4. WrittenIn(d, row, k)
  BY <1>1, <1>3 DEF WrittenIn
<1>. QED  BY <1>1, <1>2, <1>4 DEF InRange

\* A row of a range is a row of every wider range.
LEMMA RangeWider ==
    ASSUME NEW c \in Seq(Seq(Events)), NEW a \in Int, NEW b \in Int, NEW x \in Int, NEW y \in Int,
           x <= a, b <= y, NEW row, InRange(c, row, a, b)
    PROVE  InRange(c, row, x, y)
<1>1. PICK k \in 1 .. Len(c) : a < k /\ k <= b /\ WrittenIn(c, row, k)
  BY DEF InRange
<1>2. x < k /\ k <= y
  BY <1>1
<1>. QED  BY <1>1, <1>2 DEF InRange

\* A row of a range is of one of the two parts in which a block divides it.
LEMMA RangeSplit ==
    ASSUME NEW c \in Seq(Seq(Events)), NEW a \in Int, NEW b \in Int, NEW x \in Int,
           NEW row, InRange(c, row, a, b)
    PROVE  InRange(c, row, a, x) \/ InRange(c, row, x, b)
<1>1. PICK k \in 1 .. Len(c) : a < k /\ k <= b /\ WrittenIn(c, row, k)
  BY DEF InRange
<1>2. k <= x \/ x < k
  BY <1>1
<1>. QED  BY <1>1, <1>2 DEF InRange

\* A row of a range is typed, and, when no event is in the start blocks, the
\* operator it is about is registered in a block of the range or before.
LEMMA RangeRow ==
    ASSUME NEW c, NEW faults, Sound(c, faults), NEW a \in Int, NEW b \in Int,
           NEW row, InRange(c, row, a, b)
    PROVE  /\ row \in Rows
           /\ "start" \notin faults => InRange(c, Row("operators", row.root, 0), StartBlock, b)
<1>0. c \in Seq(Seq(Events)) /\ StartBlock \in Int
  BY RegistryAssumption DEF Sound
<1>1. PICK k \in 1 .. Len(c) : a < k /\ k <= b /\ WrittenIn(c, row, k)
  BY DEF InRange
<1>2. PICK i \in 1 .. Len(c[k]) : \E j \in 1 .. Len(RowsOf(c[k][i])) : row = RowsOf(c[k][i])[j]
  BY <1>1 DEF WrittenIn
<1>3. PICK j \in 1 .. Len(RowsOf(c[k][i])) : row = RowsOf(c[k][i])[j]
  BY <1>2
<1>4. c[k] \in Seq(Events) /\ c[k][i] \in Events
  BY <1>0
<1>5. row \in Rows /\ row.root = c[k][i].root
  BY <1>3, <1>4, RowsOfEvent
<1>6. ASSUME "start" \notin faults
      PROVE  InRange(c, Row("operators", row.root, 0), StartBlock, b)
  <2>1. PICK h \in 1 .. k : \E l \in 1 .. Len(c[h]) :
             c[h][l] = [kind |-> "register", root |-> c[k][i].root]
    BY DEF Sound
  <2>2. PICK l \in 1 .. Len(c[h]) : c[h][l] = [kind |-> "register", root |-> c[k][i].root]
    BY <2>1
  <2>3. h \in 1 .. Len(c) /\ h \in Int
    BY <1>0
  <2>4. c[h] \in Seq(Events) /\ c[h][l] \in Events
    BY <1>0, <2>3
  <2>5. c[h][l].kind = "register" /\ c[h][l].root = row.root
    BY <1>5, <2>2
  <2>6. 1 \in 1 .. Len(RowsOf(c[h][l])) /\ RowsOf(c[h][l])[1] = Row("operators", row.root, 0)
    BY <2>4, <2>5, RowsOfEvent
  <2>7. WrittenIn(c, Row("operators", row.root, 0), h)
    BY <2>6 DEF WrittenIn
  <2>8. c[h] # <<>>
    BY <2>4
  <2>9. StartBlock < h
    BY <1>0, <1>6, <2>3, <2>8 DEF Sound
  <2>10. h <= b
    BY <1>0, <1>1, <2>3
  <2>. QED  BY <2>3, <2>7, <2>9, <2>10 DEF InRange
<1>. QED  BY <1>5, <1>6

\* The kinds that are left.
LEMMA TakeKind ==
    ASSUME NEW kinds \in Suffixes
    PROVE  /\ Len(kinds) \in 0 .. 4
           /\ kinds # <<>> => /\ Tail(kinds) \in Suffixes
                              /\ Len(Tail(kinds)) + 1 = Len(kinds)
                              /\ Rank(Head(kinds)) = Len(kinds)
<1>1. CASE kinds = Kinds
  BY <1>1 DEF Suffixes, Kinds, Rank
<1>2. CASE kinds = <<"optin", "unregister", "slash">>
  BY <1>2 DEF Suffixes, Kinds, Rank
<1>3. CASE kinds = <<"unregister", "slash">>
  BY <1>3 DEF Suffixes, Kinds, Rank
<1>4. CASE kinds = <<"slash">>
  BY <1>4 DEF Suffixes, Kinds, Rank
<1>5. CASE kinds = <<>>
  BY <1>5
<1>. QED  BY <1>1, <1>2, <1>3, <1>4, <1>5 DEF Suffixes

\* A row, its kind and its table.
LEMMA RankOfRow ==
    ASSUME NEW row \in Rows
    PROVE  /\ Rank(KindOf(row)) \in 1 .. 4
           /\ Rank(KindOf(row)) \in {1, 2} <=> row.table \in {"unregistered", "slashed"}
           /\ \A r : Rank(KindOf(Row("operators", r, 0))) = 4
<1>1. row.table \in Tables
  BY DEF Rows
<1>. QED  BY <1>1 DEF Tables, KindOf, Rank, Row

-----------------------------------------------------------------------------
(* L1.                                                                     *)

\* What Sound says of a block b at height k of a chain c.
SoundBlock(c, b, k, faults) ==
    /\ b \in Seq(Events)
    /\ \A i \in 1 .. Len(b) :
          \/ Has(c, "register", b[i].root)
          \/ \E l \in 1 .. Len(b) : b[l] = [kind |-> "register", root |-> b[i].root]
    /\ "start" \notin faults /\ k <= StartBlock => b = <<>>

\* An event that is no registration is of an operator registered before.
LEMMA LegalEvent ==
    ASSUME NEW c, NEW e \in Events, Legal(c, e)
    PROVE  e = [kind |-> "register", root |-> e.root] \/ Has(c, "register", e.root)
<1>1. CASE e.kind = "register"
  BY <1>1 DEF Events
<1>2. CASE e.kind # "register"
  BY <1>2 DEF Legal, Events
<1>. QED  BY <1>1, <1>2

\* An operator registered in a chain with one more block of one event.
LEMMA HasAppend ==
    ASSUME NEW c \in Seq(Seq(Events)), NEW e \in Events, NEW kind, NEW r,
           Has(Append(c, <<e>>), kind, r)
    PROVE  Has(c, kind, r) \/ e = [kind |-> kind, root |-> r]
<1>. DEFINE d == Append(c, <<e>>)
            ev == [kind |-> kind, root |-> r]
<1>1. Len(d) = Len(c) + 1 /\ Len(c) \in Nat /\ d[Len(c) + 1] = <<e>>
      /\ \A k \in 1 .. Len(c) : d[k] = c[k]
  OBVIOUS
<1>2. PICK k \in 1 .. Len(d) : \E i \in 1 .. Len(d[k]) : d[k][i] = ev
  BY DEF Has
<1>. HIDE DEF d, ev
<1>3. CASE k = Len(c) + 1
  <2>1. d[k] = <<e>>
    BY <1>1, <1>3
  <2>2. PICK i \in 1 .. Len(<<e>>) : <<e>>[i] = ev
    BY <1>2, <2>1
  <2>3. e = ev
    BY <2>2
  <2>. QED  BY <2>3 DEF ev
<1>4. CASE k # Len(c) + 1
  <2>1. k \in 1 .. Len(c) /\ d[k] = c[k]
    BY <1>1, <1>4
  <2>2. \E i \in 1 .. Len(c[k]) : c[k][i] = ev
    BY <1>2, <2>1
  <2>. QED  BY <2>1, <2>2 DEF Has, ev
<1>. QED  BY <1>3, <1>4

\* The blocks that L1 can add are sound after a sound chain.
LEMMA BlocksSound ==
    ASSUME chain \in Seq(Seq(Events)), NEW b \in Blocks
    PROVE  SoundBlock(chain, b, Len(chain) + 1, scenario.faults)
<1>. DEFINE one == {e \in Events : Legal(chain, e)}
<1>1. CASE b = <<>>
  BY <1>1 DEF SoundBlock
<1>2. ASSUME b # <<>> PROVE ~(Len(chain) < StartBlock /\ Without({"start"}))
  BY <1>2 DEF Blocks
<1>3. b # <<>> => ~("start" \notin scenario.faults /\ Len(chain) + 1 <= StartBlock)
  BY <1>2, RegistryAssumption DEF Without
<1>4. ASSUME NEW e \in one, b = <<e>> PROVE SoundBlock(chain, b, Len(chain) + 1, scenario.faults)
  <2>1. e \in Events /\ Legal(chain, e)
    OBVIOUS
  <2>2. e = [kind |-> "register", root |-> e.root] \/ Has(chain, "register", e.root)
    BY <2>1, LegalEvent
  <2>3. b \in Seq(Events) /\ Len(b) = 1 /\ b[1] = e /\ b # <<>>
    BY <1>4, <2>1
  <2>. QED  BY <1>3, <2>2, <2>3 DEF SoundBlock
<1>5. ASSUME NEW e \in one, NEW f \in Events, b = <<e, f>>, e.root = f.root,
             Legal(Append(chain, <<e>>), f)
      PROVE  SoundBlock(chain, b, Len(chain) + 1, scenario.faults)
  <2>1. e \in Events /\ Legal(chain, e)
    OBVIOUS
  <2>2. e = [kind |-> "register", root |-> e.root] \/ Has(chain, "register", e.root)
    BY <2>1, LegalEvent
  <2>3. f = [kind |-> "register", root |-> f.root] \/ Has(Append(chain, <<e>>), "register", f.root)
    BY <1>5, LegalEvent
  <2>4. \/ f = [kind |-> "register", root |-> f.root]
        \/ Has(chain, "register", f.root)
        \/ e = [kind |-> "register", root |-> f.root]
    BY <2>1, <2>3, HasAppend
  <2>5. b \in Seq(Events) /\ Len(b) = 2 /\ b[1] = e /\ b[2] = f /\ b # <<>>
    BY <1>5, <2>1
  <2>6. 1 \in 1 .. Len(b) /\ 2 \in 1 .. Len(b) /\ \A i \in 1 .. Len(b) : i = 1 \/ i = 2
    BY <2>5
  <2>7. \A i \in 1 .. Len(b) :
          \/ Has(chain, "register", b[i].root)
          \/ \E l \in 1 .. Len(b) : b[l] = [kind |-> "register", root |-> b[i].root]
    BY <1>5, <2>2, <2>4, <2>5, <2>6
  <2>. QED  BY <1>3, <2>5, <2>7 DEF SoundBlock
<1>6. \/ b = <<>>
      \/ \E e \in one : b = <<e>>
      \/ \E e \in one, f \in Events :
            b = <<e, f>> /\ e.root = f.root /\ Legal(Append(chain, <<e>>), f)
  <2>1. b \in {<<>>} \cup {<<e>> : e \in one}
                  \cup {<<p[1], p[2]>> : p \in {p \in one \X Events :
                            p[1].root = p[2].root /\ Legal(Append(chain, <<p[1]>>), p[2])}}
    BY DEF Blocks
  <2>. HIDE DEF one
  <2>2. ASSUME NEW p \in one \X Events, b = <<p[1], p[2]>>,
               p[1].root = p[2].root, Legal(Append(chain, <<p[1]>>), p[2])
        PROVE  \E e \in one, f \in Events :
            b = <<e, f>> /\ e.root = f.root /\ Legal(Append(chain, <<e>>), f)
    BY <2>2
  <2>. QED  BY <2>1, <2>2
<1>. QED  BY <1>1, <1>4, <1>5, <1>6

\* A chain with one more block, and a chain cut back.
LEMMA SoundAppend ==
    ASSUME NEW c, NEW faults, Sound(c, faults), NEW b, SoundBlock(c, b, Len(c) + 1, faults)
    PROVE  Sound(Append(c, b), faults)
<1>. DEFINE d == Append(c, b)
            Reg(x, k, i) == \E h \in 1 .. k : \E l \in 1 .. Len(x[h]) :
                               x[h][l] = [kind |-> "register", root |-> x[k][i].root]
<1>0. c \in Seq(Seq(Events)) /\ b \in Seq(Events) /\ Len(c) \in Nat
  BY DEF Sound, SoundBlock
<1>1. d \in Seq(Seq(Events)) /\ Len(d) = Len(c) + 1 /\ d[Len(c) + 1] = b
      /\ \A k \in 1 .. Len(c) : d[k] = c[k]
  BY <1>0
<1>. HIDE DEF d
<1>2. ASSUME NEW k \in 1 .. Len(c), NEW i \in 1 .. Len(d[k]) PROVE Reg(d, k, i)
  <2>1. d[k] = c[k] /\ i \in 1 .. Len(c[k])
    BY <1>1
  <2>2. PICK h \in 1 .. k : \E l \in 1 .. Len(c[h]) :
               c[h][l] = [kind |-> "register", root |-> c[k][i].root]
    BY <2>1 DEF Sound
  <2>3. h \in 1 .. Len(c)
    BY <1>0
  <2>4. d[h] = c[h]
    BY <1>1, <2>3
  <2>. QED  BY <2>1, <2>2, <2>4
<1>3. ASSUME NEW i \in 1 .. Len(b) PROVE Reg(d, Len(c) + 1, i)
  <2>1. CASE Has(c, "register", b[i].root)
    <3>1. PICK k \in 1 .. Len(c) : \E j \in 1 .. Len(c[k]) :
              c[k][j] = [kind |-> "register", root |-> b[i].root]
      BY <2>1 DEF Has
    <3>2. d[k] = c[k] /\ k \in 1 .. Len(c) + 1
      BY <1>0, <1>1
    <3>. QED  BY <1>1, <3>1, <3>2
  <2>2. CASE \E l \in 1 .. Len(b) : b[l] = [kind |-> "register", root |-> b[i].root]
    <3>1. Len(c) + 1 \in 1 .. Len(c) + 1
      BY <1>0
    <3>. QED  BY <1>1, <2>2, <3>1
  <2>. QED  BY <2>1, <2>2 DEF SoundBlock
<1>4. \A k \in 1 .. Len(d) : k \in 1 .. Len(c) \/ k = Len(c) + 1
  BY <1>0, <1>1
<1>. HIDE DEF Reg
<1>5. ASSUME NEW k \in 1 .. Len(d), NEW i \in 1 .. Len(d[k]) PROVE Reg(d, k, i)
  <2>1. CASE k \in 1 .. Len(c)
    BY <1>2, <2>1
  <2>2. CASE k = Len(c) + 1
    BY <1>1, <1>3, <2>2
  <2>. QED  BY <1>4, <2>1, <2>2
<1>6. ASSUME "start" \notin faults, NEW k \in 1 .. Len(d), k <= StartBlock PROVE d[k] = <<>>
  <2>1. CASE k \in 1 .. Len(c)
    BY <1>1, <1>6, <2>1 DEF Sound
  <2>2. CASE k = Len(c) + 1
    BY <1>1, <1>6, <2>2 DEF SoundBlock
  <2>. QED  BY <1>4, <2>1, <2>2
<1>7. Sound(d, faults)
  BY <1>1, <1>5, <1>6 DEF Sound, Reg
<1>. QED  BY <1>7 DEF d

\* A sound chain that is cut back is sound.
LEMMA SoundCut ==
    ASSUME NEW c, NEW faults, Sound(c, faults), NEW n \in 0 .. Len(c) - 1
    PROVE  /\ Sound(SubSeq(c, 1, n), faults) /\ Len(SubSeq(c, 1, n)) = n
           /\ \A k \in 1 .. n : SubSeq(c, 1, n)[k] = c[k]
<1>. DEFINE d == SubSeq(c, 1, n)
<1>0. c \in Seq(Seq(Events)) /\ Len(c) \in Nat /\ n \in Nat /\ n <= Len(c)
  BY DEF Sound
<1>1. d \in Seq(Seq(Events)) /\ Len(d) = n /\ \A k \in 1 .. n : d[k] = c[k]
  BY <1>0
<1>. HIDE DEF d
<1>2. ASSUME NEW k \in 1 .. Len(d), NEW i \in 1 .. Len(d[k])
      PROVE  \E h \in 1 .. k : \E l \in 1 .. Len(d[h]) :
                d[h][l] = [kind |-> "register", root |-> d[k][i].root]
  <2>1. d[k] = c[k] /\ k \in 1 .. Len(c)
    BY <1>0, <1>1
  <2>2. PICK h \in 1 .. k : \E l \in 1 .. Len(c[h]) :
               c[h][l] = [kind |-> "register", root |-> c[k][i].root]
    BY <2>1 DEF Sound
  <2>3. d[h] = c[h]
    <3>1. h \in 1 .. n
      BY <1>0, <1>1
    <3>. QED  BY <1>1, <3>1
  <2>. QED  BY <2>1, <2>2, <2>3
<1>3. ASSUME "start" \notin faults, NEW k \in 1 .. Len(d), k <= StartBlock PROVE d[k] = <<>>
  <2>1. d[k] = c[k] /\ k \in 1 .. Len(c)
    BY <1>0, <1>1
  <2>. QED  BY <1>3, <2>1 DEF Sound
<1>4. Sound(d, faults)
  BY <1>1, <1>2, <1>3 DEF Sound
<1>. QED  BY <1>1, <1>4 DEF d

-----------------------------------------------------------------------------
(* The steps.                                                              *)

\* The invariant holds initially.
LEMMA RegInvInit == ASSUME RegistryInit PROVE RegInv
<1>0. Sound(chain, scenario.faults)
  BY RegistryAssumption DEF RegistryInit
<1>1. Sound(chain, scenario.faults) /\ chain \in Seq(Seq(Events)) /\ ForkDepth \in Nat /\ StartBlock \in Nat
  BY <1>0, RegistryAssumption DEF Sound
<1>2. ChainInv
  BY <1>1 DEF RegistryInit, ChainInv, Final
<1>3. MonitorInv
  BY DEF RegistryInit, MonitorInv, Down, Suffixes
<1>4. UpperInv
  BY DEF RegistryInit, UpperInv, Down
<1>5. LowerInv
  <2>1. \A row : ~InRange(chain, row, StartBlock, 0)
    BY <1>1 DEF InRange
  <2>. QED  BY <2>1 DEF RegistryInit, LowerInv, Down
<1>. QED  BY <1>2, <1>3, <1>4, <1>5 DEF RegInv

\* A step of L1 keeps the final blocks.
KeepsFinal ==
    ChainInv' /\ Final <= Final' /\ \A k \in 1 .. Final : chain[k] = chain'[k]

\* The final blocks of a chain that keeps them.
LEMMA ChainTypes ==
    ASSUME RegInv, KeepsFinal
    PROVE  /\ chain \in Seq(Seq(Events)) /\ chain' \in Seq(Seq(Events))
           /\ StartBlock \in Int /\ Final \in Int /\ Final' \in Int
           /\ Final <= Final' /\ Final <= Final /\ Final <= Len(chain) /\ Final <= Len(chain')
           /\ \A k \in 1 .. Final : chain[k] = chain'[k]
<1>1. /\ Sound(chain, scenario.faults) /\ Sound(chain', scenario'.faults) /\ peak \in Nat /\ peak' \in Nat
      /\ Final <= Len(chain) /\ Final' <= Len(chain') /\ Final <= Final'
  BY DEF RegInv, ChainInv, KeepsFinal
<1>2. chain \in Seq(Seq(Events)) /\ chain' \in Seq(Seq(Events))
  BY <1>1 DEF Sound
<1>3. Final \in Int /\ Final' \in Int /\ StartBlock \in Int
  BY <1>1, RegistryAssumption DEF Final
<1>4. Final <= Len(chain') /\ Final <= Final
  BY <1>1, <1>2, <1>3
<1>. QED  BY <1>1, <1>2, <1>3, <1>4 DEF KeepsFinal

\* A step of L1 that keeps the final blocks keeps the invariant.
LEMMA RegInvChain ==
    ASSUME RegInv, KeepsFinal, UNCHANGED <<db, m, scenario>>
    PROVE  RegInv'
<1>0. /\ chain \in Seq(Seq(Events)) /\ chain' \in Seq(Seq(Events))
      /\ StartBlock \in Int /\ Final \in Int /\ Final' \in Int
      /\ Final <= Final' /\ Final <= Final /\ Final <= Len(chain) /\ Final <= Len(chain')
      /\ \A k \in 1 .. Final : chain[k] = chain'[k]
  BY ChainTypes
<1>. USE DEF RegInv
<1>1. ASSUME NEW row, NEW a \in Int, NEW b \in Int, b <= Final
      PROVE  InRange(chain, row, a, b) <=> InRange(chain', row, a, b)
  <2>1. ASSUME InRange(chain, row, a, b) PROVE InRange(chain', row, a, b)
    BY <1>0, <1>1, <2>1, RangePrefix
  <2>2. \A k \in 1 .. Final : chain'[k] = chain[k]
    BY <1>0
  <2>3. ASSUME InRange(chain', row, a, b) PROVE InRange(chain, row, a, b)
    BY <1>0, <1>1, <2>2, <2>3, RangePrefix
  <2>. QED  BY <2>1, <2>3
<1>2. MonitorInv'
  <2>1. m' = m /\ db' = db
    OBVIOUS
  <2>2. db.indexed \in Nat /\ m.end \in Nat
    BY DEF MonitorInv
  <2>. HIDE DEF RegInv
  <2>3. MonitorInv
    BY DEF RegInv
  <2>4. db.indexed <= Final => db.indexed <= Final'
    BY <1>0, <2>2
  <2>5. m.end <= Final => m.end <= Final'
    BY <1>0, <2>2
  <2>. QED  BY <2>1, <2>3, <2>4, <2>5 DEF MonitorInv
<1>3. UpperInv'
  <2>1. ASSUME NEW row \in db.rows PROVE InRange(chain', row, StartBlock, Final')
    <3>1. InRange(chain', row, StartBlock, Final)
      BY <1>0, <1>1 DEF UpperInv
    <3>. QED  BY <1>0, <3>1, RangeWider
  <2>2. ASSUME NEW s \in m.todo
        PROVE  InRange(chain', s.row, m.indexed, m.end) /\ Rank(KindOf(s.row)) = Len(m.kinds) + 1
    <3>1. m.indexed \in Int /\ m.end \in Int /\ m.end <= Final
      BY DEF MonitorInv
    <3>2. InRange(chain, s.row, m.indexed, m.end) /\ Rank(KindOf(s.row)) = Len(m.kinds) + 1
      BY DEF UpperInv
    <3>. QED  BY <1>1, <3>1, <3>2
  <2>. QED  BY <2>1, <2>2 DEF UpperInv
<1>4. LowerInv'
  <2>. SUFFICES ASSUME "start" \notin scenario.faults, NEW row \in Rows
       PROVE  /\ InRange(chain', row, StartBlock, db.indexed) => row \in db.rows
              /\ m.pc = "index" /\ InRange(chain', row, m.indexed, m.end)
                 /\ Rank(KindOf(row)) > Len(m.kinds) =>
                   row \in db.rows \/ \E s \in m.todo : s.row = row
    BY DEF LowerInv
  <2>1. /\ InRange(chain, row, StartBlock, db.indexed) => row \in db.rows
        /\ m.pc = "index" /\ InRange(chain, row, m.indexed, m.end)
                 /\ Rank(KindOf(row)) > Len(m.kinds) =>
                   row \in db.rows \/ \E s \in m.todo : s.row = row
    BY DEF LowerInv
  <2>2. InRange(chain', row, StartBlock, db.indexed) => row \in db.rows
    <3>1. CASE db.indexed = 0
      BY <1>0, <3>1, RegistryAssumption DEF InRange
    <3>2. CASE db.indexed <= Final
      <4>1. db.indexed \in Int
        BY DEF MonitorInv
      <4>. QED  BY <1>0, <1>1, <2>1, <3>2, <4>1
    <3>. QED  BY <3>1, <3>2 DEF MonitorInv
  <2>3. m.pc = "index" => m.indexed \in Int /\ m.end \in Int /\ m.end <= Final
    BY DEF MonitorInv
  <2>. QED  BY <1>1, <2>1, <2>2, <2>3
<1>. QED  BY <1>2, <1>3, <1>4 DEF KeepsFinal

\* A new block keeps the final blocks.
LEMMA BlockKeepsFinal ==
    ASSUME RegInv, L1Block, UNCHANGED scenario
    PROVE  KeepsFinal /\ UNCHANGED <<db, m>>
<1>1. PICK b \in Blocks : chain' = Append(chain, b)
  BY DEF L1Block
<1>2. Sound(chain, scenario.faults) /\ peak \in Nat /\ Len(chain) <= peak /\ Final <= Len(chain)
  BY DEF RegInv, ChainInv
<1>3. chain \in Seq(Seq(Events)) /\ Len(chain) \in Nat /\ ForkDepth \in Nat
  BY <1>2, RegistryAssumption DEF Sound
<1>4. SoundBlock(chain, b, Len(chain) + 1, scenario.faults)
  BY <1>3, BlocksSound
<1>5. Sound(chain', scenario.faults)
  BY <1>1, <1>2, <1>4, SoundAppend
<1>6. b \in Seq(Events)
  BY <1>4 DEF SoundBlock
<1>7. Len(chain') = Len(chain) + 1 /\ \A k \in 1 .. Len(chain) : chain'[k] = chain[k]
  BY <1>1, <1>3, <1>6
<1>8. peak' \in Nat /\ peak <= peak' /\ Len(chain') <= peak' /\ (peak' = peak \/ peak' = Len(chain'))
  BY <1>2, <1>3, <1>7 DEF L1Block
<1>9. Final \in Int /\ Final' \in Int /\ Final <= Final' /\ Final' <= Len(chain')
  <2>. DEFINE l == Len(chain)
              n == Len(chain')
  <2>1. l \in Nat /\ n = l + 1 /\ peak - ForkDepth <= l /\ (peak' = peak \/ peak' = n)
    BY <1>2, <1>3, <1>7, <1>8 DEF Final
  <2>. HIDE DEF l, n
  <2>2. peak \in Int /\ peak' \in Int /\ peak <= peak' /\ ForkDepth \in Int /\ ForkDepth >= 0 /\ n \in Int
    BY <1>2, <1>3, <1>8, <2>1
  <2>3. CASE peak' = peak
    BY <2>1, <2>2, <2>3 DEF Final, n
  <2>4. CASE peak' = n
    BY <2>2, <2>4 DEF Final, n
  <2>. QED  BY <2>1, <2>3, <2>4
<1>10. ChainInv'
  BY <1>5, <1>8, <1>9 DEF ChainInv
<1>11. \A k \in 1 .. Final : chain[k] = chain'[k]
  <2>1. \A k \in 1 .. Final : k \in 1 .. Len(chain)
    BY <1>2, <1>3, <1>9
  <2>. QED  BY <1>7, <2>1
<1>12. UNCHANGED <<db, m>>
  BY DEF L1Block
<1>. QED  BY <1>9, <1>10, <1>11, <1>12 DEF KeepsFinal

\* A reorg keeps the final blocks: it is not deeper than ForkDepth.
LEMMA ReorgKeepsFinal ==
    ASSUME RegInv, L1Reorg, UNCHANGED scenario
    PROVE  KeepsFinal /\ UNCHANGED <<db, m>>
<1>1. PICK keep \in 0 .. Len(chain) - 1 : keep >= peak - ForkDepth /\ chain' = SubSeq(chain, 1, keep)
  BY DEF L1Reorg
<1>2. UNCHANGED <<peak, db, m>>
  BY DEF L1Reorg
<1>3. Sound(chain, scenario.faults) /\ peak \in Nat /\ Len(chain) <= peak /\ Final <= Len(chain)
  BY DEF RegInv, ChainInv
<1>4. chain \in Seq(Seq(Events)) /\ Len(chain) \in Nat /\ ForkDepth \in Nat
  BY <1>3, RegistryAssumption DEF Sound
<1>5. Sound(chain', scenario.faults) /\ Len(chain') = keep /\ \A k \in 1 .. keep : chain'[k] = chain[k]
  BY <1>1, <1>3, SoundCut
<1>6. Final' = Final /\ Final \in Int /\ Final <= keep /\ keep <= peak
  <2>1. keep \in Int /\ keep <= Len(chain)
    BY <1>4
  <2>2. Final = peak - ForkDepth /\ Final' = peak' - ForkDepth
    BY DEF Final
  <2>. QED  BY <1>1, <1>2, <1>3, <1>4, <2>1, <2>2
<1>7. ChainInv'
  <2>1. peak' \in Nat /\ Len(chain') <= peak' /\ Final' <= Len(chain')
    BY <1>2, <1>3, <1>5, <1>6
  <2>. QED  BY <1>5, <2>1 DEF ChainInv
<1>8. \A k \in 1 .. Final : chain[k] = chain'[k]
  BY <1>5, <1>6
<1>. QED  BY <1>2, <1>6, <1>7, <1>8 DEF KeepsFinal

\* The monitor leaves the chain.
SameChain == UNCHANGED <<chain, peak, scenario>>

\* A step of the monitor leaves the chain alone.
LEMMA SameChainInv == ASSUME RegInv, SameChain PROVE ChainInv' /\ Final' = Final /\ chain' = chain
BY DEF RegInv, SameChain, ChainInv, Final

\* The process ends, or starts.
LEMMA RegInvDown ==
    ASSUME RegInv, SameChain, UNCHANGED db,
           \/ m' = Down
           \/ m' = [Down EXCEPT !.pc = "idle",
                                !.indexed = IF db.indexed > StartBlock THEN db.indexed ELSE StartBlock]
    PROVE  RegInv'
<1>1. ChainInv' /\ Final' = Final /\ chain' = chain /\ scenario' = scenario /\ db' = db
  BY SameChainInv DEF SameChain
<1>2. /\ m' = [pc |-> m'.pc, indexed |-> m'.indexed, end |-> 0, kinds |-> <<>>, todo |-> {}]
      /\ m'.end = 0 /\ m'.kinds = <<>> /\ m'.todo = {}
      /\ \/ m'.pc = "down" /\ m'.indexed = 0
         \/ m'.pc = "idle" /\ m'.indexed = IF db.indexed > StartBlock THEN db.indexed ELSE StartBlock
  <2>1. CASE m' = Down
    BY <2>1 DEF Down
  <2>2. CASE m' = [Down EXCEPT !.pc = "idle",
                               !.indexed = IF db.indexed > StartBlock THEN db.indexed ELSE StartBlock]
    BY <2>2 DEF Down
  <2>. QED  BY <2>1, <2>2
<1>3. MonitorInv'
  <2>1. MonitorInv /\ StartBlock \in Nat
    BY RegistryAssumption DEF RegInv
  <2>2. m'.indexed \in Nat /\ m'.kinds \in Suffixes
    BY <1>2, <2>1 DEF MonitorInv, Suffixes
  <2>. QED  BY <1>1, <1>2, <2>1, <2>2 DEF MonitorInv
<1>4. UpperInv'
  BY <1>1, <1>2 DEF RegInv, UpperInv
<1>5. LowerInv'
  <2>1. m'.pc # "index"
    BY <1>2
  <2>. SUFFICES ASSUME "start" \notin scenario.faults, NEW row \in Rows
                PROVE  InRange(chain, row, StartBlock, db.indexed) => row \in db.rows
    BY <1>1, <2>1 DEF LowerInv
  <2>. QED  BY DEF RegInv, LowerInv
<1>. QED  BY <1>1, <1>3, <1>4, <1>5 DEF RegInv

\* run_indexing_loop chooses its range.
LEMMA RegInvReadHead == ASSUME RegInv, ReadHead, UNCHANGED scenario PROVE RegInv'
<1>0. SameChain /\ UNCHANGED db
  BY DEF ReadHead, BeginRange, SameChain
<1>1. ChainInv' /\ Final' = Final /\ chain' = chain /\ scenario' = scenario /\ db' = db
  BY <1>0, SameChainInv DEF SameChain
<1>. DEFINE current == Len(chain) - ForkDepth
            start == m.indexed + 1
            end == IF start + BatchSize - 1 < current THEN start + BatchSize - 1 ELSE current
<1>2. m.pc = "idle" /\ current >= start /\ m' = [m EXCEPT !.pc = "index", !.kinds = Kinds, !.end = end]
  BY DEF ReadHead, BeginRange
<1>3. MonitorInv /\ m.todo = {}
  BY <1>2 DEF RegInv, MonitorInv
<1>4. /\ m'.pc = "index" /\ m'.indexed = m.indexed /\ m'.end = end /\ m'.kinds = Kinds /\ m'.todo = {}
      /\ m' = [pc |-> m'.pc, indexed |-> m'.indexed, end |-> m'.end, kinds |-> m'.kinds, todo |-> m'.todo]
  BY <1>2, <1>3 DEF MonitorInv
<1>5. end \in Nat /\ m.indexed < end /\ end <= Final
  <2>1. m.indexed \in Nat /\ BatchSize \in Nat \ {0} /\ ForkDepth \in Nat
    BY <1>3, RegistryAssumption DEF MonitorInv
  <2>2. Len(chain) \in Nat /\ peak \in Nat /\ Len(chain) <= peak
    BY DEF RegInv, ChainInv, Sound
  <2>3. current \in Int /\ Final \in Int /\ current <= Final
    BY <2>1, <2>2 DEF Final
  <2>. HIDE DEF current
  <2>. QED  BY <1>2, <2>1, <2>3
<1>. HIDE DEF end
<1>6. MonitorInv'
  BY <1>1, <1>2, <1>3, <1>4, <1>5 DEF MonitorInv, Suffixes
<1>7. UpperInv'
  BY <1>1, <1>4 DEF RegInv, UpperInv
<1>8. LowerInv'
  <2>1. \A row \in Rows : ~(Rank(KindOf(row)) > Len(Kinds))
    BY RankOfRow DEF Kinds
  <2>. SUFFICES ASSUME "start" \notin scenario.faults, NEW row \in Rows
                PROVE  InRange(chain, row, StartBlock, db.indexed) => row \in db.rows
    BY <1>1, <1>4, <2>1 DEF LowerInv
  <2>. QED  BY DEF RegInv, LowerInv
<1>. QED  BY <1>1, <1>6, <1>7, <1>8 DEF RegInv

\* run_indexing_loop reads the logs of the next kind.
LEMMA RegInvGetLogs == ASSUME RegInv, GetLogs, UNCHANGED scenario PROVE RegInv'
<1>0. SameChain /\ UNCHANGED db
  BY DEF GetLogs, SameChain
<1>1. ChainInv' /\ Final' = Final /\ chain' = chain /\ scenario' = scenario /\ db' = db
  BY <1>0, SameChainInv DEF SameChain
<1>. DEFINE kind == Head(m.kinds)
            todo == StatementsOf(Logs(kind, m.indexed + 1, m.end))
<1>2. /\ m.pc = "index" /\ m.todo = {} /\ m.kinds # <<>>
      /\ m' = [m EXCEPT !.kinds = Tail(m.kinds), !.todo = todo]
  BY DEF GetLogs
<1>. HIDE DEF todo
<1>3. MonitorInv /\ m.kinds \in Suffixes /\ m.indexed \in Nat /\ m.end \in Nat
  BY DEF RegInv, MonitorInv
<1>4. /\ m'.pc = "index" /\ m'.indexed = m.indexed /\ m'.end = m.end
      /\ m'.kinds = Tail(m.kinds) /\ m'.todo = todo
      /\ m' = [pc |-> m'.pc, indexed |-> m'.indexed, end |-> m'.end, kinds |-> m'.kinds, todo |-> m'.todo]
  BY <1>2, <1>3 DEF MonitorInv
<1>5. /\ Tail(m.kinds) \in Suffixes /\ Len(m.kinds) \in Int /\ Len(Tail(m.kinds)) \in Int
      /\ Len(Tail(m.kinds)) + 1 = Len(m.kinds) /\ Rank(kind) = Len(m.kinds)
  BY <1>2, <1>3, TakeKind
<1>6. MonitorInv'
  BY <1>1, <1>2, <1>3, <1>4, <1>5 DEF MonitorInv
<1>7. \A row : (\E s \in todo : s.row = row) <=>
                  InRange(chain, row, m.indexed, m.end) /\ KindOf(row) = kind
  <2>1. chain \in Seq(Seq(Events))
    BY DEF RegInv, ChainInv, Sound
  <2>. HIDE DEF kind
  <2>2. m.indexed \in Int /\ m.end \in Int
    BY <1>3
  <2>. DEFINE first == m.indexed + 1
  <2>3. first = m.indexed + 1
    OBVIOUS
  <2>. HIDE DEF first
  <2>4. PICK a \in Int, b \in Int : a = m.indexed /\ b = m.end /\ first = a + 1
    BY <2>2, <2>3
  <2>5. StatementsFor(StatementsOf(Logs(kind, first, b)), kind, a, b)
    BY <2>1, <2>4, LogsRange
  <2>. QED  BY <2>4, <2>5 DEF todo, first, StatementsFor
<1>. HIDE DEF kind
<1>8. UpperInv'
  <2>1. ASSUME NEW s \in todo
        PROVE  InRange(chain, s.row, m.indexed, m.end) /\ Rank(KindOf(s.row)) = Len(Tail(m.kinds)) + 1
    BY <1>5, <1>7
  <2>. QED  BY <1>1, <1>4, <2>1 DEF RegInv, UpperInv
<1>9. LowerInv'
  <2>. SUFFICES ASSUME "start" \notin scenario.faults, NEW row \in Rows,
                       InRange(chain, row, m.indexed, m.end),
                       Rank(KindOf(row)) > Len(Tail(m.kinds))
                PROVE  row \in db.rows \/ \E s \in todo : s.row = row
    BY <1>1, <1>4 DEF RegInv, LowerInv
  <2>1. CASE Rank(KindOf(row)) > Len(m.kinds)
    BY <1>2, <2>1 DEF RegInv, LowerInv
  <2>2. CASE ~(Rank(KindOf(row)) > Len(m.kinds))
    <3>1. Rank(KindOf(row)) \in 1 .. 4
      BY RankOfRow
    <3>2. Rank(KindOf(row)) = Rank(kind)
      BY <1>5, <2>2, <3>1
    <3>3. kind \in {"register", "optin", "unregister", "slash"}
      BY <1>2, <1>3 DEF Suffixes, Kinds, kind
    <3>4. KindOf(row) = kind
      BY <3>2, <3>3 DEF Rank, KindOf
    <3>. QED  BY <1>7, <3>4
  <2>. QED  BY <2>1, <2>2
<1>. QED  BY <1>1, <1>6, <1>8, <1>9 DEF RegInv

\* A statement that does not fail.
LEMMA RegInvStatement ==
    ASSUME RegInv, SameChain, m.pc = "index", NEW s \in m.todo,
           m' = [m EXCEPT !.todo = m.todo \ {s}],
           db' = [db EXCEPT !.rows = Write(s.row)]
    PROVE  RegInv'
<1>1. ChainInv' /\ Final' = Final /\ chain' = chain /\ scenario' = scenario
  BY SameChainInv DEF SameChain
<1>2. MonitorInv
  BY DEF RegInv
<1>3. /\ m'.pc = "index" /\ m'.indexed = m.indexed /\ m'.end = m.end
      /\ m'.kinds = m.kinds /\ m'.todo = m.todo \ {s}
      /\ m' = [pc |-> m'.pc, indexed |-> m'.indexed, end |-> m'.end, kinds |-> m'.kinds, todo |-> m'.todo]
  BY <1>2 DEF MonitorInv
<1>4. /\ db' = [rows |-> db'.rows, indexed |-> db'.indexed]
      /\ db'.rows = Write(s.row) /\ db'.indexed = db.indexed
  BY <1>2 DEF MonitorInv
<1>5. db.rows \subseteq Write(s.row) /\ Write(s.row) \subseteq db.rows \cup {s.row}
  BY DEF Write
<1>6. InRange(chain, s.row, m.indexed, m.end) /\ Rank(KindOf(s.row)) = Len(m.kinds) + 1
  BY DEF RegInv, UpperInv
<1>7. /\ m.indexed \in Int /\ m.end \in Int /\ StartBlock \in Int /\ Final \in Int /\ db.indexed \in Int
      /\ StartBlock <= m.indexed /\ m.end <= Final
      /\ chain \in Seq(Seq(Events)) /\ Sound(chain, scenario.faults)
  <2>1. Sound(chain, scenario.faults) /\ peak \in Nat
    BY DEF RegInv, ChainInv
  <2>2. chain \in Seq(Seq(Events))
    BY <2>1 DEF Sound
  <2>3. Final \in Int /\ StartBlock \in Int
    BY <2>1, RegistryAssumption DEF Final
  <2>4. m.indexed \in Int /\ m.end \in Int /\ db.indexed \in Int /\ StartBlock <= m.indexed /\ m.end <= Final
    BY <1>2, <2>3 DEF MonitorInv
  <2>. QED  BY <2>1, <2>2, <2>3, <2>4
<1>8. s.row \in Rows /\ ("start" \notin scenario.faults =>
                            InRange(chain, Row("operators", s.row.root, 0), StartBlock, m.end))
  BY <1>6, <1>7, RangeRow
<1>9. MonitorInv'
  <2>1. Write(s.row) \subseteq Rows
    BY <1>2, <1>5, <1>8 DEF MonitorInv
  <2>. QED  BY <1>1, <1>2, <1>3, <1>4, <2>1 DEF MonitorInv
<1>10. UpperInv'
  <2>1. InRange(chain, s.row, StartBlock, Final)
    BY <1>6, <1>7, RangeWider
  <2>2. \A row \in Write(s.row) : InRange(chain, row, StartBlock, Final)
    BY <1>5, <2>1 DEF RegInv, UpperInv
  <2>. QED  BY <1>1, <1>3, <1>4, <2>2 DEF RegInv, UpperInv
<1>11. LowerInv'
  <2>. SUFFICES ASSUME "start" \notin scenario.faults
                PROVE  LowerInv'
    BY <1>1 DEF LowerInv
  <2>1. s.row \in Write(s.row)
    <3>. SUFFICES ASSUME s.row.table \in {"unregistered", "slashed"}
                  PROVE  IsOperator(s.row.root)
      BY DEF Write
    <3>. DEFINE op == Row("operators", s.row.root, 0)
    <3>1. InRange(chain, op, StartBlock, m.end)
      BY <1>8
    <3>2. Rank(KindOf(s.row)) \in {1, 2} /\ Rank(KindOf(op)) = 4 /\ Len(m.kinds) \in Int
      BY <1>2, <1>8, RankOfRow, TakeKind DEF MonitorInv
    <3>. HIDE DEF op
    <3>3. op \in Rows
      BY <1>7, <3>1, RangeRow
    <3>4. InRange(chain, op, StartBlock, m.indexed) \/ InRange(chain, op, m.indexed, m.end)
      BY <1>7, <3>1, RangeSplit
    <3>5. CASE InRange(chain, op, StartBlock, m.indexed)
      <4>1. CASE m.indexed = db.indexed
        BY <3>3, <3>5, <4>1 DEF RegInv, LowerInv, IsOperator, op
      <4>2. CASE m.indexed = StartBlock
        BY <1>7, <3>5, <4>2 DEF InRange
      <4>. QED  BY <1>2, <4>1, <4>2 DEF MonitorInv
    <3>6. CASE InRange(chain, op, m.indexed, m.end)
      <4>1. Rank(KindOf(op)) > Len(m.kinds)
        BY <1>6, <3>2
      <4>2. op \in db.rows \/ \E t \in m.todo : t.row = op
        BY <3>3, <3>6, <4>1 DEF RegInv, LowerInv
      <4>3. ASSUME NEW t \in m.todo, t.row = op PROVE FALSE
        <5>1. Rank(KindOf(op)) = Len(m.kinds) + 1
          BY <4>3 DEF RegInv, UpperInv
        <5>. QED  BY <1>6, <3>2, <5>1
      <4>. QED  BY <4>2, <4>3 DEF IsOperator, op
    <3>. QED  BY <3>4, <3>5, <3>6
  <2>2. ASSUME NEW row \in Rows, InRange(chain, row, StartBlock, db.indexed) PROVE row \in Write(s.row)
    BY <1>5, <2>2 DEF RegInv, LowerInv
  <2>3. ASSUME NEW row \in Rows, InRange(chain, row, m.indexed, m.end),
               Rank(KindOf(row)) > Len(m.kinds)
        PROVE  row \in Write(s.row) \/ \E t \in m.todo \ {s} : t.row = row
    <3>1. row \in db.rows \/ \E t \in m.todo : t.row = row
      BY <2>3 DEF RegInv, LowerInv
    <3>. QED  BY <1>5, <2>1, <3>1
  <2>. QED  BY <1>1, <1>3, <1>4, <2>2, <2>3 DEF LowerInv
<1>. QED  BY <1>1, <1>9, <1>10, <1>11 DEF RegInv

\* One statement of the range, which fails or not.
LEMMA RegInvExecute == ASSUME RegInv, Execute, UNCHANGED scenario PROVE RegInv'
<1>1. SameChain /\ m.pc = "index"
  BY DEF Execute, SameChain
<1>2. PICK s \in m.todo :
          IF Conflict(s.row)
             THEN m' = Down /\ db' = db
             ELSE /\ m' = [m EXCEPT !.todo = m.todo \ {s}]
                  /\ db' = [db EXCEPT !.rows = Write(s.row)]
  BY DEF Execute
<1>3. CASE Conflict(s.row)
  BY <1>1, <1>2, <1>3, RegInvDown
<1>4. CASE ~Conflict(s.row)
  BY <1>1, <1>2, <1>4, RegInvStatement
<1>. QED  BY <1>3, <1>4

\* The range is done: update_status.
LEMMA RegInvUpdateStatus == ASSUME RegInv, UpdateStatus, UNCHANGED scenario PROVE RegInv'
<1>0. SameChain
  BY DEF UpdateStatus, SameChain
<1>1. ChainInv' /\ Final' = Final /\ chain' = chain /\ scenario' = scenario
  BY <1>0, SameChainInv DEF SameChain
<1>2. /\ m.pc = "index" /\ m.todo = {} /\ m.kinds = <<>>
      /\ m' = [Down EXCEPT !.pc = "idle", !.indexed = m.end]
      /\ db' = [db EXCEPT !.indexed = m.end]
  BY DEF UpdateStatus
<1>3. MonitorInv
  BY DEF RegInv
<1>4. /\ m'.pc = "idle" /\ m'.indexed = m.end /\ m'.end = 0 /\ m'.kinds = <<>> /\ m'.todo = {}
      /\ m' = [pc |-> m'.pc, indexed |-> m'.indexed, end |-> m'.end, kinds |-> m'.kinds, todo |-> m'.todo]
  BY <1>2 DEF Down
<1>5. db' = [rows |-> db'.rows, indexed |-> db'.indexed] /\ db'.rows = db.rows /\ db'.indexed = m.end
  BY <1>2, <1>3 DEF MonitorInv
<1>6. /\ m.indexed \in Int /\ m.end \in Int /\ StartBlock \in Int /\ Final \in Int /\ db.indexed \in Int
      /\ StartBlock <= m.indexed /\ m.indexed < m.end /\ m.end <= Final
      /\ chain \in Seq(Seq(Events))
  BY <1>2, <1>3, RegistryAssumption DEF RegInv, MonitorInv, ChainInv, Sound, Final
<1>7. MonitorInv'
  <2>1. m.end > StartBlock
    BY <1>6
  <2>2. db.rows \subseteq Rows /\ m.end \in Nat /\ 0 \in Nat /\ <<>> \in Suffixes
    BY <1>3 DEF MonitorInv, Suffixes
  <2>3. db'.rows \subseteq Rows /\ db'.indexed \in Nat /\ m'.indexed \in Nat /\ m'.end \in Nat
    BY <1>4, <1>5, <2>2, Zenon
  <2>4. m'.indexed = IF db'.indexed > StartBlock THEN db'.indexed ELSE StartBlock
    BY <1>4, <1>5, <2>1, Zenon
  <2>5. db'.indexed <= Final' /\ m'.pc = "idle" /\ "idle" # "index" /\ m'.kinds \in Suffixes
    BY <1>1, <1>4, <1>5, <1>6, <2>2
  <2>. QED  BY <1>4, <1>5, <2>3, <2>4, <2>5 DEF MonitorInv, Suffixes
<1>8. UpperInv'
  BY <1>1, <1>4, <1>5 DEF RegInv, UpperInv
<1>9. LowerInv'
  <2>. SUFFICES ASSUME "start" \notin scenario.faults, NEW row \in Rows,
                       InRange(chain, row, StartBlock, m.end)
                PROVE  row \in db.rows
    BY <1>1, <1>4, <1>5 DEF LowerInv
  <2>1. InRange(chain, row, StartBlock, m.indexed) \/ InRange(chain, row, m.indexed, m.end)
    BY <1>6, RangeSplit
  <2>2. CASE InRange(chain, row, StartBlock, m.indexed)
    <3>1. CASE m.indexed = db.indexed
      BY <2>2, <3>1 DEF RegInv, LowerInv
    <3>2. CASE m.indexed = StartBlock
      BY <1>6, <2>2, <3>2 DEF InRange
    <3>. QED  BY <1>2, <1>3, <3>1, <3>2 DEF MonitorInv
  <2>3. CASE InRange(chain, row, m.indexed, m.end)
    <3>1. Rank(KindOf(row)) > Len(m.kinds)
      BY <1>2, RankOfRow
    <3>. QED  BY <1>2, <2>3, <3>1 DEF RegInv, LowerInv
  <2>. QED  BY <2>1, <2>2, <2>3
<1>. QED  BY <1>1, <1>7, <1>8, <1>9 DEF RegInv

\* Every step keeps the invariant of the registry.
LEMMA RegInvNext == ASSUME RegInv, [Next]_vars PROVE RegInv'
<1>1. CASE L1Block /\ UNCHANGED scenario
  BY <1>1, BlockKeepsFinal, RegInvChain
<1>2. CASE L1Reorg /\ UNCHANGED scenario
  BY <1>2, ReorgKeepsFinal, RegInvChain
<1>3. CASE Start /\ UNCHANGED scenario
  BY <1>3, RegInvDown DEF Start, SameChain
<1>4. CASE ReadHead /\ UNCHANGED scenario
  BY <1>4, RegInvReadHead
<1>5. CASE GetLogs /\ UNCHANGED scenario
  BY <1>5, RegInvGetLogs
<1>6. CASE Execute /\ UNCHANGED scenario
  BY <1>6, RegInvExecute
<1>7. CASE UpdateStatus /\ UNCHANGED scenario
  BY <1>7, RegInvUpdateStatus
<1>8. CASE MonitorFails /\ UNCHANGED scenario
  <2>1. SameChain /\ UNCHANGED db /\ m' = Down
    BY <1>8 DEF MonitorFails, SameChain
  <2>. QED  BY <2>1, RegInvDown
<1>9. CASE UNCHANGED <<registryVars, scenario>>
  <2>1. UNCHANGED <<chain, peak, db, m, scenario>>
    BY <1>9 DEF registryVars
  <2>. QED  BY <2>1 DEF RegInv, ChainInv, MonitorInv, UpperInv, LowerInv, Final
<1>10. CASE RegistryNext /\ UNCHANGED scenario
  BY <1>1, <1>2, <1>3, <1>4, <1>5, <1>6, <1>7, <1>8, <1>10 DEF RegistryNext, Monitor
<1>11. (RegistryNext /\ UNCHANGED scenario) \/ UNCHANGED <<registryVars, scenario>>
  BY DEF Next, vars
<1>. QED  BY <1>9, <1>10, <1>11

\* A row of the final blocks remains one.
LEMMA FinalRows ==
    ASSUME RegInv, [Next]_vars, NEW row, InRange(chain, row, StartBlock, Final)
    PROVE  InRange(chain', row, StartBlock, Final')
<1>1. CASE KeepsFinal
  <2>1. /\ chain \in Seq(Seq(Events)) /\ chain' \in Seq(Seq(Events))
        /\ StartBlock \in Int /\ Final \in Int /\ Final' \in Int
        /\ Final <= Final' /\ Final <= Final /\ Final <= Len(chain) /\ Final <= Len(chain')
        /\ \A k \in 1 .. Final : chain[k] = chain'[k]
    BY <1>1, ChainTypes
  <2>2. InRange(chain', row, StartBlock, Final)
    BY <2>1, RangePrefix
  <2>3. StartBlock <= StartBlock
    BY <2>1
  <2>. QED  BY <2>1, <2>2, <2>3, RangeWider
<1>2. CASE UNCHANGED <<chain, peak>>
  BY <1>2 DEF Final
<1>3. KeepsFinal \/ UNCHANGED <<chain, peak>>
  <2>1. CASE (L1Block \/ L1Reorg) /\ UNCHANGED scenario
    BY <2>1, BlockKeepsFinal, ReorgKeepsFinal
  <2>2. CASE Monitor \/ MonitorFails
    BY <2>2 DEF Monitor, MonitorFails, Start, ReadHead, BeginRange, GetLogs, Execute, UpdateStatus
  <2>3. CASE UNCHANGED registryVars
    BY <2>3 DEF registryVars
  <2>. QED  BY <2>1, <2>2, <2>3 DEF Next, RegistryNext, vars
<1>. QED  BY <1>1, <1>2, <1>3

\* What the rows of the final blocks are.
LEMMA RegInvTrue == ASSUME RegInv PROVE IndexedIsTrue
<1>1. chain \in Seq(Seq(Events)) /\ Final \in Int /\ db.indexed \in Int /\ StartBlock \in Int
      /\ Sound(chain, scenario.faults)
  <2>1. Sound(chain, scenario.faults) /\ peak \in Nat
    BY DEF RegInv, ChainInv
  <2>2. chain \in Seq(Seq(Events))
    BY <2>1 DEF Sound
  <2>3. Final \in Int /\ StartBlock \in Int
    BY <2>1, RegistryAssumption DEF Final
  <2>4. db.indexed \in Int
    BY DEF RegInv, MonitorInv
  <2>. QED  BY <2>1, <2>2, <2>3, <2>4
<1>2. db.rows \subseteq RowsUpTo(Final)
  <2>1. \A row : row \in RowsUpTo(Final) <=> InRange(chain, row, StartBlock, Final)
    BY <1>1, RowsUpToRange
  <2>. QED  BY <2>1 DEF RegInv, UpperInv
<1>3. ASSUME Without({"start"}) PROVE RowsUpTo(db.indexed) \subseteq db.rows
  <2>1. \A row : row \in RowsUpTo(db.indexed) <=> InRange(chain, row, StartBlock, db.indexed)
    BY <1>1, RowsUpToRange
  <2>2. "start" \notin scenario.faults
    BY <1>3 DEF Without
  <2>3. ASSUME NEW row, InRange(chain, row, StartBlock, db.indexed) PROVE row \in Rows
    BY <1>1, <2>3, RangeRow
  <2>. QED  BY <2>1, <2>2, <2>3 DEF RegInv, LowerInv
<1>. QED  BY <1>2, <1>3 DEF IndexedIsTrue

\* Whatever crashes, restarts and reorgs happen, and for every fork depth and
\* batch size, the database of the registry monitor holds at least the rows of
\* the blocks up to indexed_block, and at most those of the final blocks.
THEOREM IndexedIsTrueHolds == Spec => []IndexedIsTrue
<1>1. Init => RegInv
  BY RegInvInit DEF Init
<1>2. RegInv /\ [Next]_vars => RegInv'
  BY RegInvNext
<1>3. RegInv => IndexedIsTrue
  BY RegInvTrue
<1>. QED  BY <1>1, <1>2, <1>3, PTL DEF Spec

-----------------------------------------------------------------------------
(* The invariant of the builder.                                           *)

EpochAt(s) == s \div SlotsPerEpoch
Entry == [timestamp : Int, root : Roots]

\* The entries of a lookahead are of slots of epoch e, and in their order.
OfEpoch(q, e) ==
    \A j \in 1 .. Len(q) : \E x \in Nat : EpochAt(x) = e /\ q[j].timestamp = StartOf(x)
Increasing(q) == \A i, j \in 1 .. Len(q) : i < j => q[i].timestamp < q[j].timestamp

\* They are operators that opted in, in a final block.
OptedIn(q) == \A j \in 1 .. Len(q) : InRange(chain, Row("protocols", q[j].root, 0), StartBlock, Final)

\* The first n entries, or all of them, are over at slot s.
Over(q, n, s) ==
    \A i \in 1 .. Len(q) : n = IndexMax \/ i <= n => q[i].timestamp < StartOf(s)

Context(c) ==
    /\ c = [slot |-> c.slot, epoch |-> c.epoch, current |-> c.current,
            index |-> c.index, next |-> c.next]
    /\ c.slot \in Nat /\ c.epoch \in Nat /\ (c.index = IndexMax \/ c.index \in Nat)
    /\ c.current \in Seq(Entry) /\ OptedIn(c.current)
    /\ c.next \in Seq(Entry) /\ OptedIn(c.next)

ContextInv ==
    /\ slot \in Nat /\ Context(ctx)
    /\ ctx.slot <= NextSlot /\ ctx.epoch <= EpochAt(slot)

\* A context at slot s: at the last slot of an epoch the lookahead is that of
\* the next epoch.
Placed(c) ==
    /\ Increasing(c.current) /\ Increasing(c.next)
    /\ OfEpoch(c.next, c.epoch + 1)
    /\ IF EpochAt(c.slot) = c.epoch + 1
       THEN OfEpoch(c.current, c.epoch + 1)
       ELSE OfEpoch(c.current, c.epoch)
    /\ Over(c.current, c.index, c.slot)

PlaceInv ==
    Without({"build"}) =>
        /\ answer = "ok" => ctx.slot = NextSlot
        /\ ctx.slot = NextSlot => ctx.epoch = EpochAt(slot)
        /\ Placed(ctx)

BuilderInv == ContextInv /\ PlaceInv

-----------------------------------------------------------------------------
(* The clock.                                                              *)

\* A division by a positive number.
LEMMA Division ==
    ASSUME NEW a \in Nat, NEW d \in Nat \ {0}
    PROVE  a \div d \in Nat /\ (a \div d) * d <= a /\ a < (a \div d) * d + d
BY SMT

\* The quotient is the only number with these bounds.
LEMMA Quotient ==
    ASSUME NEW a \in Nat, NEW d \in Nat \ {0}, NEW q \in Nat, q * d <= a, a < q * d + d
    PROVE  a \div d = q
BY SMT

\* A quotient grows with the number that is divided.
LEMMA QuotientGrows ==
    ASSUME NEW a \in Nat, NEW b \in Nat, NEW d \in Nat \ {0}, a <= b
    PROVE  a \div d <= b \div d
BY SMT

\* Multiplication by a natural number is monotone.
LEMMA Grows ==
    ASSUME NEW a \in Nat, NEW b \in Nat, NEW d \in Nat \ {0}, a < b
    PROVE  a * d < b * d /\ a * d \in Nat /\ b * d \in Nat
BY SMT

\* Multiplication distributes over addition.
LEMMA Distributes ==
    ASSUME NEW a \in Nat, NEW b \in Nat, NEW d \in Nat
    PROVE  (a + b) * d = a * d + b * d
BY SMT

\* A slot begins in itself; slots are in the order of the time.
LEMMA SlotStart ==
    ASSUME NEW s \in Nat
    PROVE  StartOf(s) \in Nat /\ SlotOf(StartOf(s)) = s /\ Epoch(s) = EpochAt(s)
<1>1. SlotDuration \in Nat \ {0} /\ Genesis \in Nat
  BY ClockAssumption
<1>2. s * SlotDuration \in Nat /\ StartOf(s) - Genesis = s * SlotDuration /\ StartOf(s) \in Nat
  BY <1>1, SMT DEF StartOf
<1>3. (s * SlotDuration) \div SlotDuration = s
  <2>. DEFINE p == s * SlotDuration
  <2>1. p \in Nat /\ s * SlotDuration <= p /\ p < s * SlotDuration + SlotDuration
    BY <1>1, <1>2
  <2>. QED  BY <2>1, <1>1, Quotient
<1>4. SlotOf(StartOf(s)) = s
  BY <1>2, <1>3 DEF SlotOf
<1>. QED  BY <1>2, <1>4 DEF Epoch, EpochOf, EpochAt

\* Slots start in their order.
LEMMA StartGrows ==
    ASSUME NEW s \in Nat, NEW t \in Nat, s < t
    PROVE  StartOf(s) < StartOf(t)
<1>1. SlotDuration \in Nat \ {0} /\ Genesis \in Nat
  BY ClockAssumption
<1>. QED  BY <1>1, Grows DEF StartOf

\* The epoch of a slot, of a later one, and of the next one.
LEMMA EpochGrows ==
    ASSUME NEW s \in Nat, NEW t \in Nat, s <= t
    PROVE  EpochAt(s) \in Nat /\ EpochAt(t) \in Nat /\ EpochAt(s) <= EpochAt(t)
BY ClockAssumption, Division, QuotientGrows DEF EpochAt

\* The next slot is of the same epoch or the next one.
LEMMA EpochOfNext ==
    ASSUME NEW s \in Nat
    PROVE  /\ EpochAt(s) \in Nat /\ EpochAt(s + 1) \in Nat
           /\ EpochAt(s + 1) = EpochAt(s) \/ EpochAt(s + 1) = EpochAt(s) + 1
<1>. DEFINE d == SlotsPerEpoch
            q == s \div d
            r == (s + 1) \div d
<1>1. d \in Nat \ {0}
  BY ClockAssumption
<1>2. q \in Nat /\ q * d <= s /\ s < q * d + d /\ r \in Nat
  BY <1>1, Division
<1>3. CASE s + 1 < q * d + d
  <2>1. s + 1 \in Nat /\ q * d <= s + 1
    BY <1>1, <1>2
  <2>. HIDE DEF q
  <2>2. (s + 1) \div d = q
    BY <1>1, <1>2, <1>3, <2>1, Quotient
  <2>. QED  BY <1>2, <2>2 DEF EpochAt, q
<1>4. CASE ~(s + 1 < q * d + d)
  <2>1. s + 1 = q * d + d
    BY <1>1, <1>2, <1>4
  <2>2. (q + 1) * d = q * d + d
    BY <1>1, <1>2
  <2>3. (q + 1) * d <= s + 1 /\ s + 1 < (q + 1) * d + d /\ q + 1 \in Nat /\ s + 1 \in Nat
    BY <1>1, <1>2, <2>1, <2>2
  <2>. HIDE DEF q
  <2>4. (s + 1) \div d = q + 1
    BY <1>1, <2>3, Quotient
  <2>. QED  BY <1>2, <2>4 DEF EpochAt, q
<1>. QED  BY <1>3, <1>4

\* The i-th slot of an epoch, and its time in a lookahead.
LEMMA SlotInEpoch ==
    ASSUME NEW e \in Nat, NEW i \in 1 .. SlotsPerEpoch
    PROVE  LET x == e * SlotsPerEpoch + (i - 1)
           IN x \in Nat /\ EpochAt(x) = e /\ EpochBegin(e) + (i - 1) * SlotDuration = StartOf(x)
<1>. DEFINE d == SlotsPerEpoch
            p == e * d
            j == i - 1
<1>1. d \in Nat \ {0} /\ SlotDuration \in Nat \ {0} /\ Genesis \in Nat
  BY ClockAssumption
<1>2. p \in Nat /\ j \in Nat /\ j < d
  BY <1>1
<1>3. EpochAt(p + j) = e
  <2>1. p + j \in Nat /\ e * d <= p + j /\ p + j < e * d + d
    BY <1>1, <1>2
  <2>. HIDE DEF j
  <2>2. (p + j) \div d = e
    BY <1>1, <2>1, Quotient
  <2>. QED  BY <2>2 DEF EpochAt
<1>. HIDE DEF p, j
<1>4. (p + j) * SlotDuration = p * SlotDuration + j * SlotDuration
  BY <1>1, <1>2, Distributes
<1>5. p * SlotDuration \in Nat /\ j * SlotDuration \in Nat
  BY <1>1, <1>2
<1>6. Genesis + p * SlotDuration + j * SlotDuration = StartOf(p + j)
  BY <1>1, <1>4, <1>5 DEF StartOf
<1>. QED  BY <1>2, <1>3, <1>6 DEF EpochBegin, StartOf, p, j

-----------------------------------------------------------------------------
(* What build returns.                                                     *)

\* The elements of a set of slots of an epoch, in order.
LEMMA Ordered ==
    ASSUME NEW S, S \subseteq 1 .. SlotsPerEpoch, NEW s \in InOrder(S)
    PROVE  /\ s \in Seq(S)
           /\ \A i, j \in 1 .. Len(s) : i < j => s[i] < s[j]
<1>1. PICK n \in 0 .. SlotsPerEpoch : s \in [1 .. n -> S]
  BY DEF InOrder
<1>2. n \in Nat /\ s \in Seq(S) /\ Len(s) = n
  BY <1>1, ClockAssumption
<1>3. DOMAIN s = 1 .. Len(s)
  BY <1>1, <1>2
<1>. QED  BY <1>2, <1>3 DEF InOrder

\* An operator chosen for a slot has opted in.
LEMMA ChosenOptedIn ==
    ASSUME NEW e, NEW i, NEW r \in OperatorsOf(e, i), r # NoRoot
    PROVE  Row("protocols", r, 0) \in db.rows
<1>1. r \in OperatorsByPubkey(Duties[e][i])
  BY DEF OperatorsOf
<1>. QED  BY <1>1 DEF OperatorsByPubkey

\* build makes entries of the slots of the epoch, in their order.
LEMMA BuildEntries ==
    ASSUME NEW e \in Nat, NEW q \in Build(e)
    PROVE  /\ q \in Seq(Entry) /\ OfEpoch(q, e) /\ Increasing(q)
           /\ \A j \in 1 .. Len(q) : Row("protocols", q[j].root, 0) \in db.rows
<1>. DEFINE Slots(p) == {i \in 1 .. SlotsPerEpoch : p[i] # NoRoot}
            Picks == {p \in [1 .. SlotsPerEpoch -> Roots \cup {NoRoot}] :
                        \A i \in 1 .. SlotsPerEpoch : p[i] \in OperatorsOf(e, i)}
            Seqs(p) == {[j \in 1 .. Len(s) |-> [timestamp |-> EpochBegin(e) + (s[j] - 1) * SlotDuration,
                                               root |-> p[s[j]]]] : s \in InOrder(Slots(p))}
<1>1. PICK pick \in Picks : q \in Seqs(pick)
  BY DEF Build
<1>2. PICK s \in InOrder(Slots(pick)) :
         q = [j \in 1 .. Len(s) |-> [timestamp |-> EpochBegin(e) + (s[j] - 1) * SlotDuration,
                                     root |-> pick[s[j]]]]
  BY <1>1
<1>3. s \in Seq(Slots(pick)) /\ Len(s) \in Nat /\ \A i, j \in 1 .. Len(s) : i < j => s[i] < s[j]
  <2>1. Slots(pick) \subseteq 1 .. SlotsPerEpoch
    OBVIOUS
  <2>. HIDE DEF Slots
  <2>2. s \in Seq(Slots(pick)) /\ \A i, j \in 1 .. Len(s) : i < j => s[i] < s[j]
    BY <2>1, Ordered
  <2>. QED  BY <2>2
<1>4. /\ pick \in [1 .. SlotsPerEpoch -> Roots \cup {NoRoot}]
      /\ \A i \in 1 .. SlotsPerEpoch : pick[i] \in OperatorsOf(e, i)
  OBVIOUS
<1>5. ASSUME NEW j \in 1 .. Len(s)
      PROVE  s[j] \in 1 .. SlotsPerEpoch /\ pick[s[j]] \in Roots
             /\ Row("protocols", pick[s[j]], 0) \in db.rows
  <2>1. s[j] \in Slots(pick)
    BY <1>3
  <2>2. s[j] \in 1 .. SlotsPerEpoch /\ pick[s[j]] # NoRoot
    BY <2>1
  <2>3. pick[s[j]] \in Roots /\ pick[s[j]] \in OperatorsOf(e, s[j])
    BY <1>4, <2>2
  <2>. QED  BY <2>2, <2>3, ChosenOptedIn
<1>. DEFINE x(j) == e * SlotsPerEpoch + (s[j] - 1)
<1>6. ASSUME NEW j \in 1 .. Len(s)
      PROVE  /\ x(j) \in Nat /\ EpochAt(x(j)) = e /\ StartOf(x(j)) \in Nat
             /\ q[j].timestamp = StartOf(x(j)) /\ q[j].root = pick[s[j]]
             /\ q[j] = [timestamp |-> StartOf(x(j)), root |-> pick[s[j]]]
  <2>1. s[j] \in 1 .. SlotsPerEpoch
    BY <1>5
  <2>2. x(j) \in Nat /\ EpochAt(x(j)) = e /\ EpochBegin(e) + (s[j] - 1) * SlotDuration = StartOf(x(j))
    BY <2>1, SlotInEpoch
  <2>3. q[j] = [timestamp |-> EpochBegin(e) + (s[j] - 1) * SlotDuration, root |-> pick[s[j]]]
    BY <1>2
  <2>4. q[j] = [timestamp |-> StartOf(x(j)), root |-> pick[s[j]]]
    BY <2>2, <2>3
  <2>. HIDE DEF x
  <2>5. StartOf(x(j)) \in Nat
    BY <2>2, SlotStart
  <2>6. q[j].timestamp = StartOf(x(j)) /\ q[j].root = pick[s[j]]
    <3>. PICK y, r : y = StartOf(x(j)) /\ r = pick[s[j]]
      OBVIOUS
    <3>1. q[j] = [timestamp |-> y, root |-> r]
      BY <2>4, Zenon
    <3>2. q[j].timestamp = y /\ q[j].root = r
      BY <3>1
    <3>. QED  BY <3>2, Zenon
  <2>. QED  BY <2>2, <2>4, <2>5, <2>6
<1>7. ASSUME NEW i \in 1 .. Len(s), NEW j \in 1 .. Len(s), i < j PROVE x(i) < x(j)
  <2>1. s[i] \in Int /\ s[j] \in Int /\ s[i] < s[j]
    <3>1. s[i] < s[j]
      <4>1. \A a, b \in 1 .. Len(s) : a < b => s[a] < s[b]
        BY <1>3
      <4>. QED  BY <1>7, <4>1
    <3>2. s[i] \in 1 .. SlotsPerEpoch /\ s[j] \in 1 .. SlotsPerEpoch
      BY <1>5
    <3>. QED  BY <3>1, <3>2
  <2>2. e * SlotsPerEpoch \in Int
    BY ClockAssumption
  <2>. DEFINE p == e * SlotsPerEpoch
  <2>. HIDE DEF p
  <2>3. p + (s[i] - 1) < p + (s[j] - 1)
    BY <2>1, <2>2 DEF p
  <2>. QED  BY <2>3 DEF p
<1>. HIDE DEF x
<1>8. DOMAIN q = 1 .. Len(s)
  BY <1>2
<1>9. q = [j \in 1 .. Len(s) |-> q[j]] /\ \A j \in 1 .. Len(s) : q[j] \in Entry
  <2>1. q = [j \in 1 .. Len(s) |-> q[j]]
    BY <1>2
  <2>2. ASSUME NEW j \in 1 .. Len(s) PROVE q[j] \in Entry
    <3>0. StartOf(x(j)) \in Nat
      BY <1>6
    <3>1. pick[s[j]] \in Roots /\ StartOf(x(j)) \in Int
      BY <1>5, <3>0
    <3>2. q[j] = [timestamp |-> StartOf(x(j)), root |-> pick[s[j]]]
      BY <1>6
    <3>. QED  BY <3>1, <3>2 DEF Entry
  <2>. QED  BY <2>1, <2>2
<1>10. q \in Seq(Entry) /\ Len(q) = Len(s)
  <2>. DEFINE n == Len(s)
  <2>. HIDE DEF n
  <2>1. n \in Nat /\ q = [j \in 1 .. n |-> q[j]] /\ \A j \in 1 .. n : q[j] \in Entry
    BY <1>3, <1>9 DEF n
  <2>2. q \in [1 .. n -> Entry]
    BY <2>1, Zenon
  <2>3. q \in Seq(Entry) /\ Len(q) = n
    BY <2>1, <2>2
  <2>. QED  BY <2>3 DEF n
<1>11. OfEpoch(q, e)
  <2>. SUFFICES ASSUME NEW j \in 1 .. Len(s)
                PROVE  \E y \in Nat : EpochAt(y) = e /\ q[j].timestamp = StartOf(y)
    BY <1>10 DEF OfEpoch
  <2>1. x(j) \in Nat /\ EpochAt(x(j)) = e /\ q[j].timestamp = StartOf(x(j))
    BY <1>6
  <2>. QED  BY <2>1
<1>12. Increasing(q)
  <2>. SUFFICES ASSUME NEW i \in 1 .. Len(s), NEW j \in 1 .. Len(s), i < j
                PROVE  q[i].timestamp < q[j].timestamp
    BY <1>10 DEF Increasing
  <2>1. x(i) \in Nat /\ q[i].timestamp = StartOf(x(i))
    BY <1>6
  <2>2. x(j) \in Nat /\ q[j].timestamp = StartOf(x(j))
    BY <1>6
  <2>3. x(i) < x(j)
    BY <1>7
  <2>. QED  BY <2>1, <2>2, <2>3, StartGrows
<1>13. \A j \in 1 .. Len(q) : Row("protocols", q[j].root, 0) \in db.rows
  BY <1>5, <1>6, <1>10
<1>. QED  BY <1>10, <1>11, <1>12, <1>13

-----------------------------------------------------------------------------
(* The steps of the builder.                                               *)

\* The lookahead built from the database.
LEMMA BuildOptedIn ==
    ASSUME RegInv, NEW e \in Nat, NEW q \in Build(e)
    PROVE  q \in Seq(Entry) /\ OfEpoch(q, e) /\ Increasing(q) /\ OptedIn(q)
<1>1. /\ q \in Seq(Entry) /\ OfEpoch(q, e) /\ Increasing(q)
      /\ \A j \in 1 .. Len(q) : Row("protocols", q[j].root, 0) \in db.rows
  BY BuildEntries
<1>2. OptedIn(q)
  BY <1>1 DEF OptedIn, RegInv, UpperInv
<1>. QED  BY <1>1, <1>2

\* The invariant of the builder holds initially.
LEMMA BuilderInvInit == ASSUME Init PROVE BuilderInv
<1>1. slot \in Nat /\ ctx = Unbuilt /\ answer = "none"
  BY RegistryAssumption DEF Init, RegistryInit
<1>2. EpochAt(0) \in Nat /\ EpochAt(slot) \in Nat /\ EpochAt(0) <= EpochAt(slot)
  BY <1>1, EpochGrows
<1>3. Context(ctx)
  BY <1>1 DEF Unbuilt, Context, OptedIn
<1>4. ContextInv
  BY <1>1, <1>2, <1>3 DEF ContextInv, Unbuilt, NextSlot
<1>5. Placed(ctx)
  BY <1>1 DEF Unbuilt, Placed, Increasing, OfEpoch, Over
<1>6. ctx.slot # NextSlot
  BY <1>1 DEF Unbuilt, NextSlot
<1>7. PlaceInv
  BY <1>1, <1>5, <1>6 DEF PlaceInv
<1>. QED  BY <1>4, <1>7 DEF BuilderInv

\* A step of L1 or of the monitor.
LEMMA ContextKept ==
    ASSUME RegInv, [Next]_vars, NEW c, Context(c)
    PROVE  Context(c)'
<1>1. ASSUME NEW q, OptedIn(q) PROVE OptedIn(q)'
  BY <1>1, FinalRows DEF OptedIn
<1>. QED  BY <1>1 DEF Context

\* L1 and the monitor leave the builder alone.
LEMMA BuilderInvRegistry ==
    ASSUME RegInv, BuilderInv, [Next]_vars, UNCHANGED <<scenario, slot, ctx, answer>>
    PROVE  BuilderInv'
<1>1. PICK c : c = ctx
  OBVIOUS
<1>2. Context(c)'
  BY <1>1, ContextKept DEF BuilderInv, ContextInv
<1>3. Context(ctx)'
  BY <1>1, <1>2
<1>4. ContextInv'
  BY <1>3 DEF BuilderInv, ContextInv, NextSlot
<1>5. PlaceInv'
  BY DEF BuilderInv, PlaceInv, Without, Placed, NextSlot
<1>. QED  BY <1>4, <1>5 DEF BuilderInv

\* The clock moves on.
LEMMA BuilderInvTick ==
    ASSUME BuilderInv, Tick, UNCHANGED <<registryVars, scenario>>
    PROVE  BuilderInv'
<1>1. /\ slot \in Nat /\ slot' = slot + 1 /\ answer' = "none" /\ ctx' = ctx /\ scenario' = scenario
      /\ ctx.slot \in Nat /\ ctx.slot <= slot + 1 /\ ctx.epoch \in Nat /\ ctx.epoch <= EpochAt(slot)
  BY DEF BuilderInv, ContextInv, Context, Tick, NextSlot
<1>2. slot + 1 \in Nat /\ slot <= slot + 1
  BY <1>1
<1>3. EpochAt(slot) \in Nat /\ EpochAt(slot + 1) \in Nat /\ EpochAt(slot) <= EpochAt(slot + 1)
  BY <1>1, <1>2, EpochGrows
<1>4. ctx.epoch <= EpochAt(slot')
  BY <1>1, <1>3
<1>5. Context(ctx)'
  BY <1>1 DEF BuilderInv, ContextInv, Context, OptedIn, registryVars, Final
<1>6. NextSlot' = slot + 2
  BY <1>1 DEF NextSlot
<1>7. ContextInv'
  BY <1>1, <1>2, <1>4, <1>5, <1>6 DEF ContextInv
<1>8. PlaceInv'
  <2>1. ctx.slot # NextSlot'
    BY <1>1, <1>6
  <2>. QED  BY <1>1, <2>1 DEF BuilderInv, PlaceInv, Without, Placed
<1>. QED  BY <1>7, <1>8 DEF BuilderInv

\* Nothing that the invariant of a context is about changes, except ctx.
SameRegistry == UNCHANGED <<registryVars, scenario, slot>>

\* A natural number and the next one.
LEMMA Successor ==
    ASSUME NEW n \in Nat
    PROVE  0 \in Nat /\ 0 <= n /\ n + 1 \in Nat /\ 0 <= n + 1 /\ 0 # n + 1 /\ n # n + 1
OBVIOUS

\* An index at the first entry has passed over none.
LEMMA NothingOver ==
    ASSUME NEW q, NEW s
    PROVE  Over(q, 0, s)
<1>1. 0 # IndexMax
  BY DEF IndexMax
<1>2. \A i \in 1 .. Len(q) : ~(i <= 0)
  OBVIOUS
<1>. QED  BY <1>1, <1>2, Zenon DEF Over

\* The lookahead without entries, which epochs and indices say nothing about.
LEMMA EmptyLookahead ==
    /\ <<>> \in Seq(Entry) /\ OptedIn(<<>>) /\ Increasing(<<>>)
    /\ \A e : OfEpoch(<<>>, e)
<1>1. <<>> \in Seq(Entry)
  OBVIOUS
<1>2. \A i \in 1 .. Len(<<>>) : FALSE
  OBVIOUS
<1>. QED  BY <1>1, <1>2, Zenon DEF OptedIn, Increasing, OfEpoch

\* A context keeps its shape while registry and clock stand still.
LEMMA ContextSame ==
    ASSUME SameRegistry, NEW c, Context(c)
    PROVE  Context(c)'
BY DEF SameRegistry, registryVars, Context, OptedIn, Final

\* LookaheadBuilder::new builds the lookaheads of two epochs.
LEMMA BuilderInvNew ==
    ASSUME RegInv, BuilderInv, New, SameRegistry
    PROVE  BuilderInv'
<1>1. PICK current \in Build(Epoch(slot)), next \in Build(Epoch(slot) + 1) :
         ctx' = [slot |-> 0, epoch |-> Epoch(slot), current |-> current, index |-> 0, next |-> next]
  BY DEF New
<1>2. ctx = Unbuilt /\ answer' = answer /\ slot' = slot /\ scenario' = scenario /\ slot \in Nat
  BY DEF New, SameRegistry, BuilderInv, ContextInv
<1>. DEFINE e == EpochAt(slot)
<1>3. e \in Nat /\ e + 1 \in Nat /\ Epoch(slot) = e /\ EpochAt(0) \in Nat /\ EpochAt(0) <= e
  BY <1>2, SlotStart, EpochGrows
<1>. HIDE DEF e
<1>4. /\ current \in Seq(Entry) /\ OfEpoch(current, e) /\ Increasing(current) /\ OptedIn(current)
      /\ next \in Seq(Entry) /\ OfEpoch(next, e + 1) /\ Increasing(next) /\ OptedIn(next)
  BY <1>1, <1>3, BuildOptedIn
<1>5. PICK c : c = [slot |-> 0, epoch |-> e, current |-> current, index |-> 0, next |-> next]
  OBVIOUS
<1>6. ctx' = c
  BY <1>1, <1>3, <1>5
<1>7. Context(c)
  BY <1>3, <1>4, <1>5 DEF Context
<1>8. Context(ctx)'
  BY <1>6, <1>7, ContextSame
<1>9. ContextInv'
  <2>1. c.slot = 0 /\ c.epoch = e
    BY <1>5
  <2>2. c.slot <= NextSlot /\ c.epoch <= EpochAt(slot)
    <3>1. e <= e
      BY <1>3
    <3>. QED  BY <1>2, <2>1, <3>1, Successor, Zenon DEF NextSlot, e
  <2>. QED  BY <1>2, <1>6, <1>8, <2>2 DEF ContextInv, NextSlot
<1>10. PlaceInv'
  <2>1. c.slot # slot + 1
    <3>1. c.slot = 0
      BY <1>5
    <3>. QED  BY <1>2, <3>1, Successor, Zenon
  <2>2. ASSUME Without({"build"}) PROVE answer # "ok"
    <3>0. ctx.slot = 0
      BY <1>2 DEF Unbuilt
    <3>1. ctx.slot # NextSlot
      BY <1>2, <3>0, Successor, Zenon DEF NextSlot
    <3>. QED  BY <2>2, <3>1 DEF BuilderInv, PlaceInv
  <2>3. EpochAt(c.slot) # c.epoch + 1
    BY <1>3, <1>5
  <2>4. Over(c.current, c.index, c.slot)
    <3>1. c.index = 0
      BY <1>5
    <3>. QED  BY <3>1, NothingOver, Zenon
  <2>5. Placed(c)
    BY <1>4, <1>5, <2>3, <2>4 DEF Placed
  <2>6. Placed(c)'
    BY <2>5 DEF Placed
  <2>. QED  BY <1>2, <1>6, <2>1, <2>2, <2>6 DEF PlaceInv, NextSlot, Without
<1>. QED  BY <1>9, <1>10 DEF BuilderInv

\* The context between the two halves of update_context.
Moved(c) ==
    /\ Context(c) /\ c.slot = NextSlot /\ c.epoch = EpochAt(slot)
    /\ Without({"build"}) => /\ Increasing(c.current) /\ Increasing(c.next)
                             /\ OfEpoch(c.current, c.epoch) /\ OfEpoch(c.next, c.epoch + 1)
                             /\ Over(c.current, c.index, c.slot)

\* The times of the entries are numbers.
LEMMA EntryTimes ==
    ASSUME NEW q \in Seq(Entry)
    PROVE  \A i \in 1 .. Len(q) : q[i].timestamp \in Int
<1>1. \A i \in 1 .. Len(q) : q[i] \in Entry
  OBVIOUS
<1>. QED  BY <1>1 DEF Entry

\* Entries that are over remain over.
LEMMA StillOver ==
    ASSUME NEW q \in Seq(Entry), NEW n, NEW s \in Nat, NEW t \in Nat, s <= t, Over(q, n, s)
    PROVE  Over(q, n, t)
<1>1. StartOf(s) \in Int /\ StartOf(t) \in Int /\ StartOf(s) <= StartOf(t)
  <2>1. StartOf(s) \in Int /\ StartOf(t) \in Int
    BY SlotStart
  <2>2. CASE s = t
    BY <2>1, <2>2
  <2>3. CASE s # t
    <3>1. s < t
      BY <2>3
    <3>2. StartOf(s) < StartOf(t)
      BY <3>1, StartGrows
    <3>. QED  BY <2>1, <3>2
  <2>. QED  BY <2>1, <2>2, <2>3
<1>2. \A i \in 1 .. Len(q) : q[i].timestamp \in Int
  BY EntryTimes
<1>. QED  BY <1>1, <1>2 DEF Over

\* The context after the change of the epoch.
LEMMA MovedEpochInv ==
    ASSUME RegInv, BuilderInv, ctx.slot # NextSlot, NEW c \in MovedEpoch(Epoch(slot))
    PROVE  Moved(c)
<1>. DEFINE e == EpochAt(slot)
<1>1. /\ slot \in Nat /\ Context(ctx) /\ ctx.slot \in Nat /\ ctx.slot <= NextSlot
      /\ ctx.epoch \in Nat /\ ctx.epoch <= e
  BY DEF BuilderInv, ContextInv, Context
<1>2. NextSlot \in Nat /\ ctx.slot <= slot
  BY <1>1 DEF NextSlot
<1>3. e \in Nat /\ e + 1 \in Nat /\ Epoch(slot) = e /\ EpochAt(ctx.slot) \in Nat /\ EpochAt(ctx.slot) <= e
  BY <1>1, <1>2, SlotStart, EpochGrows
<1>. HIDE DEF e
<1>4. CASE e <= ctx.epoch
  <2>1. c = [ctx EXCEPT !.slot = NextSlot] /\ ctx.epoch = e
    BY <1>1, <1>3, <1>4 DEF MovedEpoch
  <2>2. /\ c = [slot |-> NextSlot, epoch |-> ctx.epoch, current |-> ctx.current,
                index |-> ctx.index, next |-> ctx.next]
    BY <1>1, <2>1 DEF Context
  <2>3. Context(c)
    BY <1>1, <1>2, <2>2 DEF Context
  <2>4. ASSUME Without({"build"})
        PROVE  /\ Increasing(c.current) /\ Increasing(c.next)
               /\ OfEpoch(c.current, c.epoch) /\ OfEpoch(c.next, c.epoch + 1)
               /\ Over(c.current, c.index, c.slot)
    <3>1. Placed(ctx) /\ EpochAt(ctx.slot) # ctx.epoch + 1
      BY <1>3, <2>1, <2>4 DEF BuilderInv, PlaceInv
    <3>2. Over(ctx.current, ctx.index, NextSlot)
      BY <1>1, <1>2, <3>1, StillOver DEF Placed, Context
    <3>. QED  BY <2>2, <3>1, <3>2 DEF Placed
  <2>. QED  BY <2>1, <2>2, <2>3, <2>4 DEF Moved, e
<1>5. CASE ~(e <= ctx.epoch)
  <2>1. PICK current \in IF e = ctx.epoch + 1 THEN {ctx.next} ELSE Build(e), next \in Build(e + 1) :
           c = [slot |-> NextSlot, epoch |-> e, current |-> current, index |-> 0, next |-> next]
    BY <1>3, <1>5 DEF MovedEpoch
  <2>2. next \in Seq(Entry) /\ OfEpoch(next, e + 1) /\ Increasing(next) /\ OptedIn(next)
    BY <1>3, BuildOptedIn
  <2>3. /\ current \in Seq(Entry) /\ OptedIn(current)
        /\ Without({"build"}) => OfEpoch(current, e) /\ Increasing(current)
    <3>1. CASE e = ctx.epoch + 1
      BY <1>1, <2>1, <3>1 DEF Context, BuilderInv, PlaceInv, Placed
    <3>2. CASE e # ctx.epoch + 1
      <4>1. current \in Build(e)
        BY <2>1, <3>2
      <4>. QED  BY <1>3, <4>1, BuildOptedIn
    <3>. QED  BY <3>1, <3>2
  <2>4. Context(c)
    BY <1>2, <1>3, <2>1, <2>2, <2>3 DEF Context
  <2>5. Over(c.current, c.index, c.slot)
    <3>1. c.index = 0
      BY <2>1
    <3>. QED  BY <3>1, NothingOver, Zenon
  <2>. QED  BY <2>1, <2>2, <2>3, <2>4, <2>5 DEF Moved, e
<1>. QED  BY <1>4, <1>5

\* The choice of the index passes over no entry that is not over.
Chosen(c, e) ==
    LET t == StartOf(NextSlot)
        k == c.index
    IN IF t <= Time(c, k) THEN k
       ELSE IF k = Len(c.current) - 1 THEN IndexMax
       ELSE Search(c, k, e, t)

\* The entries before the one that the search finds are over.
LEMMA ChosenOver ==
    ASSUME NEW c, c.current \in Seq(Entry), c.index \in Nat, NEW e, slot \in Nat,
           Increasing(c.current), Over(c.current, c.index, NextSlot), Chosen(c, e) # Len(c.current)
    PROVE  Over(c.current, Chosen(c, e), NextSlot)
<1>. DEFINE t == StartOf(NextSlot)
            k == c.index
            q == c.current
            n == Len(q)
<1>0. t \in Int /\ n \in Nat /\ k \in Nat
  <2>1. NextSlot \in Nat
    BY Successor, Zenon DEF NextSlot
  <2>2. t \in Nat
    BY <2>1, SlotStart, Zenon DEF t
  <2>3. n \in Nat
    BY DEF n
  <2>. HIDE DEF t, n
  <2>. QED  BY <2>2, <2>3
<1>1. \A i \in 1 .. n : q[i].timestamp \in Int
  BY EntryTimes
<1>2. ASSUME NEW j \in 1 .. n, t > q[j].timestamp, NEW i \in 1 .. n, i <= j
      PROVE  q[i].timestamp < t
  <2>1. CASE i = j
    BY <1>2, <2>1
  <2>2. CASE i # j
    <3>1. i < j
      <4>. HIDE DEF n, t
      <4>. QED  BY <1>0, <1>2, <2>2
    <3>2. q[i].timestamp < q[j].timestamp
      BY <3>1 DEF Increasing
    <3>3. q[i].timestamp \in Int /\ q[j].timestamp \in Int /\ q[j].timestamp < t
      BY <1>0, <1>1, <1>2
    <3>4. PICK u, v : u = q[i].timestamp /\ v = q[j].timestamp
      OBVIOUS
    <3>5. u \in Int /\ v \in Int /\ u < v /\ v < t
      BY <3>2, <3>3, <3>4, Zenon
    <3>6. u < t
      <4>. HIDE DEF n, t
      <4>. QED  BY <1>0, <3>5
    <3>. QED  BY <3>4, <3>6, Zenon
  <2>. QED  BY <2>1, <2>2
<1>3. CASE Chosen(c, e) = k
  BY <1>3
<1>4. CASE ~(t <= Time(c, k)) /\ k = n - 1
  <2>0. n \in 1 .. n /\ k + 1 = n
    <3>. HIDE DEF n, k, t
    <3>. QED  BY <1>0, <1>4
  <2>1. Time(c, k) = q[n].timestamp
    BY <2>0, Zenon DEF Time
  <2>2. t > q[n].timestamp
    <3>1. q[n].timestamp \in Int /\ ~(t <= q[n].timestamp)
      BY <1>1, <1>4, <2>0, <2>1, Zenon
    <3>. PICK x : x = q[n].timestamp
      OBVIOUS
    <3>. HIDE DEF n, t
    <3>. QED  BY <1>0, <3>1
  <2>3. \A i \in 1 .. n : q[i].timestamp < t
    <3>. SUFFICES ASSUME NEW i \in 1 .. n PROVE q[i].timestamp < t
      OBVIOUS
    <3>1. i <= n
      OBVIOUS
    <3>. QED  BY <1>2, <2>0, <2>2, <3>1, Zenon
  <2>. QED  BY <2>3 DEF Over
<1>5. CASE ~(t <= Time(c, k)) /\ k # n - 1 /\ Chosen(c, e) # k
  <2>. DEFINE covers == {j \in k + 1 .. n - 1 : t > Time(c, j - 1) /\ t <= Time(c, j)}
  <2>1. Chosen(c, e) = IF covers = {} THEN n ELSE CHOOSE j \in covers : TRUE
    BY <1>5 DEF Chosen, Search
  <2>2. CASE covers # {}
    <3>1. PICK j \in covers : Chosen(c, e) = j
      BY <2>1, <2>2
    <3>2. j \in 1 .. n /\ j - 1 + 1 = j /\ j # IndexMax
      BY <1>0 DEF IndexMax
    <3>3. t > q[j].timestamp
      BY <3>2 DEF Time
    <3>4. \A i \in 1 .. n : i <= j => q[i].timestamp < t
      BY <1>2, <3>2, <3>3
    <3>. QED  BY <3>1, <3>2, <3>4 DEF Over
  <2>. QED  BY <2>1, <2>2
<1>. QED  BY <1>3, <1>4, <1>5 DEF Chosen

\* What the search finds is a position or none.
LEMMA ChosenType ==
    ASSUME NEW c, c.current \in Seq(Entry), c.index \in Nat, NEW e
    PROVE  Chosen(c, e) = IndexMax \/ Chosen(c, e) \in Nat
<1>. DEFINE t == StartOf(NextSlot)
            k == c.index
            n == Len(c.current)
            covers == {j \in k + 1 .. n - 1 : t > Time(c, j - 1) /\ t <= Time(c, j)}
<1>0. n \in Nat /\ k \in Nat /\ \A j \in covers : j \in Nat
  OBVIOUS
<1>1. \/ Chosen(c, e) = k
      \/ Chosen(c, e) = IndexMax
      \/ Chosen(c, e) = IF covers = {} THEN n ELSE CHOOSE j \in covers : TRUE
  BY <1>0 DEF Chosen, Search
<1>. HIDE DEF covers
<1>. QED  BY <1>0, <1>1

\* The context that a call leaves behind.
LEMMA LeavesContext ==
    ASSUME BuilderInv, SameRegistry, NEW c, ctx' = c, Context(c), c.slot = NextSlot, c.epoch = EpochAt(slot),
           Without({"build"}) => Placed(c)
    PROVE  BuilderInv'
<1>1. slot \in Nat /\ slot' = slot /\ scenario' = scenario /\ NextSlot' = NextSlot /\ NextSlot \in Nat
  BY DEF BuilderInv, ContextInv, SameRegistry, NextSlot
<1>2. Context(c)'
  BY ContextSame
<1>3. EpochAt(slot) \in Nat /\ EpochAt(slot) <= EpochAt(slot) /\ NextSlot <= NextSlot
  BY <1>1, EpochOfNext
<1>4. ContextInv'
  BY <1>1, <1>2, <1>3 DEF ContextInv
<1>5. Without({"build"})' => Placed(c)'
  BY <1>1 DEF Placed, Without
<1>6. PlaceInv'
  BY <1>1, <1>5 DEF PlaceInv
<1>. QED  BY <1>4, <1>6 DEF BuilderInv

\* The context of the next epoch.
LEMMA NextFields ==
    ASSUME NEW c, Context(c)
    PROVE  [c EXCEPT !.current = c.next, !.index = 0, !.next = <<>>]
             = [slot |-> c.slot, epoch |-> c.epoch, current |-> c.next, index |-> 0, next |-> <<>>]
<1>. DEFINE c1 == [c EXCEPT !.current = c.next]
            c2 == [c1 EXCEPT !.index = 0]
<1>1. c1 = [slot |-> c.slot, epoch |-> c.epoch, current |-> c.next, index |-> c.index, next |-> c.next]
  BY DEF Context
<1>. HIDE DEF c1
<1>2. c2 = [slot |-> c.slot, epoch |-> c.epoch, current |-> c.next, index |-> 0, next |-> c.next]
  BY <1>1
<1>. HIDE DEF c2
<1>3. [c2 EXCEPT !.next = <<>>]
         = [slot |-> c.slot, epoch |-> c.epoch, current |-> c.next, index |-> 0, next |-> <<>>]
  BY <1>2
<1>. QED  BY <1>3 DEF c2, c1

\* update_context moves the index and keeps the invariant.
LEMMA PositionInv ==
    ASSUME BuilderInv, SameRegistry, NEW c, Moved(c), Position(c, Epoch(slot))
    PROVE  BuilderInv'
<1>. DEFINE e == EpochAt(slot)
            next == [c EXCEPT !.current = c.next, !.index = 0, !.next = <<>>]
            chosen == [c EXCEPT !.index = Chosen(c, e)]
<1>1. /\ slot \in Nat /\ Context(c) /\ c.slot = NextSlot /\ c.epoch = e
      /\ Without({"build"}) => /\ Increasing(c.current) /\ Increasing(c.next)
                               /\ OfEpoch(c.current, e) /\ OfEpoch(c.next, e + 1)
                               /\ Over(c.current, c.index, c.slot)
  BY DEF BuilderInv, ContextInv, Moved
<1>2. /\ NextSlot \in Nat /\ Epoch(slot) = e /\ Epoch(NextSlot) = EpochAt(NextSlot) /\ e \in Nat
      /\ EpochAt(NextSlot) = e \/ EpochAt(NextSlot) = e + 1
  <2>1. slot \in Nat /\ NextSlot \in Nat
    BY <1>1, Successor, Zenon DEF NextSlot
  <2>2. Epoch(slot) = e /\ Epoch(NextSlot) = EpochAt(NextSlot)
    BY <2>1, SlotStart, Zenon DEF e
  <2>3. e \in Nat /\ (EpochAt(NextSlot) = e \/ EpochAt(NextSlot) = e + 1)
    BY <2>1, EpochOfNext, EpochGrows DEF NextSlot
  <2>. QED  BY <2>1, <2>2, <2>3
<1>. HIDE DEF e, chosen, next
<1>3. CASE EpochAt(NextSlot) = e + 1
  <2>1. ctx' = next
    BY <1>2, <1>3 DEF Position, next
  <2>2. next = [slot |-> NextSlot, epoch |-> e, current |-> c.next, index |-> 0, next |-> <<>>]
    <3>1. next = [slot |-> c.slot, epoch |-> c.epoch, current |-> c.next, index |-> 0, next |-> <<>>]
      BY <1>1, NextFields, Zenon DEF next
    <3>. QED  BY <1>1, <3>1
  <2>3. Context(next)
    <3>1. /\ next.slot = NextSlot /\ next.epoch = e /\ next.current = c.next
          /\ next.index = 0 /\ next.next = <<>>
      BY <2>2
    <3>2. c.next \in Seq(Entry) /\ OptedIn(c.next) /\ 0 \in Nat
      BY <1>1 DEF Context
    <3>. QED  BY <1>2, <2>2, <3>1, <3>2, EmptyLookahead, Zenon DEF Context
  <2>4. ASSUME Without({"build"}) PROVE Placed(next)
    <3>1. Over(c.next, 0, NextSlot) /\ OfEpoch(<<>>, e + 1) /\ Increasing(<<>>)
      BY NothingOver, EmptyLookahead, Zenon
    <3>. QED  BY <1>1, <1>3, <2>2, <2>4, <3>1 DEF Placed
  <2>5. next.slot = NextSlot /\ next.epoch = EpochAt(slot)
    BY <2>2 DEF e
  <2>6. PICK d : d = next
    OBVIOUS
  <2>7. /\ ctx' = d /\ Context(d) /\ d.slot = NextSlot /\ d.epoch = EpochAt(slot)
        /\ Without({"build"}) => Placed(d)
    BY <2>1, <2>3, <2>4, <2>5, <2>6
  <2>. QED  BY <2>7, LeavesContext
<1>4. ASSUME EpochAt(NextSlot) = e, Without({"build"}) PROVE Placed(c)
  <2>1. EpochAt(c.slot) # c.epoch + 1
    BY <1>1, <1>2, <1>4, Successor, Zenon
  <2>. QED  BY <1>1, <1>4, <2>1 DEF Placed
<1>5. CASE EpochAt(NextSlot) = e /\ ctx' = c
  <2>1. c.epoch = EpochAt(slot)
    BY <1>1 DEF e
  <2>. QED  BY <1>1, <1>4, <1>5, <2>1, LeavesContext
<1>6. CASE EpochAt(NextSlot) = e /\ ctx' = Unbuilt /\ answer' = "panic"
  <2>1. /\ slot' = slot /\ NextSlot' = NextSlot
        /\ EpochAt(0) \in Nat /\ EpochAt(slot) \in Nat /\ EpochAt(0) <= EpochAt(slot)
    <3>1. slot \in Nat /\ 0 \in Nat /\ 0 <= slot
      BY <1>1, Successor, Zenon
    <3>2. EpochAt(0) \in Nat /\ EpochAt(slot) \in Nat /\ EpochAt(0) <= EpochAt(slot)
      BY <3>1, EpochGrows
    <3>3. slot' = slot /\ NextSlot' = NextSlot
      BY DEF SameRegistry, NextSlot
    <3>. QED  BY <3>2, <3>3
  <2>2. Context(ctx)' /\ Placed(ctx)'
    <3>2. PICK d : d = Unbuilt
      OBVIOUS
    <3>3. /\ d = [slot |-> 0, epoch |-> 0, current |-> <<>>, index |-> 0, next |-> <<>>]
          /\ d.slot = 0 /\ d.epoch = 0 /\ d.current = <<>> /\ d.index = 0 /\ d.next = <<>>
      BY <3>2 DEF Unbuilt
    <3>4. Context(d)
      BY <1>1, <3>3, Successor, EmptyLookahead, Zenon DEF Context
    <3>5. Placed(d)
      BY <3>3, NothingOver, EmptyLookahead, Zenon DEF Placed
    <3>6. Context(d)' /\ Placed(d)'
      <4>1. Context(d)'
        BY <3>4, ContextSame
      <4>. QED  BY <3>5, <4>1 DEF Placed
    <3>. QED  BY <1>6, <3>2, <3>6
  <2>3. ctx'.slot = 0 /\ ctx'.epoch = 0 /\ ctx'.slot # NextSlot
    <3>1. ctx'.slot = 0 /\ ctx'.epoch = 0
      BY <1>6 DEF Unbuilt
    <3>. QED  BY <1>1, <3>1, Successor, Zenon DEF NextSlot
  <2>4. ContextInv'
    <3>1. slot' \in Nat /\ (EpochAt(slot))' = EpochAt(slot)
      BY <1>1, <2>1 DEF EpochAt
    <3>2. ctx'.slot <= NextSlot' /\ ctx'.epoch <= EpochAt(slot)
      <4>1. 0 <= NextSlot /\ 0 <= EpochAt(slot)
        BY <1>1, <2>1, Successor, Zenon DEF NextSlot
      <4>. QED  BY <2>1, <2>3, <4>1, Zenon
    <3>. QED  BY <2>2, <3>1, <3>2, Zenon DEF ContextInv
  <2>5. PlaceInv'
    BY <1>6, <2>1, <2>2, <2>3 DEF PlaceInv
  <2>. QED  BY <2>4, <2>5 DEF BuilderInv
<1>7. CASE EpochAt(NextSlot) = e /\ ctx' = chosen /\ c.index # IndexMax /\ Chosen(c, e) # Len(c.current)
  <2>0. c.index \in Nat /\ c.current \in Seq(Entry)
    BY <1>1, <1>7 DEF Context
  <2>1. chosen = [slot |-> NextSlot, epoch |-> e, current |-> c.current, index |-> Chosen(c, e), next |-> c.next]
    BY <1>1 DEF Context, chosen
  <2>2. Chosen(c, e) = IndexMax \/ Chosen(c, e) \in Nat
    BY <2>0, ChosenType
  <2>3. Context(chosen)
    BY <1>1, <1>2, <2>1, <2>2 DEF Context
  <2>4. ASSUME Without({"build"}) PROVE Placed(chosen)
    <3>1. Over(c.current, Chosen(c, e), NextSlot)
      BY <1>1, <1>7, <2>0, <2>4, ChosenOver
    <3>2. EpochAt(chosen.slot) # chosen.epoch + 1
      BY <1>2, <1>7, <2>1
    <3>. QED  BY <1>1, <2>1, <2>4, <3>1, <3>2 DEF Placed
  <2>5. chosen.slot = NextSlot /\ chosen.epoch = EpochAt(slot)
    BY <2>1 DEF e
  <2>6. PICK d : d = chosen
    OBVIOUS
  <2>7. /\ ctx' = d /\ Context(d) /\ d.slot = NextSlot /\ d.epoch = EpochAt(slot)
        /\ Without({"build"}) => Placed(d)
    BY <1>7, <2>3, <2>4, <2>5, <2>6
  <2>. QED  BY <2>7, LeavesContext
<1>8. CASE EpochAt(NextSlot) = e
  <2>1. \/ ctx' = c
        \/ ctx' = Unbuilt /\ answer' = "panic"
        \/ ctx' = chosen /\ c.index # IndexMax /\ Chosen(c, e) # Len(c.current)
    BY <1>2, <1>8 DEF Position, Chosen, chosen
  <2>. QED  BY <1>5, <1>6, <1>7, <1>8, <2>1
<1>. QED  BY <1>2, <1>3, <1>8

\* What is left when a build fails.
LEMMA FailedBuildInv ==
    ASSUME RegInv, BuilderInv, SameRegistry, ctx' \in FailedBuild(Epoch(slot))
    PROVE  BuilderInv'
<1>. DEFINE e == EpochAt(slot)
<1>1. /\ slot \in Nat /\ Context(ctx) /\ ctx.slot \in Nat /\ ctx.epoch \in Nat /\ ctx.epoch <= e
      /\ slot' = slot /\ NextSlot' = NextSlot /\ scenario' = scenario
  BY DEF BuilderInv, ContextInv, Context, SameRegistry, NextSlot
<1>2. e \in Nat /\ Epoch(slot) = e /\ NextSlot \in Nat /\ NextSlot <= NextSlot
  BY <1>1, SlotStart, EpochOfNext DEF NextSlot
<1>. HIDE DEF e
<1>3. ~Without({"build"})
  BY DEF FailedBuild
<1>4. PICK current, next : /\ ctx' = [ctx EXCEPT !.slot = NextSlot, !.current = current, !.next = next]
                           /\ current = ctx.current \/ current = ctx.next \/ current \in Build(e)
                           /\ next = ctx.next \/ next = <<>>
  <2>1. ctx = [ctx EXCEPT !.current = ctx.current, !.next = ctx.next]
    BY <1>1 DEF Context
  <2>2. CASE ctx' = [ctx EXCEPT !.slot = NextSlot, !.current = ctx.next, !.next = <<>>]
    BY <2>2
  <2>3. CASE ctx' = [ctx EXCEPT !.slot = NextSlot]
    <3>1. ctx' = [ctx EXCEPT !.slot = NextSlot, !.current = ctx.current, !.next = ctx.next]
      BY <1>1, <2>3 DEF Context
    <3>. QED  BY <3>1
  <2>4. CASE \E q \in Build(e) : ctx' = [ctx EXCEPT !.slot = NextSlot, !.current = q]
    <3>1. PICK q \in Build(e) : ctx' = [ctx EXCEPT !.slot = NextSlot, !.current = q]
      BY <2>4
    <3>2. ctx' = [ctx EXCEPT !.slot = NextSlot, !.current = q, !.next = ctx.next]
      BY <1>1, <3>1 DEF Context
    <3>. QED  BY <3>2
  <2>. QED  BY <1>2, <2>2, <2>3, <2>4 DEF FailedBuild
<1>5. current \in Seq(Entry) /\ OptedIn(current) /\ next \in Seq(Entry) /\ OptedIn(next)
  <2>1. current \in Seq(Entry) /\ OptedIn(current)
    BY <1>1, <1>2, <1>4, BuildOptedIn DEF Context
  <2>2. <<>> \in Seq(Entry) /\ OptedIn(<<>>)
    BY DEF OptedIn
  <2>. QED  BY <1>1, <1>4, <2>1, <2>2 DEF Context
<1>6. PICK c : c = [slot |-> NextSlot, epoch |-> ctx.epoch, current |-> current,
                    index |-> ctx.index, next |-> next]
  OBVIOUS
<1>7. ctx' = c
  <2>. DEFINE c1 == [ctx EXCEPT !.slot = NextSlot]
              c2 == [c1 EXCEPT !.current = current]
  <2>0. ctx = [slot |-> ctx.slot, epoch |-> ctx.epoch, current |-> ctx.current,
               index |-> ctx.index, next |-> ctx.next]
    BY <1>1, Zenon DEF Context
  <2>1. c1 = [slot |-> NextSlot, epoch |-> ctx.epoch, current |-> ctx.current,
              index |-> ctx.index, next |-> ctx.next]
    BY <2>0
  <2>. HIDE DEF c1
  <2>2. c2 = [slot |-> NextSlot, epoch |-> ctx.epoch, current |-> current,
              index |-> ctx.index, next |-> ctx.next]
    BY <2>1
  <2>. HIDE DEF c2
  <2>3. [c2 EXCEPT !.next = next] = c
    BY <1>6, <2>2
  <2>. QED  BY <1>4, <2>3 DEF c2, c1
<1>8. Context(c)
  BY <1>1, <1>2, <1>5, <1>6 DEF Context
<1>9. Context(ctx)'
  BY <1>7, <1>8, ContextSame
<1>10. ContextInv'
  BY <1>1, <1>2, <1>6, <1>7, <1>9 DEF ContextInv, e
<1>11. PlaceInv'
  BY <1>1, <1>3 DEF PlaceInv, Without
<1>. QED  BY <1>10, <1>11 DEF BuilderInv

\* get_lookahead_data, with all its outcomes.
LEMMA BuilderInvGet ==
    ASSUME RegInv, BuilderInv, GetLookaheadData, SameRegistry
    PROVE  BuilderInv'
<1>1. CASE ctx.slot = NextSlot
  <2>1. ctx' = ctx /\ slot' = slot /\ scenario' = scenario /\ NextSlot' = NextSlot
    BY <1>1 DEF GetLookaheadData, SameRegistry, NextSlot
  <2>2. PICK c : c = ctx
    OBVIOUS
  <2>3. Context(c)'
    BY <2>2, ContextSame DEF BuilderInv, ContextInv
  <2>4. ContextInv'
    BY <2>1, <2>2, <2>3 DEF BuilderInv, ContextInv
  <2>5. PlaceInv'
    BY <1>1, <2>1 DEF BuilderInv, PlaceInv, Without, Placed
  <2>. QED  BY <2>4, <2>5 DEF BuilderInv
<1>2. CASE ctx.slot # NextSlot /\ \E c \in MovedEpoch(Epoch(slot)) : Position(c, Epoch(slot))
  <2>1. PICK c \in MovedEpoch(Epoch(slot)) : Position(c, Epoch(slot))
    BY <1>2
  <2>2. Moved(c)
    BY <1>2, MovedEpochInv
  <2>. QED  BY <2>1, <2>2, PositionInv
<1>3. CASE ctx' \in FailedBuild(Epoch(slot))
  BY <1>3, FailedBuildInv
<1>. QED  BY <1>1, <1>2, <1>3 DEF GetLookaheadData

\* Every step keeps the invariant of the builder.
LEMMA BuilderInvNext == ASSUME RegInv, BuilderInv, [Next]_vars PROVE BuilderInv'
<1>1. CASE UNCHANGED <<scenario, slot, ctx, answer>>
  BY <1>1, BuilderInvRegistry
<1>2. CASE Builder /\ SameRegistry
  BY <1>2, BuilderInvNew, BuilderInvGet DEF Builder
<1>3. CASE Tick /\ UNCHANGED <<registryVars, scenario>>
  BY <1>3, BuilderInvTick
<1>. QED  BY <1>1, <1>2, <1>3 DEF Next, SameRegistry, vars

\* The invariants imply the three properties of the answers.
LEMMA BuilderInvSafe ==
    ASSUME RegInv, BuilderInv
    PROVE  LookaheadIsOfEpoch /\ NoPreconferSkipped /\ EntriesAreOptedIn
<1>1. slot \in Nat /\ Context(ctx) /\ NextSlot \in Nat
  BY DEF BuilderInv, ContextInv, NextSlot
<1>2. /\ Epoch(NextSlot) = EpochAt(NextSlot) /\ EpochAt(slot) \in Nat
      /\ EpochAt(NextSlot) = EpochAt(slot) \/ EpochAt(NextSlot) = EpochAt(slot) + 1
  BY <1>1, SlotStart, EpochOfNext DEF NextSlot
<1>3. LookaheadIsOfEpoch
  <2>. SUFFICES ASSUME Without({"build"}), answer = "ok", NEW i \in 1 .. Len(ctx.current)
                PROVE  EpochOf(ctx.current[i].timestamp) = Epoch(NextSlot)
    BY DEF LookaheadIsOfEpoch
  <2>1. ctx.slot = NextSlot /\ ctx.epoch = EpochAt(slot) /\ Placed(ctx)
    BY DEF BuilderInv, PlaceInv
  <2>2. OfEpoch(ctx.current, EpochAt(NextSlot))
    BY <1>2, <2>1 DEF Placed
  <2>3. PICK x \in Nat : EpochAt(x) = EpochAt(NextSlot) /\ ctx.current[i].timestamp = StartOf(x)
    BY <2>2 DEF OfEpoch
  <2>4. EpochOf(StartOf(x)) = EpochAt(x)
    BY SlotStart DEF Epoch
  <2>. QED  BY <1>2, <2>3, <2>4
<1>4. NoPreconferSkipped
  <2>. SUFFICES ASSUME Without({"build"}), answer = "ok"
                PROVE  Over(ctx.current, ctx.index, NextSlot)
    BY DEF NoPreconferSkipped, Over
  <2>. QED  BY DEF BuilderInv, PlaceInv, Placed
<1>5. EntriesAreOptedIn
  <2>1. Sound(chain, scenario.faults) /\ peak \in Nat
    BY DEF RegInv, ChainInv
  <2>2. chain \in Seq(Seq(Events)) /\ Final \in Int
    <3>1. chain \in Seq(Seq(Events))
      BY <2>1 DEF Sound
    <3>2. ForkDepth \in Nat
      BY RegistryAssumption
    <3>. QED  BY <2>1, <3>1, <3>2 DEF Final
  <2>3. \A row : row \in RowsUpTo(Final) <=> InRange(chain, row, StartBlock, Final)
    BY <2>2, RowsUpToRange
  <2>. QED  BY <1>1, <2>3 DEF Context, OptedIn, EntriesAreOptedIn
<1>. QED  BY <1>3, <1>4, <1>5

\* Both invariants hold throughout.
LEMMA InvariantsHold == Spec => [](RegInv /\ BuilderInv)
<1>1. Init => RegInv /\ BuilderInv
  BY RegInvInit, BuilderInvInit DEF Init
<1>2. RegInv /\ BuilderInv /\ [Next]_vars => (RegInv /\ BuilderInv)'
  BY RegInvNext, BuilderInvNext
<1>. QED  BY <1>1, <1>2, PTL DEF Spec

\* For every length of slots and epochs, whatever slots and epochs the caller
\* skips, a lookahead handed out for the next slot is of the epoch of that
\* slot, when no build failed.
THEOREM LookaheadIsOfEpochHolds == Spec => []LookaheadIsOfEpoch
<1>1. RegInv /\ BuilderInv => LookaheadIsOfEpoch
  BY BuilderInvSafe
<1>. QED  BY <1>1, InvariantsHold, PTL

\* The index of update_context never passes over the preconfer of the next
\* slot.
THEOREM NoPreconferSkippedHolds == Spec => []NoPreconferSkipped
<1>1. RegInv /\ BuilderInv => NoPreconferSkipped
  BY BuilderInvSafe
<1>. QED  BY <1>1, InvariantsHold, PTL

\* Every entry of the current lookahead opted in on L1 in a final block,
\* whatever the monitor, crashes, failed builds and reorgs did since.
THEOREM EntriesAreOptedInHolds == Spec => []EntriesAreOptedIn
<1>1. RegInv /\ BuilderInv => EntriesAreOptedIn
  BY BuilderInvSafe
<1>. QED  BY <1>1, InvariantsHold, PTL

=============================================================================
