----------------------------- MODULE Registry ------------------------------
(***************************************************************************)
(* The registry monitor (urc/src/monitor): a process that copies the       *)
(* events of the URC registry contract from L1 into a database.  It reads  *)
(* a range of blocks that it takes to be final, writes the rows of the     *)
(* events one statement at a time, and only then writes the last block of  *)
(* the range to the status row; any error ends the process, which starts   *)
(* again from the status row.                                              *)
(*                                                                         *)
(* L1 is a sequence of blocks, a block a sequence of registry events.  A   *)
(* row of the database is a record [table, root, idx]; the columns that    *)
(* an UPDATE sets are rows of tables of their own.                         *)
(***************************************************************************)
EXTENDS Integers, Sequences

CONSTANTS
    Roots,          \* registration roots: the operators
    Validators,
    Keys,           \* Keys[r]: the validator keys registered with root r
    StartBlock,     \* l1_start_block
    ForkDepth,      \* max_l1_fork_depth
    BatchSize,      \* index_block_batch_size
    MaxBlock,       \* bound: the highest L1 block
    Scenarios       \* [faults, chain, height, reorgs, slot, slots]: see Init

Faults == {"crash", "reoptin", "start", "build", "validity"}

Events == [kind : {"register", "optin", "unregister", "slash"}, root : Roots]

Has(c, kind, r) ==
    \E k \in 1 .. Len(c) : \E i \in 1 .. Len(c[k]) : c[k][i] = [kind |-> kind, root |-> r]

\* The chain that a scenario begins with: an operator registers before its
\* other events or in the same block, and no event is in or before the start
\* block, unless the scenario says so.
Sound(c, faults) ==
    /\ c \in Seq(Seq(Events))
    /\ \A k \in 1 .. Len(c) : \A i \in 1 .. Len(c[k]) :
          \E h \in 1 .. k : \E l \in 1 .. Len(c[h]) :
             c[h][l] = [kind |-> "register", root |-> c[k][i].root]
    /\ "start" \notin faults => \A k \in 1 .. Len(c) : k <= StartBlock => c[k] = <<>>

ASSUME RegistryAssumption ==
    /\ Keys \in [Roots -> Seq(Validators)]
    /\ StartBlock \in Nat \ {0} /\ BatchSize \in Nat \ {0} /\ ForkDepth \in Nat
    /\ \A s \in Scenarios : /\ s.faults \subseteq Faults /\ s.height <= MaxBlock
                            /\ s.slot \in Nat /\ Sound(s.chain, s.faults)

VARIABLES
    chain,      \* the L1 chain: its registry events, block by block
    peak,       \* the greatest height L1 has had
    reorgs,     \* the number of reorgs so far
    db,         \* the database: its rows, and indexed_block of the status row
    m,          \* the monitor process
    scenario    \* the faults of this behaviour, and its bounds

registryVars == <<chain, peak, reorgs, db, m>>

Without(fs) == scenario.faults \cap fs = {}

Kinds == <<"register", "optin", "unregister", "slash">>
Down == [pc |-> "down", indexed |-> 0, end |-> 0, kinds |-> <<>>, todo |-> {}]
Row(table, root, idx) == [table |-> table, root |-> root, idx |-> idx]

\* The monitor has not run yet; L1 may already hold blocks.
RegistryInit ==
    /\ scenario \in Scenarios
    /\ chain = scenario.chain /\ peak = Len(chain) /\ reorgs = 0
    /\ db = [rows |-> {}, indexed |-> 0]
    /\ m = Down

----------------------------------------------------------------------------
(***************************************************************************)
(* L1 (external).  The contract emits an event only in order: an operator  *)
(* registers once, opts in once unless it opted out in between (opting out *)
(* is not indexed), and is unregistered or slashed after it registered.    *)
(***************************************************************************)
Legal(c, e) ==
    CASE e.kind = "register" -> ~Has(c, "register", e.root)
      [] e.kind = "optin" -> /\ Has(c, "register", e.root)
                             /\ ~Has(c, "unregister", e.root)
                             /\ Without({"reoptin"}) => ~Has(c, "optin", e.root)
      [] OTHER -> Has(c, "register", e.root) /\ ~Has(c, e.kind, e.root)

\* A block holds an event, two events of an operator, or none.  No event is
\* in or before the start block, unless the scenario says so.
Blocks ==
    LET one == {e \in Events : Legal(chain, e)}
    IN IF Len(chain) < StartBlock /\ Without({"start"}) THEN {<<>>}
       ELSE {<<>>} \cup {<<e>> : e \in one}
                  \cup {<<p[1], p[2]>> : p \in {p \in one \X Events :
                            p[1].root = p[2].root /\ Legal(Append(chain, <<p[1]>>), p[2])}}

L1Block ==
    /\ Len(chain) < scenario.height
    /\ \E b \in Blocks : chain' = Append(chain, b)
    /\ peak' = IF Len(chain') > peak THEN Len(chain') ELSE peak
    /\ UNCHANGED <<reorgs, db, m>>

\* A block ForkDepth or more below the highest head is final.
L1Reorg ==
    \E keep \in 0 .. Len(chain) - 1 :
        /\ keep >= Len(scenario.chain) /\ reorgs < scenario.reorgs
        /\ keep >= peak - ForkDepth
        /\ chain' = SubSeq(chain, 1, keep)
        /\ reorgs' = reorgs + 1
        /\ UNCHANGED <<peak, db, m>>

----------------------------------------------------------------------------
(***************************************************************************)
(* The database (db.rs).  A row of operators, keys or protocols is         *)
(* inserted: its primary key must be new, and the root of a key or a       *)
(* protocol must be an operator.  An update changes nothing when there is  *)
(* no such operator.                                                       *)
(***************************************************************************)
IsOperator(r) == Row("operators", r, 0) \in db.rows

Conflict(row) ==
    \/ row.table \in {"operators", "keys", "protocols"} /\ row \in db.rows
    \/ row.table \in {"keys", "protocols"} /\ ~IsOperator(row.root)

Write(row) ==
    IF row.table \in {"unregistered", "slashed"} /\ ~IsOperator(row.root)
    THEN db.rows
    ELSE db.rows \cup {row}

\* Faulty: without the join with protocols.
OperatorsByPubkeyAny(v) ==
    {r \in Roots : \E i \in 1 .. Len(Keys[r]) :
                      Keys[r][i] = v /\ Row("keys", r, i) \in db.rows}

\* get_operators_by_pubkey: no regard to unregistered_at and slashed_at.
OperatorsByPubkey(v) ==
    {r \in Roots : /\ Row("protocols", r, 0) \in db.rows
                   /\ \E i \in 1 .. Len(Keys[r]) :
                         Keys[r][i] = v /\ Row("keys", r, i) \in db.rows}

----------------------------------------------------------------------------
(* The indexing loop (registry_monitor.rs). *)

\* The statements of an event, in order.
IndexRegister(r) ==
    <<Row("operators", r, 0)>> \o [i \in 1 .. Len(Keys[r]) |-> Row("keys", r, i)]
IndexOptIn(r) == <<Row("protocols", r, 0)>>
IndexUnregister(r) == <<Row("unregistered", r, 0)>>
IndexSlash(r) == <<Row("slashed", r, 0)>>

RowsOf(e) ==
    CASE e.kind = "register" -> IndexRegister(e.root)
      [] e.kind = "optin" -> IndexOptIn(e.root)
      [] e.kind = "unregister" -> IndexUnregister(e.root)
      [] e.kind = "slash" -> IndexSlash(e.root)

\* The places of the events in the blocks from first to last, and those of
\* their statements: <<block, event, statement>>.
Places(first, last) ==
    UNION {{<<k, i>> : i \in 1 .. Len(chain[k])} : k \in (first .. last) \cap (1 .. Len(chain))}
Statements(k, i) == {<<k, i, j>> : j \in 1 .. Len(RowsOf(chain[k][i]))}

\* eth_getLogs, on the chain as it is now, and the statements for the logs.
Logs(kind, first, last) ==
    {p \in Places(first, last) : chain[p[1]][p[2]].kind = kind}
StatementsOf(logs) ==
    {[at |-> q, row |-> RowsOf(chain[q[1]][q[2]])[q[3]]] :
        q \in UNION {Statements(p[1], p[2]) : p \in logs}}

\* The order of the statements.
Before(p, q) ==
    \/ p[1] < q[1]
    \/ p[1] = q[1] /\ p[2] < q[2]
    \/ p[1] = q[1] /\ p[2] = q[2] /\ p[3] < q[3]

\* RegistryMonitor::new
Start ==
    /\ m.pc = "down"
    /\ m' = [Down EXCEPT !.pc = "idle",
                         !.indexed = IF db.indexed > StartBlock THEN db.indexed ELSE StartBlock]
    /\ UNCHANGED <<chain, peak, reorgs, db>>

BeginRange(current) ==
    LET start == m.indexed + 1
    IN /\ m.pc = "idle"
       /\ current >= start
       /\ m' = [m EXCEPT !.pc = "index", !.kinds = Kinds,
                         !.end = IF start + BatchSize - 1 < current
                                 THEN start + BatchSize - 1 ELSE current]
       /\ UNCHANGED <<chain, peak, reorgs, db>>

\* Faulty: takes the head itself for final.
ReadHeadTip == BeginRange(Len(chain))

\* The head of the loop.  With nothing new to index it sleeps and tries again.
ReadHead == BeginRange(Len(chain) - ForkDepth)

\* The get_logs of index_register, index_opt_in, index_unregister, index_slash.
GetLogs ==
    /\ m.pc = "index" /\ m.todo = {} /\ m.kinds # <<>>
    /\ m' = [m EXCEPT !.kinds = Tail(m.kinds),
                      !.todo = StatementsOf(Logs(Head(m.kinds), m.indexed + 1, m.end))]
    /\ UNCHANGED <<chain, peak, reorgs, db>>

\* One statement; an error leaves the loop, and the process ends.
Execute ==
    /\ m.pc = "index"
    /\ \E s \in m.todo :
          /\ \A o \in m.todo \ {s} : Before(s.at, o.at)
          /\ IF Conflict(s.row)
             THEN m' = Down /\ db' = db
             ELSE /\ m' = [m EXCEPT !.todo = m.todo \ {s}]
                  /\ db' = [db EXCEPT !.rows = Write(s.row)]
    /\ UNCHANGED <<chain, peak, reorgs>>

\* Faulty: the status row is not written.
UpdateStatusInMemory ==
    /\ m.pc = "index" /\ m.todo = {} /\ m.kinds = <<>>
    /\ m' = [Down EXCEPT !.pc = "idle", !.indexed = m.end]
    /\ UNCHANGED <<chain, peak, reorgs, db>>

UpdateStatus ==
    /\ m.pc = "index" /\ m.todo = {} /\ m.kinds = <<>>
    /\ m' = [Down EXCEPT !.pc = "idle", !.indexed = m.end]
    /\ db' = [db EXCEPT !.indexed = m.end]
    /\ UNCHANGED <<chain, peak, reorgs>>

\* An RPC or database error, or a crash.
MonitorFails ==
    /\ ~Without({"crash"}) /\ m.pc # "down"
    /\ m' = Down
    /\ UNCHANGED <<chain, peak, reorgs, db>>

Monitor == Start \/ ReadHead \/ GetLogs \/ Execute \/ UpdateStatus
RegistryNext == L1Block \/ L1Reorg \/ Monitor \/ MonitorFails

----------------------------------------------------------------------------
\* What a replay of the blocks up to n in the order of the chain writes.
RowsUpTo(n) == {s.row : s \in StatementsOf(Places(StartBlock + 1, n))}

Final == peak - ForkDepth

(***************************************************************************)
(* The database and the chain: whatever crashes, restarts and reorgs of up *)
(* to max_l1_fork_depth blocks happen, and although the monitor writes a   *)
(* range by kind of event and not in the order of the chain, the rows are  *)
(* at least those of the blocks up to indexed_block and at most those of   *)
(* the final blocks.  (An update of an operator of the start block, which  *)
(* is never read, changes nothing.)                                        *)
(***************************************************************************)
IndexedIsTrue ==
    /\ Without({"start"}) => RowsUpTo(db.indexed) \subseteq db.rows
    /\ db.rows \subseteq RowsUpTo(Final)

(***************************************************************************)
(* The monitor catches up with the final blocks again and again, when no   *)
(* statement fails.  A crash between two statements makes every later run  *)
(* of the monitor fail on the primary key of the row it already wrote; so  *)
(* does an operator that opts in again, and one that registered in the     *)
(* start block itself, which is never read.                                *)
(***************************************************************************)
MonitorCatchesUp ==
    []<>(Without({"crash", "reoptin", "start"}) =>
             Final <= StartBlock \/ db.indexed = Final)
=============================================================================
