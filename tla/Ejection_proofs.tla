-------------------------- MODULE Ejection_proofs --------------------------
(***************************************************************************)
(* OnePreconfer, for any number of nodes and any lengths.                  *)
(*                                                                         *)
(* There are three reasons, one for each kind of scenario (SeparateFaults).*)
(* Without replacements every preconfer is the one of the schedule (IInv). *)
(* Without lag every node has an entry of this slot (LagInv).  With both,  *)
(* an ejected operator goes on until its entry is too old, MaxLag after    *)
(* the ejection at the latest, and the new one waits for the grace period  *)
(* from the slot in which it learns of the ejection (EjectInv): it is long *)
(* enough when GraceFits.                                                  *)
(***************************************************************************)
EXTENDS Operator_proofs, TLAPS

-----------------------------------------------------------------------------
(* No two preconfers.                                                      *)

\* The begin of the slot grows with the time.
LEMMA BeginsGrow ==
    ASSUME NEW s \in Times, NEW t \in Times, s <= t
    PROVE  SlotBegin(s) <= SlotBegin(t) /\ SlotBegin(s) \in Nat /\ SlotBegin(t) \in Nat
<1>1. SlotOf(s) <= SlotOf(t) /\ SlotOf(s) \in Nat /\ SlotOf(t) \in Nat
  BY Slots, SlotsGrow
<1>2. SlotOf(s) * SlotDuration <= SlotOf(t) * SlotDuration
      /\ SlotOf(s) * SlotDuration \in Nat /\ SlotOf(t) * SlotDuration \in Nat /\ Genesis \in Nat
  BY <1>1, Grows, ClockAssumption
<1>. QED  BY <1>2 DEF SlotBegin, StartOf

\* Slots do not overlap.
LEMMA SlotBefore ==
    ASSUME NEW c \in Times, SlotBegin(c) = c, NEW k \in Nat, c < StartOf(k)
    PROVE  c + SlotDuration <= StartOf(k)
<1> DEFINE j == SlotOf(c)
<1>1. j \in Nat /\ c = Genesis + j * SlotDuration /\ SlotDuration \in Nat /\ Genesis \in Nat
  BY Slots, ClockAssumption DEF SlotBegin, StartOf
<1>2. j * SlotDuration \in Nat /\ k * SlotDuration \in Nat /\ (j + 1) * SlotDuration = j * SlotDuration + SlotDuration
  BY <1>1
<1> HIDE DEF j
<1>3. j * SlotDuration < k * SlotDuration
  BY <1>1, <1>2 DEF StartOf
<1>4. ~(k <= j)
  BY <1>1, <1>2, <1>3, Grows
<1>5. (j + 1) * SlotDuration <= k * SlotDuration
  BY <1>1, <1>4, Grows
<1>. QED  BY <1>1, <1>2, <1>5 DEF StartOf

\* The handover window lasts to the end of the epoch.
LEMMA WindowLasts ==
    ASSUME NEW s \in Times, NEW t \in Times, s <= t, EpochOf(s) = EpochOf(t), InHandoverWindow(s)
    PROVE  InHandoverWindow(t)
<1> DEFINE p == EpochOf(t) * SlotsPerEpoch
<1>1. SlotsPerEpoch \in Nat /\ HandoverSlots \in Nat
  BY ClockAssumption
<1>2. /\ SlotOf(s) = p + SlotOfEpoch(s) /\ SlotOf(t) = p + SlotOfEpoch(t) /\ p \in Nat
      /\ SlotOfEpoch(s) \in Nat /\ SlotOfEpoch(t) \in Nat
  BY <1>1, SlotPlace
<1>3. SlotOf(s) <= SlotOf(t)
  BY SlotsGrow
<1> HIDE DEF p
<1>. QED  BY <1>1, <1>2, <1>3 DEF InHandoverWindow

\* Without lag every node has the operators of this slot.
LagInv ==
    "lag" \notin scenario =>
        \A n \in Nodes :
            /\ cache[n].ts <= SlotBegin(now)
            /\ cache[n].ts = SlotBegin(now) => /\ cache[n].current = schedule[EpochOf(now)]
                                               /\ cache[n].next = schedule[EpochOf(now) + 1]
            /\ n \notin ready /\ status[n].preconfer => n = Preconfer

\* What is common to the steps of one node.
LEMMA LagOfNode ==
    ASSUME Types, LagInv, "lag" \notin scenario, NEW n \in Nodes, NEW c, NEW s,
           c.ts <= SlotBegin(now),
           c.ts = SlotBegin(now) => /\ c.current = schedule[EpochOf(now)]
                                    /\ c.next = schedule[EpochOf(now) + 1],
           s.preconfer => n = Preconfer,
           cache' = [cache EXCEPT ![n] = c], status' = [status EXCEPT ![n] = s],
           ready' = ready \/ ready' = ready \ {n}, UNCHANGED <<now, schedule>>
    PROVE  LagInv'
<1>1. Preconfer' = Preconfer
  BY DEF Preconfer
<1>2. \A m \in Nodes : /\ cache'[m] = IF m = n THEN c ELSE cache[m]
                       /\ status'[m] = IF m = n THEN s ELSE status[m]
  BY DEF Types
<1>. QED  BY <1>1, <1>2 DEF LagInv

\* The entry that a heartbeat uses.
LEMMA ReadsNow ==
    ASSUME Types, LagInv, "lag" \notin scenario, NEW n \in Nodes,
           NEW behind \in BOOLEAN, behind => MayBeBehind(n)
    PROVE  LET c == ReadOperators(n, behind)
           IN  /\ c.ts = SlotBegin(now) /\ ~(c.ts < EpochBegin(EpochOf(now)))
               /\ c.current = schedule[EpochOf(now)] /\ c.next = schedule[EpochOf(now) + 1]
<1>1. ~behind
  BY DEF MayBeBehind
<1>2. ~(SlotBegin(now) < EpochBegin(EpochOf(now)))
  <2>1. SlotBegin(now) \in Times /\ EpochBegin(EpochOf(now)) \in Times
        /\ EpochBegin(EpochOf(now)) <= SlotBegin(now)
    BY Scheduled, SlotBegins, EpochBegins, EpochStart
  <2>. QED  BY <2>1 DEF Times
<1>3. CASE cache[n].ts = SlotBegin(now)
  BY <1>2, <1>3 DEF ReadOperators, LagInv
<1>4. CASE cache[n].ts # SlotBegin(now)
  <2>1. ReadOperators(n, behind) = Whitelist
    BY <1>1, <1>4 DEF ReadOperators
  <2>. QED  BY <1>2, <2>1, Reads
<1>. QED  BY <1>3, <1>4

\* Every step keeps it.
LEMMA LagInductive == Types /\ LagInv /\ [Next]_vars => LagInv'
<1> SUFFICES ASSUME Types, LagInv, [Next]_vars, "lag" \notin scenario' PROVE LagInv'
  BY DEF LagInv
<1>0. /\ "lag" \notin scenario /\ now \in Times /\ SlotBegin(now) \in Times
      /\ \A n \in Nodes : op[n] \in OperatorState
  BY TypesInductive, Scheduled, SlotBegins DEF Types
<1>1. ASSUME NEW n \in Nodes, NEW behind \in BOOLEAN, NEW synced \in BOOLEAN,
             NEW marker \in BOOLEAN, NEW built \in BOOLEAN,
             GetStatus(n, behind, synced, marker, built)
      PROVE  LagInv'
  <2>1. PICK c \in Entry, q \in OperatorState, u \in BOOLEAN, v \in OperatorState, s \in StatusType :
            Beat(n, behind, synced, marker, c, q, u, v, s)
    BY <1>1, Heartbeats
  <2>2. /\ behind => MayBeBehind(n)
        /\ c = ReadOperators(n, behind) /\ Decided(n, op[n], c, q, u)
        /\ Derived(q, u, synced, marker, v, s)
        /\ cache' = [cache EXCEPT ![n] = c] /\ status' = [status EXCEPT ![n] = s]
        /\ ready' = ready \ {n} /\ UNCHANGED <<now, schedule>>
    BY <2>1 DEF Beat
  <2>3. /\ c.ts = SlotBegin(now) /\ ~(c.ts < EpochBegin(EpochOf(now)))
        /\ c.current = schedule[EpochOf(now)] /\ c.next = schedule[EpochOf(now) + 1]
    BY <1>0, <2>2, ReadsNow
  <2>4. (u => c.current = n) /\ (q.next => c.next = n)
    BY <2>2, <2>3 DEF Decided
  <2>5. s.preconfer => IF InHandoverWindow(now) THEN q.next ELSE u
    BY <2>2 DEF Derived
  <2>6. s.preconfer => n = Preconfer
    BY <2>3, <2>4, <2>5 DEF Preconfer
  <2>7. c.ts <= SlotBegin(now)
    BY <1>0, <2>3 DEF Times
  <2>. QED  BY <1>0, <2>2, <2>3, <2>6, <2>7, LagOfNode
<1>2. ASSUME NEW n \in Nodes, NEW behind \in BOOLEAN, GetStatusFails(n, behind) PROVE LagInv'
  <2>1. PICK c \in Entry, q \in OperatorState, u \in BOOLEAN : Failure(n, behind, c, q, u)
    BY <1>2, Failures
  <2>2. /\ behind => MayBeBehind(n)
        /\ c = ReadOperators(n, behind)
        /\ cache' = [cache EXCEPT ![n] = c] /\ status' = [status EXCEPT ![n] = NoStatus]
        /\ ready' = ready \ {n} /\ UNCHANGED <<now, schedule>>
    BY <2>1 DEF Failure
  <2>3. /\ c.ts = SlotBegin(now)
        /\ c.current = schedule[EpochOf(now)] /\ c.next = schedule[EpochOf(now) + 1]
    BY <1>0, <2>2, ReadsNow
  <2>4. c.ts <= SlotBegin(now)
    BY <1>0, <2>3 DEF Times
  <2>. QED  BY <1>0, <2>2, <2>3, <2>4, New, LagOfNode
<1>3. ASSUME NEW n \in Nodes, GetStatusEmpty(n) PROVE LagInv'
  <2>1. /\ status' = [status EXCEPT ![n] = NoStatus] /\ ready' = ready \ {n}
        /\ UNCHANGED <<now, schedule, cache>>
    BY <1>3 DEF GetStatusEmpty
  <2>2. cache' = [cache EXCEPT ![n] = cache[n]]
    BY <2>1 DEF Types
  <2>. QED  BY <1>0, <2>1, <2>2, New, LagOfNode DEF LagInv
<1>4. ASSUME NEW n \in Nodes, Restart(n) PROVE LagInv'
  <2>1. NoCache.ts <= SlotBegin(now) /\ NoCache.ts # SlotBegin(now)
    BY <1>0, New DEF None, Times
  <2>2. /\ cache' = [cache EXCEPT ![n] = NoCache] /\ status' = [status EXCEPT ![n] = NoStatus]
        /\ UNCHANGED <<now, schedule, ready>>
    BY <1>4 DEF Restart
  <2>. QED  BY <1>0, <2>1, <2>2, New, LagOfNode
<1>5. CASE Tick
  <2>1. UNCHANGED <<cache, status>> /\ ready' = Nodes /\ now' = now + Heartbeat
    BY <1>5 DEF Tick
  <2>2. now' \in Times /\ now < now' /\ now <= now' /\ Heartbeat \in Nat \ {0}
    BY <1>0, <2>1, ClockAssumption DEF Times
  <2>3. SlotBegin(now) <= SlotBegin(now') /\ SlotBegin(now') \in Times /\ SlotBegin(now) <= now
    BY <1>0, <2>2, BeginsGrow, SlotBegins
  <2>4. SlotBegin(now) = SlotBegin(now') => schedule' = schedule /\ EpochOf(now') = EpochOf(now)
    <3> SUFFICES ASSUME SlotBegin(now) = SlotBegin(now')
                 PROVE  schedule' = schedule /\ EpochOf(now') = EpochOf(now)
      OBVIOUS
    <3>1. SlotBegin(now') # now'
      BY <1>0, <2>2, <2>3 DEF Times
    <3>2. schedule' = schedule
      BY <1>5, <3>1 DEF Tick
    <3>. QED  BY <1>0, <2>2, <3>2, SlotBegins
  <2>5. ASSUME NEW n \in Nodes
        PROVE  /\ cache[n].ts <= SlotBegin(now')
               /\ cache[n].ts = SlotBegin(now') => /\ cache[n].current = schedule'[EpochOf(now')]
                                                   /\ cache[n].next = schedule'[EpochOf(now') + 1]
    <3>1. cache[n].ts \in Int /\ cache[n].ts <= SlotBegin(now)
      BY <1>0 DEF Types, Entry, LagInv
    <3>2. cache[n].ts = SlotBegin(now') => cache[n].ts = SlotBegin(now) /\ SlotBegin(now) = SlotBegin(now')
      BY <1>0, <2>3, <3>1 DEF Times
    <3>3. cache[n].ts <= SlotBegin(now')
      BY <1>0, <2>3, <3>1 DEF Times
    <3>. QED  BY <1>0, <2>4, <3>2, <3>3 DEF LagInv
  <2>. QED  BY <2>1, <2>5 DEF LagInv
<1>6. CASE UNCHANGED vars
  BY <1>6 DEF vars, LagInv, Preconfer
<1>. QED  BY <1>1, <1>2, <1>3, <1>4, <1>5, <1>6 DEF Next

\* The L1 RPC may be behind, and one operator is ejected.
Quiet == scenario \subseteq {"lag", "gossip", "eject"}

\* The entry and the operator of node n after its heartbeat at t.
Held(n, c, o, t) ==
    /\ t \in Beats /\ Usable(c, t) /\ Recent(c, t) /\ SlotBegin(c.ts) = c.ts
    /\ c.next = schedule[EpochOf(c.ts) + 1]
    /\ o.next => n = c.next

\* Until the ejection the node is the preconfer only in its turn.
Before(n, c, o, s, t) ==
    /\ c.current = schedule[EpochOf(c.ts)]
    /\ ~(c.ts < EpochBegin(EpochOf(t))) => o.current = c.current
    /\ s.preconfer => n = PreconferAt(t)
    /\ o.wasSynced => s.preconfer

\* The operator a is ejected at x, when every node has an entry of the epoch.
Ejected(x, a) ==
    /\ x \in Times /\ x <= now /\ SlotBegin(x) = x /\ x > EpochBegin(EpochOf(x)) + MaxLag
    /\ a # schedule[EpochOf(x)]

\* The rest of the epoch, up to the handover window.
Ejecting(x) == EpochOf(now) = EpochOf(x) /\ ~InHandoverWindow(now)

\* After the ejection a node with an entry of the time before takes a for the
\* operator, and the new operator waits for the grace period.
After(n, c, o, s, x, a) ==
    /\ IF c.ts < x THEN EpochOf(c.ts) = EpochOf(x) /\ c.current = a
                   ELSE c.current = schedule[EpochOf(c.ts)]
    /\ n \notin ready /\ s.preconfer =>
        IF Ejecting(x)
        THEN IF c.ts < x THEN n = a ELSE n = schedule[EpochOf(x)] /\ now > x + Grace
        ELSE n = Preconfer
    /\ Ejecting(x) /\ n = schedule[EpochOf(x)] =>
        IF c.ts < x THEN o.current = a /\ ~o.wasSynced
                    ELSE o.current = n /\ IF o.ejected = None THEN now > x + Grace ELSE o.ejected >= x

BeforeInv ==
    \A n \in Nodes : \/ n \in ready /\ Fresh(n)
                     \/ /\ Held(n, cache[n], op[n], LastBeat(n))
                        /\ Before(n, cache[n], op[n], status[n], LastBeat(n))
AfterInv(x, a) ==
    /\ Ejected(x, a)
    /\ \A n \in Nodes : /\ Held(n, cache[n], op[n], LastBeat(n))
                        /\ After(n, cache[n], op[n], status[n], x, a)
EjectInv ==
    Quiet => IF "eject" \in spent THEN \E x \in Beats, a \in Nodes : AfterInv(x, a) ELSE BeforeInv

\* A heartbeat of n after which its operator holds what it has heard.
HoldingBeat(n) ==
    \E c \in Entry, o \in OperatorState, s \in StatusType, w \in BOOLEAN :
        /\ cache' = [cache EXCEPT ![n] = c] /\ op' = [op EXCEPT ![n] = o]
        /\ status' = [status EXCEPT ![n] = s]
        /\ Heard(n, c, o, s, w) /\ Held(n, c, o, now)
        /\ s.preconfer =>
            IF c.ts < EpochBegin(EpochOf(now)) \/ InHandoverWindow(now)
            THEN n = Preconfer
            ELSE n = c.current /\ ~w

\* A heartbeat before or after the ejection.
LEMMA Holds ==
    ASSUME Types, Quiet, NEW n \in Nodes, n \in ready,
           Fresh(n) \/ Held(n, cache[n], op[n], now - Heartbeat),
           NEW behind \in BOOLEAN, NEW synced \in BOOLEAN, NEW marker \in BOOLEAN,
           NEW built \in BOOLEAN, GetStatus(n, behind, synced, marker, built)
    PROVE  HoldingBeat(n)
<1>1. now \in Times /\ now \in Beats /\ Heartbeat \in Nat
  BY Scheduled, ClockAssumption DEF Types
<1>2. Held(n, cache[n], op[n], now - Heartbeat) => Dated(cache[n])
  <2> SUFFICES ASSUME Held(n, cache[n], op[n], now - Heartbeat) PROVE Dated(cache[n])
    OBVIOUS
  <2>1. /\ cache[n].ts \in Times /\ cache[n].ts <= now - Heartbeat /\ SlotBegin(cache[n].ts) = cache[n].ts
        /\ cache[n].next = schedule[EpochOf(cache[n].ts) + 1]
    BY DEF Held, Usable
  <2>2. cache[n].ts <= now
    BY <1>1, <2>1 DEF Times
  <2>. QED  BY <2>1, <2>2 DEF Dated
<1>3. Told /\ (cache[n] = NoCache \/ Dated(cache[n]))
  BY <1>2 DEF Quiet, Told, Without, Fresh
<1>4. PICK c \in Entry, o \in OperatorState, s \in StatusType, w \in BOOLEAN :
            /\ cache' = [cache EXCEPT ![n] = c] /\ op' = [op EXCEPT ![n] = o]
            /\ status' = [status EXCEPT ![n] = s]
            /\ Heard(n, c, o, s, w)
  <2>1. HearingBeat(n)
    BY <1>3, Hears
  <2>. QED  BY <2>1 DEF HearingBeat
<1>5. /\ Usable(c, now) /\ Recent(c, now) /\ SlotBegin(c.ts) = c.ts /\ c # NoCache
      /\ c = cache[n] \/ c = Whitelist
  BY <1>4 DEF Heard, Dated
<1>6. c = cache[n] => Held(n, c, op[n], now - Heartbeat)
  BY <1>5 DEF Fresh
<1>7. c.next = schedule[EpochOf(c.ts) + 1]
  <2>1. Whitelist.next = schedule[EpochOf(Whitelist.ts) + 1]
    BY <1>1, Reads, SlotBegins
  <2>. QED  BY <1>5, <1>6, <2>1 DEF Held
<1>8. \/ c.ts < EpochBegin(EpochOf(now)) /\ EpochOf(c.ts) + 1 = EpochOf(now) /\ ~InHandoverWindow(now)
      \/ ~(c.ts < EpochBegin(EpochOf(now))) /\ EpochOf(c.ts) = EpochOf(now)
  BY <1>1, <1>5, UsableEpoch
<1>9. o.next => n = c.next
  BY <1>4, <1>6, <1>8 DEF Heard, Held
<1>10. s.preconfer =>
                IF c.ts < EpochBegin(EpochOf(now)) \/ InHandoverWindow(now)
                THEN n = Preconfer
                ELSE n = c.current /\ ~w
  <2>1. CASE c.ts < EpochBegin(EpochOf(now))
    <3>1. s.preconfer => o.next
      BY <1>4, <1>8, <2>1 DEF Heard
    <3>. QED  BY <1>7, <1>8, <1>9, <2>1, <3>1 DEF Preconfer
  <2>2. CASE ~(c.ts < EpochBegin(EpochOf(now))) /\ InHandoverWindow(now)
    <3>1. s.preconfer => o.next
      BY <1>4, <2>2 DEF Heard
    <3>. QED  BY <1>7, <1>8, <1>9, <2>2, <3>1 DEF Preconfer
  <2>3. CASE ~(c.ts < EpochBegin(EpochOf(now))) /\ ~InHandoverWindow(now)
    BY <1>4, <2>3 DEF Heard
  <2>. QED  BY <2>1, <2>2, <2>3
<1>11. Held(n, c, o, now)
  BY <1>1, <1>5, <1>7, <1>9 DEF Held
<1>. QED  BY <1>4, <1>10, <1>11 DEF HoldingBeat

\* A heartbeat before the ejection.
LEMMA BeforeInHeartbeat ==
    ASSUME Types, Quiet, BeforeInv, NEW n \in Nodes,
           NEW behind \in BOOLEAN, NEW synced \in BOOLEAN, NEW marker \in BOOLEAN,
           NEW built \in BOOLEAN, GetStatus(n, behind, synced, marker, built)
    PROVE  BeforeInv'
<1>1. n \in ready /\ ready' = ready \ {n} /\ UNCHANGED <<now, schedule>>
  BY DEF GetStatus
<1>2. \/ Fresh(n)
      \/ /\ Held(n, cache[n], op[n], now - Heartbeat)
         /\ Before(n, cache[n], op[n], status[n], now - Heartbeat)
  BY <1>1 DEF BeforeInv, LastBeat
<1>3. PICK c \in Entry, o \in OperatorState, s \in StatusType, w \in BOOLEAN :
            /\ cache' = [cache EXCEPT ![n] = c] /\ op' = [op EXCEPT ![n] = o]
            /\ status' = [status EXCEPT ![n] = s]
            /\ Heard(n, c, o, s, w) /\ Held(n, c, o, now)
            /\ s.preconfer =>
                IF c.ts < EpochBegin(EpochOf(now)) \/ InHandoverWindow(now)
                THEN n = Preconfer
                ELSE n = c.current /\ ~w
  <2>1. HoldingBeat(n)
    BY <1>1, <1>2, Holds
  <2>. QED  BY <2>1 DEF HoldingBeat
<1>4. now \in Times
  BY Scheduled
<1>5. c.current = schedule[EpochOf(c.ts)]
  <2>1. Whitelist.current = schedule[EpochOf(Whitelist.ts)]
    BY <1>4, Reads, SlotBegins
  <2>2. (c = cache[n] \/ c = Whitelist) /\ c # NoCache
    BY <1>3 DEF Heard
  <2>. QED  BY <1>2, <2>1, <2>2 DEF Before, Fresh
<1>6. ~(c.ts < EpochBegin(EpochOf(now))) => EpochOf(c.ts) = EpochOf(now)
  BY <1>3, <1>4, UsableEpoch DEF Heard
<1>7. s.preconfer => n = PreconferAt(now)
  BY <1>3, <1>5, <1>6 DEF Preconfer, PreconferAt
<1>8. Before(n, c, o, s, now)
  BY <1>3, <1>5, <1>7 DEF Before, Heard
<1>9. ASSUME NEW m \in Nodes
      PROVE  (\/ m \in ready /\ Fresh(m)
              \/ /\ Held(m, cache[m], op[m], LastBeat(m))
                 /\ Before(m, cache[m], op[m], status[m], LastBeat(m)))'
  <2>1. /\ cache'[m] = IF m = n THEN c ELSE cache[m]
        /\ op'[m] = IF m = n THEN o ELSE op[m]
        /\ status'[m] = IF m = n THEN s ELSE status[m]
    BY <1>3 DEF Types
  <2>2. CASE m = n
    <3>1. LastBeat(m)' = now
      BY <1>1, <2>2 DEF LastBeat
    <3>2. Held(m, cache[m], op[m], LastBeat(m))'
      BY <1>1, <1>3, <2>1, <2>2, <3>1 DEF Held, Usable, Recent
    <3>3. Before(m, cache[m], op[m], status[m], LastBeat(m))'
      BY <1>1, <1>8, <2>1, <2>2, <3>1 DEF Before, PreconferAt
    <3>. QED  BY <3>2, <3>3
  <2>3. CASE m # n
    <3>1. LastBeat(m)' = LastBeat(m) /\ (m \in ready' <=> m \in ready)
      BY <1>1, <2>3 DEF LastBeat
    <3>2. Held(m, cache[m], op[m], LastBeat(m)) => Held(m, cache[m], op[m], LastBeat(m))'
      BY <1>1, <2>1, <2>3, <3>1 DEF Held, Usable, Recent
    <3>3. Before(m, cache[m], op[m], status[m], LastBeat(m))
            => Before(m, cache[m], op[m], status[m], LastBeat(m))'
      BY <1>1, <2>1, <2>3, <3>1 DEF Before, PreconferAt
    <3>4. Fresh(m) => Fresh(m)'
      BY <2>1, <2>3 DEF Fresh
    <3>. QED  BY <3>1, <3>2, <3>3, <3>4 DEF BeforeInv
  <2>. QED  BY <2>2, <2>3
<1>. QED  BY <1>9 DEF BeforeInv

\* The new operator in the rest of the epoch: it waits from the slot in which
\* it learns of the ejection, which is not before x.
LEMMA WaitsForGrace ==
    ASSUME Types, NEW n \in Nodes, NEW c \in Entry, NEW x \in Beats, NEW a \in Nodes,
           Ejected(x, a), Ejecting(x), n = schedule[EpochOf(x)],
           After(n, cache[n], op[n], status[n], x, a),
           c.ts >= x, c.current = n, NEW g, g = HandleOperatorChange(n, op[n], c)
    PROVE  IF WithinGrace(g) THEN g.ejected >= x /\ g.ejected # None ELSE now > x + Grace
<1>1. /\ now \in Times /\ x \in Times /\ x <= now /\ now \in Nat /\ x \in Nat /\ Grace \in Nat
      /\ op[n] \in OperatorState /\ cache[n].ts \in Int /\ c.ts \in Int
  BY Scheduled, OperatorAssumption DEF Ejected, Times, Types, Entry
<1>2. x <= SlotBegin(now) /\ SlotBegin(now) \in Nat
  BY <1>1, BeginsGrow DEF Ejected
<1>3. L2SlotBegin(now) <= now /\ L2SlotBegin(now) \in Int
  <2>1. now - Genesis \in Nat /\ Heartbeat \in Nat \ {0} /\ Genesis \in Nat
    BY <1>1, ClockAssumption DEF Times
  <2>2. /\ ((now - Genesis) \div Heartbeat) * Heartbeat <= now - Genesis
        /\ (now - Genesis) \div Heartbeat \in Nat
    BY <2>1, Division
  <2>3. ((now - Genesis) \div Heartbeat) * Heartbeat \in Nat
    BY <2>1, <2>2
  <2>4. \A b, h, y \in Nat : h <= y - b => b + h <= y /\ b + h \in Int
    OBVIOUS
  <2>. QED  BY <1>1, <2>1, <2>2, <2>3, <2>4 DEF L2SlotBegin
<1>4. CASE cache[n].ts < x
  <2>1. op[n].current = a /\ ~op[n].wasSynced
    BY <1>4 DEF After
  <2>2. a # n /\ a # Zero
    BY OperatorAssumption DEF Ejected
  <2>3. g.ejected = SlotBegin(now)
    BY <1>1, <2>1, <2>2 DEF HandleOperatorChange, OperatorState
  <2>4. g.ejected >= x /\ g.ejected \in Nat /\ g.ejected # None
    BY <1>1, <1>2, <2>3 DEF None
  <2>5. PICK b, y : b = L2SlotBegin(now) /\ y = g.ejected
    OBVIOUS
  <2>6. b \in Int /\ b <= now /\ y \in Nat /\ y >= x /\ y # None
    BY <1>3, <2>4, <2>5
  <2>7. WithinGrace(g) <=> b <= y + Grace
    BY <2>5, <2>6 DEF WithinGrace
  <2>8. ~(b <= y + Grace) => now > x + Grace
    BY <1>1, <2>6
  <2>. QED  BY <2>4, <2>7, <2>8
<1>5. CASE ~(cache[n].ts < x)
  <2>1. op[n].current = n /\ IF op[n].ejected = None THEN now > x + Grace ELSE op[n].ejected >= x
    BY <1>5 DEF After
  <2>2. g = op[n] /\ op[n].ejected \in Int
    BY <1>1, <2>1 DEF HandleOperatorChange, OperatorState
  <2>3. CASE op[n].ejected = None
    BY <2>1, <2>2, <2>3 DEF WithinGrace
  <2>4. CASE op[n].ejected # None
    <3>1. g.ejected \in Int /\ g.ejected >= x /\ g.ejected # None
      BY <2>1, <2>2, <2>4
    <3>2. \A y, z \in Int : z >= x /\ y <= now /\ ~(y <= z + Grace) => now > x + Grace
      BY <1>1
    <3>. QED  BY <1>3, <3>1, <3>2 DEF WithinGrace
  <2>. QED  BY <2>3, <2>4
<1>. QED  BY <1>4, <1>5

\* A heartbeat after the ejection.
LEMMA AfterInHeartbeat ==
    ASSUME Types, Quiet, NEW x \in Beats, NEW a \in Nodes, AfterInv(x, a), NEW n \in Nodes,
           NEW behind \in BOOLEAN, NEW synced \in BOOLEAN, NEW marker \in BOOLEAN,
           NEW built \in BOOLEAN, GetStatus(n, behind, synced, marker, built)
    PROVE  AfterInv(x, a)'
<1>1. n \in ready /\ ready' = ready \ {n} /\ UNCHANGED <<now, schedule>>
  BY DEF GetStatus
<1>2. /\ Ejected(x, a) /\ Held(n, cache[n], op[n], now - Heartbeat)
      /\ After(n, cache[n], op[n], status[n], x, a)
  BY <1>1 DEF AfterInv, LastBeat
<1>3. PICK c \in Entry, o \in OperatorState, s \in StatusType, w \in BOOLEAN :
            /\ cache' = [cache EXCEPT ![n] = c] /\ op' = [op EXCEPT ![n] = o]
            /\ status' = [status EXCEPT ![n] = s]
            /\ Heard(n, c, o, s, w) /\ Held(n, c, o, now)
            /\ s.preconfer =>
                IF c.ts < EpochBegin(EpochOf(now)) \/ InHandoverWindow(now)
                THEN n = Preconfer
                ELSE n = c.current /\ ~w
  <2>1. HoldingBeat(n)
    BY <1>1, <1>2, Holds
  <2>. QED  BY <2>1 DEF HoldingBeat
<1>4. /\ now \in Times /\ x \in Times /\ x <= now /\ c.ts \in Times /\ c.ts <= now
      /\ EpochOf(now) \in Nat /\ EpochOf(x) \in Nat /\ EpochOf(x) <= EpochOf(now)
  BY <1>2, <1>3, Scheduled, EpochsGrow DEF Ejected, Heard, Dated
<1>5. \/ c.ts < EpochBegin(EpochOf(now)) /\ EpochOf(c.ts) + 1 = EpochOf(now)
      \/ ~(c.ts < EpochBegin(EpochOf(now))) /\ EpochOf(c.ts) = EpochOf(now)
  BY <1>3, <1>4, UsableEpoch DEF Heard
<1>6. IF c.ts < x THEN EpochOf(c.ts) = EpochOf(x) /\ c.current = a
                  ELSE c.current = schedule[EpochOf(c.ts)]
  <2>1. CASE c = cache[n]
    BY <1>2, <2>1 DEF After
  <2>2. CASE c = Whitelist
    <3>1. c.ts = SlotBegin(now) /\ c.current = schedule[EpochOf(c.ts)]
      BY <1>4, <2>2, Reads, SlotBegins
    <3>2. ~(SlotBegin(now) < x)
      <4>1. x <= SlotBegin(now) /\ SlotBegin(now) \in Nat
        BY <1>2, <1>4, BeginsGrow DEF Ejected
      <4>. QED  BY <1>4, <4>1 DEF Times
    <3>. QED  BY <3>1, <3>2
  <2>. QED  BY <1>3, <2>1, <2>2 DEF Heard
<1>7. Ejecting(x) => ~(c.ts < EpochBegin(EpochOf(now))) /\ EpochOf(c.ts) = EpochOf(x)
  <2> SUFFICES ASSUME Ejecting(x), c.ts < EpochBegin(EpochOf(now)) PROVE FALSE
    BY <1>5 DEF Ejecting
  <2>1. EpochOf(c.ts) + 1 = EpochOf(x) /\ EpochOf(c.ts) \in Nat
    BY <1>4, <1>5, EpochsGrow DEF Ejecting
  <2>2. ~(c.ts < x)
    BY <1>4, <1>6, <2>1
  <2>3. EpochOf(x) <= EpochOf(c.ts)
    BY <1>4, <2>2, EpochsGrow DEF Times
  <2>. QED  BY <1>4, <2>1, <2>3
<1>8. ASSUME Ejecting(x), n = schedule[EpochOf(x)], ~(c.ts < x)
      PROVE  IF w THEN o.ejected >= x /\ o.ejected # None ELSE o.ejected = None /\ now > x + Grace
  <2> DEFINE g == HandleOperatorChange(n, op[n], c)
  <2>1. c.ts >= x /\ c.current = n
    BY <1>4, <1>6, <1>7, <1>8 DEF Times
  <2>2. IF WithinGrace(g) THEN g.ejected >= x /\ g.ejected # None ELSE now > x + Grace
    BY <1>2, <1>8, <2>1, WaitsForGrace
  <2>3. w = WithinGrace(g) /\ o.ejected = IF w THEN g.ejected ELSE None
    BY <1>3, <1>7, <1>8 DEF Heard
  <2> HIDE DEF g
  <2>. QED  BY <2>2, <2>3
<1>9. ASSUME s.preconfer
      PROVE  IF Ejecting(x)
             THEN IF c.ts < x THEN n = a ELSE n = schedule[EpochOf(x)] /\ now > x + Grace
             ELSE n = Preconfer
  <2>1. CASE Ejecting(x)
    <3>1. n = c.current /\ ~w
      BY <1>3, <1>7, <1>9, <2>1 DEF Ejecting
    <3>. QED  BY <1>6, <1>7, <1>8, <2>1, <3>1
  <2>2. CASE ~Ejecting(x) /\ (c.ts < EpochBegin(EpochOf(now)) \/ InHandoverWindow(now))
    BY <1>3, <1>9, <2>2
  <2>3. CASE ~Ejecting(x) /\ ~(c.ts < EpochBegin(EpochOf(now))) /\ ~InHandoverWindow(now)
    <3>1. EpochOf(c.ts) # EpochOf(x) /\ EpochOf(c.ts) = EpochOf(now)
      BY <1>5, <2>3 DEF Ejecting
    <3>. QED  BY <1>3, <1>6, <1>9, <2>3, <3>1 DEF Preconfer
  <2>. QED  BY <2>1, <2>2, <2>3
<1>10. ASSUME Ejecting(x), n = schedule[EpochOf(x)]
       PROVE  IF c.ts < x THEN o.current = a /\ ~o.wasSynced
              ELSE o.current = n /\ IF o.ejected = None THEN now > x + Grace ELSE o.ejected >= x
  <2>1. o.current = c.current /\ o.wasSynced = s.preconfer
    BY <1>3, <1>7, <1>10 DEF Heard
  <2>2. CASE c.ts < x
    BY <1>2, <1>6, <1>9, <1>10, <2>1, <2>2 DEF Ejected
  <2>3. CASE ~(c.ts < x)
    BY <1>6, <1>7, <1>8, <1>10, <2>1, <2>3
  <2>. QED  BY <2>2, <2>3
<1>11. ASSUME NEW m \in Nodes
       PROVE  (/\ Held(m, cache[m], op[m], LastBeat(m))
               /\ After(m, cache[m], op[m], status[m], x, a))'
  <2>1. /\ cache'[m] = IF m = n THEN c ELSE cache[m]
        /\ op'[m] = IF m = n THEN o ELSE op[m]
        /\ status'[m] = IF m = n THEN s ELSE status[m]
    BY <1>3 DEF Types
  <2>2. Ejecting(x)' = Ejecting(x) /\ Preconfer' = Preconfer
    BY <1>1 DEF Ejecting, Preconfer
  <2>3. CASE m = n
    <3>1. LastBeat(m)' = now
      BY <1>1, <2>3 DEF LastBeat
    <3>2. Held(m, cache[m], op[m], LastBeat(m))'
      BY <1>1, <1>3, <2>1, <2>3, <3>1 DEF Held, Usable, Recent
    <3>3. After(m, cache[m], op[m], status[m], x, a)'
      BY <1>1, <1>6, <1>9, <1>10, <2>1, <2>2, <2>3 DEF After
    <3>. QED  BY <3>2, <3>3
  <2>4. CASE m # n
    <3>1. LastBeat(m)' = LastBeat(m) /\ (m \in ready' <=> m \in ready)
      BY <1>1, <2>4 DEF LastBeat
    <3>2. Held(m, cache[m], op[m], LastBeat(m)) /\ After(m, cache[m], op[m], status[m], x, a)
      BY DEF AfterInv
    <3>3. Held(m, cache[m], op[m], LastBeat(m))'
      BY <1>1, <2>1, <2>4, <3>1, <3>2 DEF Held, Usable, Recent
    <3>4. After(m, cache[m], op[m], status[m], x, a)'
      BY <1>1, <2>1, <2>2, <2>4, <3>1, <3>2 DEF After
    <3>. QED  BY <3>3, <3>4
  <2>. QED  BY <2>3, <2>4
<1>12. Ejected(x, a)'
  BY <1>1, <1>2 DEF Ejected
<1>. QED  BY <1>11, <1>12 DEF AfterInv

\* The next heartbeat begins, without an ejection.
LEMMA BeforeInTick ==
    ASSUME Types, Quiet, BeforeInv, Tick, schedule' = schedule
    PROVE  BeforeInv'
<1>1. /\ UNCHANGED <<cache, op, status>> /\ ready = {} /\ ready' = Nodes
      /\ now' = now + Heartbeat
  BY DEF Tick
<1>2. now' - Heartbeat = now
  BY <1>1, Scheduled, ClockAssumption DEF Times
<1> SUFFICES ASSUME NEW n \in Nodes
             PROVE  (/\ Held(n, cache[n], op[n], LastBeat(n))
                     /\ Before(n, cache[n], op[n], status[n], LastBeat(n)))'
  BY DEF BeforeInv
<1>3. LastBeat(n) = now /\ LastBeat(n)' = now
  BY <1>1, <1>2 DEF LastBeat
<1>4. Held(n, cache[n], op[n], now) /\ Before(n, cache[n], op[n], status[n], now)
  BY <1>1, <1>3 DEF BeforeInv
<1>5. Held(n, cache[n], op[n], LastBeat(n))'
  BY <1>1, <1>3, <1>4 DEF Held, Usable, Recent
<1>6. Before(n, cache[n], op[n], status[n], LastBeat(n))'
  BY <1>1, <1>3, <1>4 DEF Before, PreconferAt
<1>. QED  BY <1>5, <1>6

\* Time passes after the ejection.
LEMMA AfterInTick ==
    ASSUME Types, Quiet, NEW x \in Beats, NEW a \in Nodes, AfterInv(x, a), Tick,
           schedule' = schedule
    PROVE  AfterInv(x, a)'
<1>1. /\ UNCHANGED <<cache, op, status>> /\ ready = {} /\ ready' = Nodes
      /\ now' = now + Heartbeat
  BY DEF Tick
<1>2. /\ now' - Heartbeat = now /\ now <= now' /\ now \in Times /\ now' \in Times
      /\ x \in Times /\ x <= now /\ x <= now'
  <2>1. now \in Times /\ x \in Times /\ x <= now
    BY Scheduled DEF AfterInv, Ejected
  <2>. QED  BY <1>1, <2>1, ClockAssumption DEF Times
<1>3. Ejecting(x)' => Ejecting(x)
  <2> SUFFICES ASSUME EpochOf(now') = EpochOf(x), ~InHandoverWindow(now')
               PROVE  EpochOf(now) = EpochOf(x) /\ ~InHandoverWindow(now)
    BY DEF Ejecting
  <2>1. EpochOf(now) = EpochOf(x)
    <3>1. /\ EpochOf(x) \in Nat /\ EpochOf(now) \in Nat /\ EpochOf(x) <= EpochOf(now)
          /\ EpochOf(now) <= EpochOf(now')
      BY <1>2, EpochsGrow
    <3>. QED  BY <3>1
  <2>. QED  BY <1>2, <2>1, WindowLasts
<1>4. Ejected(x, a)'
  BY <1>2 DEF AfterInv, Ejected
<1>5. ASSUME NEW n \in Nodes
      PROVE  (/\ Held(n, cache[n], op[n], LastBeat(n))
              /\ After(n, cache[n], op[n], status[n], x, a))'
  <2>1. LastBeat(n) = now /\ LastBeat(n)' = now
    BY <1>1, <1>2 DEF LastBeat
  <2>2. Held(n, cache[n], op[n], now) /\ After(n, cache[n], op[n], status[n], x, a)
    BY <2>1 DEF AfterInv
  <2>3. Held(n, cache[n], op[n], LastBeat(n))'
    BY <1>1, <2>1, <2>2 DEF Held, Usable, Recent
  <2>4. now > x + Grace => now' > x + Grace
    BY <1>2, OperatorAssumption DEF Times
  <2>5. After(n, cache[n], op[n], status[n], x, a)'
    BY <1>1, <1>3, <2>2, <2>4 DEF After
  <2>. QED  BY <2>3, <2>5
<1>. QED  BY <1>4, <1>5 DEF AfterInv

\* The next heartbeat begins with the ejection of the operator.
LEMMA Ejects ==
    ASSUME Types, Quiet, BeforeInv, Tick, NEW x, x = now', SlotBegin(x) = x,
           NEW e, e = EpochOf(x), x > EpochBegin(e) + MaxLag, NEW a, a = schedule[e],
           NEW b \in Nodes, b # a, schedule' = [schedule EXCEPT ![e] = b]
    PROVE  x \in Beats /\ a \in Nodes /\ AfterInv(x, a)'
<1>1. /\ UNCHANGED <<cache, op, status>> /\ ready = {} /\ ready' = Nodes
      /\ x = now + Heartbeat
  BY DEF Tick
<1>2. /\ x - Heartbeat = now /\ now <= x /\ now \in Times /\ x \in Times /\ now \in Nat /\ x \in Nat
      /\ Heartbeat \in Nat \ {0} /\ now < x /\ now \in Beats
  <2>1. now \in Times /\ now \in Beats /\ Heartbeat \in Nat \ {0}
    BY Scheduled, ClockAssumption DEF Types
  <2>2. x \in Nat /\ now \in Nat /\ x - Heartbeat = now /\ now <= x /\ now < x
    BY <1>1, <2>1 DEF Times
  <2>3. x \in Times
    BY <2>1, <2>2, ClockAssumption DEF Times
  <2>. QED  BY <2>1, <2>2, <2>3
<1>3. x \in Beats
  BY <1>1, <1>2, NextBeat
<1>4. e \in Nat /\ e \in Epochs /\ e + 1 \in Epochs /\ e # e + 1
  <2>1. x <= MaxTime /\ MaxTime \in Times
    BY <1>1, <1>2, OperatorAssumption DEF Tick, Times
  <2>2. e \in Nat /\ e <= EpochOf(MaxTime) /\ EpochOf(MaxTime) \in Nat
    BY <1>2, <2>1, EpochsGrow
  <2>. QED  BY <2>2 DEF Epochs
<1>5. a \in Nodes /\ schedule'[e] = b /\ schedule'[e + 1] = schedule[e + 1]
  BY <1>4 DEF Types
<1>6. /\ EpochBegin(e) \in Times /\ EpochBegin(e) \in Nat /\ MaxLag \in Nat
      /\ Heartbeat <= SlotDuration /\ SlotDuration \in Nat \ {0}
  <2>1. SlotDuration \in Nat \ {0} /\ Heartbeat \in Nat \ {0} /\ SlotDuration % Heartbeat = 0
    BY ClockAssumption
  <2>2. Heartbeat <= SlotDuration
    BY <2>1
  <2>. QED  BY <1>4, <2>1, <2>2, EpochStart, OperatorAssumption DEF Times
<1>7. SlotBegin(x) = x /\ x > EpochBegin(e) + MaxLag /\ EpochOf(x) = e /\ b # a
      /\ a = schedule[e]
  OBVIOUS
<1>8. EpochOf(now) = e
  <2>1. SlotOf(x) \in Nat /\ x = StartOf(SlotOf(x))
    BY <1>2, <1>7, Slots DEF SlotBegin
  <2>2. SlotBegin(EpochBegin(e)) = EpochBegin(e)
    <3>1. e * SlotsPerEpoch \in Nat
      BY <1>4, ClockAssumption
    <3>. QED  BY <3>1, SlotStart DEF EpochBegin, SlotBegin
  <2>3. EpochBegin(e) < x
    BY <1>2, <1>6, <1>7
  <2>4. EpochBegin(e) + SlotDuration <= x
    BY <1>6, <2>1, <2>2, <2>3, SlotBefore
  <2>5. now >= EpochBegin(e)
    <3>1. \A h, d, y \in Nat : h <= d /\ y + d <= now + h => now >= y
      BY <1>2
    <3>. QED  BY <1>1, <1>2, <1>6, <2>4, <3>1
  <2>. QED  BY <1>2, <1>7, <2>5, SameEpoch
<1>9. ASSUME NEW n \in Nodes
      PROVE  /\ Held(n, cache[n], op[n], now) /\ Before(n, cache[n], op[n], status[n], now)
             /\ cache[n].ts < x /\ EpochOf(cache[n].ts) = e /\ op[n].current = a
             /\ cache[n].current = a /\ cache[n].next = schedule'[e + 1]
             /\ ~InHandoverWindow(x) /\ n = b => ~op[n].wasSynced
  <2>1. Held(n, cache[n], op[n], now) /\ Before(n, cache[n], op[n], status[n], now)
    BY <1>1 DEF BeforeInv, LastBeat
  <2>2. /\ cache[n].ts \in Times /\ cache[n].ts <= now /\ SlotBegin(cache[n].ts) = cache[n].ts
        /\ Usable(cache[n], now)
    BY <2>1 DEF Held, Usable
  <2>3. ~(cache[n].ts < EpochBegin(e))
    <3> SUFFICES ASSUME cache[n].ts < EpochBegin(e) PROVE FALSE
      OBVIOUS
    <3>1. now - cache[n].ts <= MaxLag
      BY <1>8, <2>2 DEF Usable
    <3>2. cache[n].ts + SlotDuration <= EpochBegin(e)
      <4>1. e * SlotsPerEpoch \in Nat
        BY <1>4, ClockAssumption
      <4>. QED  BY <2>2, <4>1, SlotBefore DEF EpochBegin
    <3>3. \A h, d, y, l, c \in Nat : h <= d /\ now - c <= l /\ c + d <= y => ~(now + h > y + l)
      BY <1>2
    <3>. QED  BY <1>1, <1>2, <1>6, <1>7, <2>2, <3>1, <3>2, <3>3 DEF Times
  <2>4. EpochOf(cache[n].ts) = e
    BY <1>2, <1>8, <2>2, <2>3, UsableEpoch
  <2>5. cache[n].ts < x
    BY <1>2, <2>2 DEF Times
  <2>6. cache[n].current = a /\ op[n].current = a /\ cache[n].next = schedule'[e + 1]
    BY <1>5, <1>8, <2>1, <2>3, <2>4 DEF Before, Held
  <2>7. ~InHandoverWindow(x) /\ n = b => ~op[n].wasSynced
    <3> SUFFICES ASSUME ~InHandoverWindow(x), n = b, op[n].wasSynced PROVE FALSE
      OBVIOUS
    <3>1. ~InHandoverWindow(now)
      BY <1>2, <1>7, <1>8, WindowLasts
    <3>2. n = PreconferAt(now)
      BY <2>1 DEF Before
    <3>. QED  BY <1>7, <1>8, <3>1, <3>2 DEF PreconferAt
  <2>. QED  BY <2>1, <2>4, <2>5, <2>6, <2>7
<1>10. now' = x
  OBVIOUS
<1>11. Ejected(x, a)'
  <2>1. x <= now' /\ a # schedule'[e]
    BY <1>2, <1>5, <1>7, <1>10
  <2>. QED  BY <1>2, <1>7, <2>1 DEF Ejected
<1>12. ASSUME NEW n \in Nodes
       PROVE  (/\ Held(n, cache[n], op[n], LastBeat(n))
               /\ After(n, cache[n], op[n], status[n], x, a))'
  <2>1. LastBeat(n)' = now
    BY <1>1, <1>2, <1>10 DEF LastBeat
  <2>2. Held(n, cache[n], op[n], LastBeat(n))'
    BY <1>1, <1>9, <2>1 DEF Held, Usable, Recent
  <2>3. After(n, cache[n], op[n], status[n], x, a)'
    BY <1>1, <1>5, <1>7, <1>9, <1>10 DEF After, Ejecting
  <2>. QED  BY <2>2, <2>3
<1>13. AfterInv(x, a)'
  BY <1>11, <1>12 DEF AfterInv
<1>. QED  BY <1>3, <1>5, <1>13

\* Every step keeps the invariant.
LEMMA EjectInductive == Types /\ EjectInv /\ [Next]_vars => EjectInv'
<1> SUFFICES ASSUME Types, EjectInv, [Next]_vars, Quiet' PROVE EjectInv'
  BY DEF EjectInv
<1>1. Quiet
  BY TypesInductive DEF Quiet
<1>2. IF "eject" \in spent THEN \E x \in Beats, a \in Nodes : AfterInv(x, a) ELSE BeforeInv
  BY <1>1 DEF EjectInv
<1>3. ASSUME NEW n \in Nodes, NEW behind \in BOOLEAN, NEW synced \in BOOLEAN,
             NEW marker \in BOOLEAN, NEW built \in BOOLEAN,
             GetStatus(n, behind, synced, marker, built)
      PROVE  EjectInv'
  <2>1. spent' = spent
    BY <1>3 DEF GetStatus
  <2>2. CASE "eject" \in spent
    <3>1. PICK x \in Beats, a \in Nodes : AfterInv(x, a)
      BY <1>2, <2>2
    <3>2. AfterInv(x, a)'
      BY <1>1, <1>3, <3>1, AfterInHeartbeat
    <3>. QED  BY <2>1, <2>2, <3>2 DEF EjectInv
  <2>3. CASE "eject" \notin spent
    <3>1. BeforeInv'
      BY <1>1, <1>2, <1>3, <2>3, BeforeInHeartbeat
    <3>. QED  BY <2>1, <2>3, <3>1 DEF EjectInv
  <2>. QED  BY <2>2, <2>3
<1>4. ASSUME NEW n \in Nodes, NEW behind \in BOOLEAN, GetStatusFails(n, behind) PROVE FALSE
  BY <1>1, <1>4 DEF GetStatusFails, Quiet
<1>5. ASSUME NEW n \in Nodes, GetStatusEmpty(n) \/ Restart(n) PROVE FALSE
  BY <1>1, <1>5 DEF GetStatusEmpty, Restart, Quiet
<1>6. CASE Tick
  <2>1. \/ schedule' = schedule /\ spent' = spent
        \/ /\ SlotBegin(now') = now' /\ now' > EpochBegin(EpochOf(now')) + MaxLag
           /\ Replaced("eject", EpochOf(now'))
    BY <1>1, <1>6 DEF Tick, Replaced, Quiet
  <2>2. CASE schedule' = schedule /\ spent' = spent /\ "eject" \in spent
    <3>1. PICK x \in Beats, a \in Nodes : AfterInv(x, a)
      BY <1>2, <2>2
    <3>2. AfterInv(x, a)'
      BY <1>1, <1>6, <2>2, <3>1, AfterInTick
    <3>. QED  BY <2>2, <3>2 DEF EjectInv
  <2>3. CASE schedule' = schedule /\ spent' = spent /\ "eject" \notin spent
    <3>1. BeforeInv'
      BY <1>1, <1>2, <1>6, <2>3, BeforeInTick
    <3>. QED  BY <2>3, <3>1 DEF EjectInv
  <2>4. CASE /\ SlotBegin(now') = now' /\ now' > EpochBegin(EpochOf(now')) + MaxLag
             /\ Replaced("eject", EpochOf(now'))
    <3>1. PICK x : x = now'
      OBVIOUS
    <3>2. PICK e : e = EpochOf(x)
      OBVIOUS
    <3>3. PICK a : a = schedule[e]
      OBVIOUS
    <3>4. /\ "eject" \notin spent /\ "eject" \in spent'
          /\ \E b \in Nodes : b # a /\ schedule' = [schedule EXCEPT ![e] = b]
      BY <2>4, <3>1, <3>2, <3>3 DEF Replaced
    <3>5. PICK b \in Nodes : b # a /\ schedule' = [schedule EXCEPT ![e] = b]
      BY <3>4
    <3>6. SlotBegin(x) = x /\ x > EpochBegin(e) + MaxLag /\ BeforeInv
      BY <1>2, <2>4, <3>1, <3>2, <3>4
    <3>7. x \in Beats /\ a \in Nodes /\ AfterInv(x, a)'
      BY <1>1, <1>6, <3>1, <3>2, <3>3, <3>5, <3>6, Ejects
    <3>. QED  BY <3>4, <3>7 DEF EjectInv
  <2>. QED  BY <2>1, <2>2, <2>3, <2>4
<1>7. CASE UNCHANGED vars
  <2>1. UNCHANGED <<now, schedule, cache, op, status, ready, spent>>
    BY <1>7 DEF vars
  <2>2. ASSUME NEW n \in Nodes
        PROVE  /\ Fresh(n) => Fresh(n)'
               /\ Held(n, cache[n], op[n], LastBeat(n)) => Held(n, cache[n], op[n], LastBeat(n))'
    BY <2>1 DEF Fresh, Held, LastBeat, Usable, Recent
  <2>3. ASSUME NEW n \in Nodes, Before(n, cache[n], op[n], status[n], LastBeat(n))
        PROVE  Before(n, cache[n], op[n], status[n], LastBeat(n))'
    BY <2>1, <2>3 DEF Before, LastBeat, PreconferAt
  <2>4. ASSUME NEW x \in Beats, NEW a \in Nodes, AfterInv(x, a) PROVE AfterInv(x, a)'
    <3>1. Ejected(x, a)'
      BY <2>1, <2>4 DEF AfterInv, Ejected
    <3>2. Ejecting(x)' = Ejecting(x) /\ Preconfer' = Preconfer
      BY <2>1 DEF Ejecting, Preconfer
    <3>3. ASSUME NEW n \in Nodes PROVE After(n, cache[n], op[n], status[n], x, a)'
      BY <2>1, <2>4, <3>2 DEF AfterInv, After
    <3>. QED  BY <2>2, <2>4, <3>1, <3>3 DEF AfterInv
  <2>5. BeforeInv => BeforeInv'
    BY <2>1, <2>2, <2>3 DEF BeforeInv
  <2>. QED  BY <1>2, <2>1, <2>4, <2>5 DEF EjectInv
<1>. QED  BY <1>3, <1>4, <1>5, <1>6, <1>7 DEF Next

\* The ejected operator stops before its successor goes on.
LEMMA OneAfter ==
    ASSUME GraceFits, Types, NEW x \in Beats, NEW a \in Nodes, AfterInv(x, a)
    PROVE  OnePreconfer
<1> SUFFICES ASSUME NEW m \in Nodes \ ready, NEW n \in Nodes \ ready,
                    status[m].preconfer, status[n].preconfer
             PROVE  m = n
  BY DEF OnePreconfer
<1>1. /\ now \in Nat /\ now \in Times /\ x \in Nat /\ x \in Times /\ x <= now /\ SlotBegin(x) = x
      /\ MaxLag \in Nat /\ Grace \in Nat /\ MaxLag <= Grace
  BY Scheduled, OperatorAssumption DEF AfterInv, Ejected, Times, GraceFits
<1>2. ASSUME NEW k \in Nodes \ ready, cache[k].ts < x PROVE ~(now > x + Grace)
  <2>1. cache[k].ts \in Times /\ Recent(cache[k], now)
    BY DEF AfterInv, Held, Usable, LastBeat
  <2>2. x <= SlotBegin(now) /\ SlotBegin(now) \in Nat
    BY <1>1, BeginsGrow
  <2>3. now - cache[k].ts <= MaxLag
    BY <1>1, <1>2, <2>1, <2>2 DEF Recent, Times
  <2>4. \A z \in Nat : z < x /\ now - z <= MaxLag => ~(now > x + Grace)
    BY <1>1
  <2>5. cache[k].ts \in Nat
    BY <2>1 DEF Times
  <2>. QED  BY <1>2, <2>3, <2>4, <2>5
<1>3. ASSUME NEW k \in Nodes \ ready, status[k].preconfer
      PROVE  IF Ejecting(x)
             THEN IF cache[k].ts < x THEN k = a ELSE k = schedule[EpochOf(x)] /\ now > x + Grace
             ELSE k = Preconfer
  BY <1>3 DEF AfterInv, After
<1>4. CASE Ejecting(x) /\ now > x + Grace
  <2>1. ~(cache[m].ts < x) /\ ~(cache[n].ts < x)
    BY <1>2, <1>4
  <2>. QED  BY <1>3, <1>4, <2>1
<1>5. CASE Ejecting(x) /\ ~(now > x + Grace)
  <2>1. m = a /\ n = a
    BY <1>3, <1>5
  <2>. QED  BY <2>1
<1>6. CASE ~Ejecting(x)
  <2>1. m = Preconfer /\ n = Preconfer
    BY <1>3, <1>6
  <2>. QED  BY <2>1
<1>. QED  BY <1>4, <1>5, <1>6

(***************************************************************************)
(* No two nodes preconfirm in the same heartbeat: without replacements     *)
(* each of them only in its turn, without lag only as L1 says, and when an *)
(* operator is ejected while L1 RPCs are behind, because the grace period  *)
(* (is_within_ejection_grace) is over only when no node uses an entry from *)
(* before the ejection any more.                                           *)
(***************************************************************************)
THEOREM OnePreconferAtATime ==
    ASSUME GraceFits, SeparateFaults
    PROVE  Spec => []OnePreconfer
<1>1. Init => IInv /\ Types /\ LagInv /\ EjectInv
  <2> SUFFICES ASSUME Init PROVE LagInv /\ EjectInv
    BY Initially, TypesInitially
  <2>1. SlotBegin(now) \in Times /\ NoCache.ts <= SlotBegin(now) /\ NoCache.ts # SlotBegin(now)
    <3>1. SlotBegin(now) \in Times
      BY TypesInitially, Scheduled, SlotBegins
    <3>. QED  BY <3>1, New DEF None, Times
  <2>. QED  BY <2>1 DEF Init, LagInv, EjectInv, BeforeInv, Fresh
<1>2. IInv /\ Types /\ LagInv /\ EjectInv /\ [Next]_vars => (IInv /\ Types /\ LagInv /\ EjectInv)'
  BY Inductive, TypesInductive, LagInductive, EjectInductive
<1>3. IInv /\ Types /\ LagInv /\ EjectInv => OnePreconfer
  <2> SUFFICES ASSUME IInv, Types, LagInv, EjectInv PROVE OnePreconfer
    OBVIOUS
  <2>1. \/ Without({"eject", "early", "replace"})
        \/ "lag" \notin scenario
        \/ Quiet
    BY DEF Types, SeparateFaults, Without, Quiet
  <2>2. CASE Without({"eject", "early", "replace"})
    BY <2>2 DEF IInv, Kept, Without, TurnInv, OnePreconfer
  <2>3. CASE "lag" \notin scenario
    BY <2>3 DEF LagInv, OnePreconfer
  <2>4. CASE Quiet /\ "eject" \in spent
    BY <2>4, OneAfter DEF EjectInv
  <2>5. CASE Quiet /\ "eject" \notin spent
    <3>1. \A n \in Nodes \ ready : status[n].preconfer => n = PreconferAt(now)
      BY <2>5 DEF EjectInv, BeforeInv, LastBeat, Before
    <3>. QED  BY <3>1 DEF OnePreconfer
  <2>. QED  BY <2>1, <2>2, <2>3, <2>4, <2>5
<1>. QED  BY <1>1, <1>2, <1>3, PTL DEF Spec
=============================================================================
