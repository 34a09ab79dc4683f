-------------------------- MODULE Operator_proofs --------------------------
(***************************************************************************)
(* TypeOK, OnlyInTurn, TurnIsTaken and EndIsTold for any number of nodes,  *)
(* any length of slots, epochs and the handover window, and any schedule.  *)
(*                                                                         *)
(* The clock first: slots, epochs and heartbeats.  Then what one heartbeat *)
(* does, as facts about constants (Beat and Failure), on which the proofs  *)
(* here and in Ejection_proofs rest.                                       *)
(*                                                                         *)
(* A node decides with an entry of its cache, which says the truth about   *)
(* the epoch of its time and the next one.  An entry of this epoch is used *)
(* as it is.  An older one is at most MaxLag old: so it is of the epoch    *)
(* before, what it said about the next epoch is about this one, and the    *)
(* handover window has not begun.                                          *)
(*                                                                         *)
(* The turn and its end are about what a node remembers from one heartbeat *)
(* to the next. When nothing fails the operator it stores                  *)
(* (set_current_operator) is the one of its entry, so a new one comes with *)
(* a new epoch, when the node preconfirms already because its handover     *)
(* window began before (HandoverFits): the grace period is for ejections   *)
(* only.                                                                   *)
(*                                                                         *)
(* A preconfer that stops in the handover window knew so in the heartbeat  *)
(* before, because the entry it used then was of the same epoch already    *)
(* (WindowFits): is_end_of_sequencing was true.                            *)
(***************************************************************************)
EXTENDS Operator, TLAPS

\* A division by a positive number.
LEMMA Division ==
    ASSUME NEW a \in Nat, NEW d \in Nat \ {0}
    PROVE  /\ a \div d \in Nat
           /\ (a \div d) * d <= a
           /\ a < (a \div d) * d + d
BY SMT

\* The quotient is the only number with these bounds.
LEMMA Quotient ==
    ASSUME NEW a \in Nat, NEW d \in Nat \ {0}, NEW q \in Nat, q * d <= a, a < q * d + d
    PROVE  a \div d = q
BY SMT

\* The remainder of a division.
LEMMA Remainder ==
    ASSUME NEW a \in Nat, NEW d \in Nat \ {0}
    PROVE  a % d = a - (a \div d) * d
BY SMT

\* Multiplication by a natural number is monotone.
LEMMA Grows ==
    ASSUME NEW a \in Nat, NEW b \in Nat, NEW d \in Nat, a <= b
    PROVE  a * d <= b * d
BY SMT

\* Slots per epoch times the length of a slot is the length of an epoch.
LEMMA Regroup ==
    ASSUME NEW a \in Nat, NEW b \in Nat, NEW d \in Nat
    PROVE  a * (b * d) = (a * b) * d
BY SMT

\* So is division.
LEMMA QuotientGrows ==
    ASSUME NEW a \in Nat, NEW b \in Nat, NEW d \in Nat \ {0}, a <= b
    PROVE  a \div d <= b \div d
BY SMT

-----------------------------------------------------------------------------
(* The clock.                                                              *)

Times == {t \in Nat : t >= Genesis}

\* A time is in its slot (slot_of_epoch, slot_begin_timestamp).
LEMMA Slots ==
    ASSUME NEW t \in Times
    PROVE  /\ SlotOf(t) \in Nat
           /\ StartOf(SlotOf(t)) <= t
           /\ t < StartOf(SlotOf(t)) + SlotDuration
<1>1. t - Genesis \in Nat /\ SlotDuration \in Nat \ {0} /\ Genesis \in Nat
  BY ClockAssumption DEF Times
<1>2. /\ SlotOf(t) \in Nat
      /\ SlotOf(t) * SlotDuration <= t - Genesis
      /\ t - Genesis < SlotOf(t) * SlotDuration + SlotDuration
  BY <1>1, Division DEF SlotOf
<1>3. SlotOf(t) * SlotDuration \in Nat /\ t \in Nat
  BY <1>1, <1>2 DEF Times
<1>. QED  BY <1>1, <1>2, <1>3 DEF StartOf

\* A slot begins in itself.
LEMMA SlotStart ==
    ASSUME NEW k \in Nat
    PROVE  StartOf(k) \in Times /\ SlotOf(StartOf(k)) = k
<1>1. SlotDuration \in Nat \ {0} /\ Genesis \in Nat
  BY ClockAssumption
<1>2. k * SlotDuration \in Nat /\ StartOf(k) - Genesis = k * SlotDuration
  BY <1>1, SMT DEF StartOf
<1>3. (k * SlotDuration) \div SlotDuration = k
  <2>. DEFINE p == k * SlotDuration
  <2>1. p \in Nat /\ k * SlotDuration <= p /\ p < k * SlotDuration + SlotDuration
    BY <1>1, <1>2
  <2>. QED  BY <2>1, <1>1, Quotient
<1>. QED  BY <1>1, <1>2, <1>3 DEF SlotOf, Times, StartOf

\* The slot's beginning is of the same slot and of the same epoch.
LEMMA SlotBegins ==
    ASSUME NEW t \in Times
    PROVE  /\ SlotBegin(t) \in Times /\ SlotBegin(t) <= t
           /\ EpochOf(SlotBegin(t)) = EpochOf(t)
BY Slots, SlotStart DEF SlotBegin, EpochOf

\* Slots in the order of the time.
LEMMA SlotsGrow ==
    ASSUME NEW s \in Times, NEW t \in Times, s <= t
    PROVE  SlotOf(s) <= SlotOf(t)
<1>1. s - Genesis \in Nat /\ t - Genesis \in Nat /\ s - Genesis <= t - Genesis
      /\ SlotDuration \in Nat \ {0}
  BY ClockAssumption DEF Times
<1>. QED  BY <1>1, QuotientGrows DEF SlotOf

\* Neither does the epoch go back.
LEMMA EpochsGrow ==
    ASSUME NEW s \in Times, NEW t \in Times, s <= t
    PROVE  EpochOf(s) \in Nat /\ EpochOf(s) <= EpochOf(t)
<1>1. SlotOf(s) \in Nat /\ SlotOf(t) \in Nat /\ SlotOf(s) <= SlotOf(t)
  BY Slots, SlotsGrow
<1>2. SlotsPerEpoch \in Nat \ {0}
  BY ClockAssumption
<1>. QED  BY <1>1, <1>2, Division, QuotientGrows DEF EpochOf

\* An epoch begins in itself.
LEMMA EpochStart ==
    ASSUME NEW e \in Nat
    PROVE  EpochBegin(e) \in Times /\ EpochOf(EpochBegin(e)) = e
<1>1. SlotsPerEpoch \in Nat \ {0}
  BY ClockAssumption
<1>2. e * SlotsPerEpoch \in Nat
  BY <1>1
<1>3. (e * SlotsPerEpoch) \div SlotsPerEpoch = e
  <2>. DEFINE p == e * SlotsPerEpoch
  <2>1. p \in Nat /\ e * SlotsPerEpoch <= p /\ p < e * SlotsPerEpoch + SlotsPerEpoch
    BY <1>1, <1>2
  <2>. QED  BY <2>1, <1>1, Quotient
<1>. QED  BY <1>2, <1>3, SlotStart DEF EpochBegin, EpochOf

\* An epoch begins with or before each of its slots.
LEMMA EpochBegins ==
    ASSUME NEW t \in Times
    PROVE  EpochOf(t) \in Nat /\ EpochBegin(EpochOf(t)) <= SlotBegin(t)
<1>1. SlotsPerEpoch \in Nat \ {0} /\ SlotDuration \in Nat \ {0} /\ Genesis \in Nat
  BY ClockAssumption
<1>2. SlotOf(t) \in Nat
  BY Slots
<1>3. EpochOf(t) \in Nat /\ EpochOf(t) * SlotsPerEpoch <= SlotOf(t)
  BY <1>1, <1>2, Division DEF EpochOf
<1>4. EpochOf(t) * SlotsPerEpoch \in Nat
  BY <1>1, <1>3
<1>5. (EpochOf(t) * SlotsPerEpoch) * SlotDuration <= SlotOf(t) * SlotDuration
  BY <1>1, <1>2, <1>3, <1>4, Grows
<1>6. (EpochOf(t) * SlotsPerEpoch) * SlotDuration \in Nat /\ SlotOf(t) * SlotDuration \in Nat
  BY <1>1, <1>2, <1>4
<1>. QED  BY <1>1, <1>3, <1>5, <1>6 DEF EpochBegin, SlotBegin, StartOf

\* A time since the begin of the epoch of t is in that epoch.
LEMMA SameEpoch ==
    ASSUME NEW s \in Times, NEW t \in Times, s <= t, s >= EpochBegin(EpochOf(t))
    PROVE  EpochOf(s) = EpochOf(t)
<1>1. EpochOf(t) \in Nat /\ EpochOf(s) \in Nat /\ EpochOf(s) <= EpochOf(t)
  BY EpochsGrow, EpochBegins
<1>2. EpochBegin(EpochOf(t)) \in Times /\ EpochOf(EpochBegin(EpochOf(t))) = EpochOf(t)
  BY <1>1, EpochStart
<1>3. EpochOf(t) <= EpochOf(s)
  <2>. DEFINE b == EpochBegin(EpochOf(t))
  <2>1. b \in Times /\ b <= s /\ EpochOf(b) = EpochOf(t)
    BY <1>2 DEF Times
  <2>. HIDE DEF b
  <2>2. EpochOf(b) <= EpochOf(s)
    BY <2>1, EpochsGrow
  <2>. QED  BY <2>1, <2>2
<1>. QED  BY <1>1, <1>3

\* An older time that is at most MaxLag behind is of the epoch before, and t
\* is not in the handover window.
LEMMA LastEpoch ==
    ASSUME NEW s \in Times, NEW t \in Times, s < EpochBegin(EpochOf(t)), t - s <= MaxLag
    PROVE  EpochOf(s) + 1 = EpochOf(t) /\ ~InHandoverWindow(t)
<1>. DEFINE e == EpochOf(t)
            d == SlotsPerEpoch - HandoverSlots
            k == e * SlotsPerEpoch
<1>1. /\ SlotsPerEpoch \in Nat \ {0} /\ SlotDuration \in Nat \ {0} /\ Genesis \in Nat
      /\ d \in Nat /\ d <= SlotsPerEpoch
  BY ClockAssumption
<1>2. MaxLag \in Nat /\ MaxLag <= d * SlotDuration
  BY OperatorAssumption
<1>3. e \in Nat /\ SlotOf(t) \in Nat /\ k \in Nat /\ k <= SlotOf(t)
  BY <1>1, Slots, EpochBegins, Division DEF EpochOf
<1>4. StartOf(SlotOf(t)) <= t
  BY Slots
<1>5. ~(SlotOf(t) >= k + d)
  <2>. SUFFICES ASSUME SlotOf(t) >= k + d  PROVE FALSE
    OBVIOUS
  <2>1. (k + d) * SlotDuration <= SlotOf(t) * SlotDuration
    BY <1>1, <1>3, Grows
  <2>2. (k + d) * SlotDuration = k * SlotDuration + d * SlotDuration
    BY <1>1, <1>3
  <2>3. k * SlotDuration \in Nat /\ d * SlotDuration \in Nat /\ SlotOf(t) * SlotDuration \in Nat
    BY <1>1, <1>3
  <2>4. EpochBegin(e) = Genesis + k * SlotDuration
    BY DEF EpochBegin, StartOf
  <2>5. Genesis + SlotOf(t) * SlotDuration <= t
    BY <1>4 DEF StartOf
  <2>6. s < Genesis + k * SlotDuration /\ s \in Nat /\ t \in Nat
    BY <2>4 DEF Times
  <2>. HIDE DEF k, d, e
  <2>. QED  BY <2>1, <2>2, <2>3, <2>5, <2>6, <1>1, <1>2
<1>6. ~InHandoverWindow(t)
  <2>1. SlotOf(t) % SlotsPerEpoch = SlotOf(t) - k
    BY <1>1, <1>3, Remainder DEF EpochOf
  <2>. QED  BY <2>1, <1>1, <1>3, <1>5 DEF InHandoverWindow, SlotOfEpoch
<1>7. EpochOf(s) \in Nat /\ EpochOf(s) < e
  <2>1. s <= t
    BY <1>3, EpochStart, EpochBegins, SlotBegins DEF Times
  <2>2. EpochOf(s) \in Nat /\ EpochOf(s) <= e
    BY <2>1, EpochsGrow
  <2>3. EpochOf(s) # e
    <3>1. EpochBegin(EpochOf(s)) <= SlotBegin(s) /\ SlotBegin(s) <= s
      BY EpochBegins, SlotBegins
    <3>2. EpochBegin(EpochOf(s)) \in Nat /\ SlotBegin(s) \in Nat /\ s \in Nat
      BY <2>2, EpochStart, SlotBegins DEF Times
    <3>. QED  BY <3>1, <3>2
  <2>. QED  BY <2>2, <2>3, <1>3
<1>8. EpochOf(s) >= e - 1
  <2>1. e - 1 \in Nat
    BY <1>7, <1>3
  <2>2. EpochBegin(e - 1) <= s
    <3>1. k = (e - 1) * SlotsPerEpoch + SlotsPerEpoch
      BY <1>1, <1>3
    <3>. DEFINE j == (e - 1) * SlotsPerEpoch
    <3>2. j \in Nat /\ k = j + SlotsPerEpoch
      BY <2>1, <1>1, <3>1
    <3>3. k * SlotDuration = j * SlotDuration + SlotsPerEpoch * SlotDuration
      BY <3>2, <1>1
    <3>4. d * SlotDuration <= SlotsPerEpoch * SlotDuration
      BY <1>1, Grows
    <3>5. EpochBegin(e) <= t
      BY EpochBegins, SlotBegins, EpochStart, <1>3 DEF Times
    <3>6. EpochBegin(e) = Genesis + k * SlotDuration /\ EpochBegin(e - 1) = Genesis + j * SlotDuration
      BY DEF EpochBegin, StartOf
    <3>7. /\ j * SlotDuration \in Nat /\ k * SlotDuration \in Nat /\ d * SlotDuration \in Nat
          /\ SlotsPerEpoch * SlotDuration \in Nat /\ s \in Nat /\ t \in Nat
      BY <3>2, <1>1, <1>3 DEF Times
    <3>. HIDE DEF j, k, d, e
    <3>. QED  BY <3>3, <3>4, <3>5, <3>6, <3>7, <1>1, <1>2
  <2>3. EpochBegin(e - 1) \in Times /\ EpochOf(EpochBegin(e - 1)) = e - 1
    BY <2>1, EpochStart
  <2>. HIDE DEF e
  <2>. QED  BY <2>2, <2>3, EpochsGrow
<1>. QED  BY <1>3, <1>6, <1>7, <1>8

\* The slot of a time, by its bounds.
LEMMA SlotBounds ==
    ASSUME NEW t \in Times, NEW k \in Nat, StartOf(k) <= t, t < StartOf(k) + SlotDuration
    PROVE  SlotOf(t) = k
<1>1. /\ t - Genesis \in Nat /\ SlotDuration \in Nat \ {0} /\ Genesis \in Nat /\ t \in Nat
      /\ k * SlotDuration \in Nat
  BY ClockAssumption DEF Times
<1>2. k * SlotDuration <= t - Genesis /\ t - Genesis < k * SlotDuration + SlotDuration
  BY <1>1 DEF StartOf
<1>. QED  BY <1>1, <1>2, Quotient DEF SlotOf

\* A slot by its epoch and its place in it.
LEMMA SlotPlace ==
    ASSUME NEW t \in Times
    PROVE  /\ EpochOf(t) \in Nat /\ SlotOfEpoch(t) \in 0 .. SlotsPerEpoch - 1
           /\ SlotOf(t) = EpochOf(t) * SlotsPerEpoch + SlotOfEpoch(t)
<1>1. SlotsPerEpoch \in Nat \ {0} /\ SlotOf(t) \in Nat
  BY ClockAssumption, Slots
<1>2. /\ EpochOf(t) \in Nat /\ EpochOf(t) * SlotsPerEpoch <= SlotOf(t)
      /\ SlotOf(t) < EpochOf(t) * SlotsPerEpoch + SlotsPerEpoch
  BY <1>1, Division DEF EpochOf
<1>3. SlotOfEpoch(t) = SlotOf(t) - EpochOf(t) * SlotsPerEpoch
  BY <1>1, Remainder DEF SlotOfEpoch, EpochOf
<1>4. EpochOf(t) * SlotsPerEpoch \in Nat
  BY <1>1, <1>2
<1>. QED  BY <1>1, <1>2, <1>3, <1>4

\* A slot of epoch e is in that epoch, at its place.
LEMMA PlaceOfSlot ==
    ASSUME NEW t \in Times, NEW e \in Nat, NEW m \in 0 .. SlotsPerEpoch - 1,
           SlotOf(t) = e * SlotsPerEpoch + m
    PROVE  EpochOf(t) = e /\ SlotOfEpoch(t) = m
<1>1. SlotsPerEpoch \in Nat \ {0} /\ SlotOf(t) \in Nat /\ e * SlotsPerEpoch \in Nat /\ m \in Nat
  BY ClockAssumption, Slots
<1>2. e * SlotsPerEpoch <= SlotOf(t) /\ SlotOf(t) < e * SlotsPerEpoch + SlotsPerEpoch
  BY <1>1
<1>3. EpochOf(t) = e
  BY <1>1, <1>2, Quotient DEF EpochOf
<1>4. SlotOf(t) = e * SlotsPerEpoch + SlotOfEpoch(t) /\ SlotOfEpoch(t) \in Nat
  BY <1>3, SlotPlace
<1>5. SlotOfEpoch(t) = m
  BY <1>1, <1>4
<1>. QED  BY <1>3, <1>5

\* The last heartbeat of an epoch is in the handover window, and the buffer
\* is over.
LEMMA EpochEnds ==
    ASSUME HandoverFits, NEW s \in Times, NEW t \in Times, t = s + Heartbeat,
           EpochOf(s) # EpochOf(t)
    PROVE  InHandoverWindow(s) /\ TimeFromWindow(s) > HandoverBuffer
<1> DEFINE e == EpochOf(s)
           k == SlotOf(s)
           p == e * SlotsPerEpoch
<1>1. /\ SlotDuration \in Nat \ {0} /\ Heartbeat \in Nat \ {0} /\ Heartbeat <= SlotDuration
      /\ SlotsPerEpoch \in Nat \ {0} /\ Genesis \in Nat /\ HandoverBuffer \in Nat
      /\ HandoverSlots \in Nat /\ HandoverSlots < SlotsPerEpoch
  <2>1. /\ SlotDuration \in Nat \ {0} /\ Heartbeat \in Nat \ {0} /\ SlotDuration % Heartbeat = 0
    BY ClockAssumption
  <2>2. Heartbeat <= SlotDuration
    BY <2>1
  <2>. QED  BY <2>1, <2>2, ClockAssumption, OperatorAssumption
<1>2. HandoverBuffer + Heartbeat < HandoverSlots * SlotDuration /\ HandoverSlots # 0
      /\ HandoverSlots * SlotDuration \in Nat
  BY <1>1 DEF HandoverFits
<1>3. e \in Nat /\ p \in Nat /\ k \in Nat /\ k < p + SlotsPerEpoch /\ p <= k
      /\ SlotOfEpoch(s) = k - p
  BY <1>1, SlotPlace
<1>4. SlotOf(t) \in Nat /\ SlotOf(t) >= p + SlotsPerEpoch
  <2>1. EpochOf(t) \in Nat /\ e < EpochOf(t) /\ EpochOf(t) * SlotsPerEpoch <= SlotOf(t)
        /\ SlotOf(t) \in Nat
    <3>1. e <= EpochOf(t) /\ EpochOf(t) \in Nat
      BY <1>1, EpochsGrow DEF Times
    <3>2. SlotOf(t) = EpochOf(t) * SlotsPerEpoch + SlotOfEpoch(t) /\ SlotOfEpoch(t) \in Nat
          /\ EpochOf(t) * SlotsPerEpoch \in Nat
      BY <1>1, <3>1, SlotPlace
    <3>. QED  BY <1>3, <3>1, <3>2
  <2>2. (e + 1) * SlotsPerEpoch <= EpochOf(t) * SlotsPerEpoch
    BY <1>1, <1>3, <2>1, Grows
  <2>3. (e + 1) * SlotsPerEpoch = p + SlotsPerEpoch
    BY <1>1, <1>3
  <2>4. EpochOf(t) * SlotsPerEpoch \in Nat
    BY <1>1, <2>1
  <2> HIDE DEF p, e
  <2>. QED  BY <1>1, <1>3, <2>1, <2>2, <2>3, <2>4
<1> DEFINE b == (p + SlotsPerEpoch) * SlotDuration
<1>5. b \in Nat /\ Genesis + b <= t /\ s \in Nat /\ t \in Nat
  <2>1. StartOf(SlotOf(t)) <= t /\ t \in Nat /\ s \in Nat
    BY Slots DEF Times
  <2>2. b \in Nat /\ b <= SlotOf(t) * SlotDuration /\ SlotOf(t) * SlotDuration \in Nat
    BY <1>1, <1>3, <1>4, Grows
  <2> HIDE DEF b
  <2>. QED  BY <1>1, <2>1, <2>2 DEF StartOf
<1>6. k = p + SlotsPerEpoch - 1
  <2> SUFFICES ASSUME k + 1 < p + SlotsPerEpoch PROVE FALSE
    BY <1>1, <1>3
  <2>1. s < Genesis + k * SlotDuration + SlotDuration /\ k * SlotDuration \in Nat
    BY <1>1, <1>3, Slots DEF StartOf
  <2>2. (k + 2) * SlotDuration <= b
    BY <1>1, <1>3, Grows
  <2>3. (k + 2) * SlotDuration = k * SlotDuration + SlotDuration + SlotDuration
    BY <1>1, <1>3
  <2> HIDE DEF b, k, p
  <2>. QED  BY <1>1, <1>5, <2>1, <2>2, <2>3
<1>7. InHandoverWindow(s)
  <2> HIDE DEF k, p
  <2>. QED  BY <1>1, <1>2, <1>3, <1>6 DEF InHandoverWindow
<1>8. TimeFromWindow(s) > HandoverBuffer
  <2> DEFINE w == (SlotsPerEpoch - HandoverSlots + p) * SlotDuration
  <2>1. w + HandoverSlots * SlotDuration = b /\ w \in Nat
    BY <1>1, <1>3
  <2>2. TimeFromWindow(s) = s - (Genesis + w)
    BY DEF TimeFromWindow, StartOf
  <2> HIDE DEF w, b
  <2>. QED  BY <1>1, <1>2, <1>5, <2>1, <2>2
<1>. QED  BY <1>7, <1>8

\* A heartbeat is a number of heartbeats after genesis.
Beats == {t \in Times : \E k \in Nat : t = Genesis + k * Heartbeat}

\* The slots of two heartbeats in a row: the second one is of the next slot if
\* the first is the last one of its slot.
LEMMA NextBeat ==
    ASSUME NEW s \in Beats, NEW t, t = s + Heartbeat
    PROVE  /\ t \in Beats
           /\ \/ SlotOf(t) = SlotOf(s) /\ L2SlotWithinL1(s) + 1 # L2SlotsPerL1
              \/ SlotOf(t) = SlotOf(s) + 1 /\ L2SlotWithinL1(s) + 1 = L2SlotsPerL1
<1> DEFINE q == L2SlotsPerL1
           c == SlotOf(s)
<1>1. /\ SlotDuration \in Nat \ {0} /\ Heartbeat \in Nat \ {0} /\ SlotDuration % Heartbeat = 0
      /\ Genesis \in Nat /\ s \in Times
  BY ClockAssumption DEF Beats
<1>2. q \in Nat \ {0} /\ SlotDuration = q * Heartbeat
  <2>1. q \in Nat /\ SlotDuration % Heartbeat = SlotDuration - q * Heartbeat
    BY <1>1, Remainder, Division DEF L2SlotsPerL1
  <2>2. q * Heartbeat \in Nat
    BY <1>1, <2>1
  <2> HIDE DEF q
  <2>3. SlotDuration = q * Heartbeat
    BY <1>1, <2>1, <2>2
  <2>. QED  BY <1>1, <2>1, <2>3
<1>3. PICK k \in Nat : s = Genesis + k * Heartbeat
  BY DEF Beats
<1>4. c \in Nat /\ c * SlotDuration <= k * Heartbeat /\ k * Heartbeat < c * SlotDuration + SlotDuration
  <2>1. c \in Nat /\ StartOf(c) <= s /\ s < StartOf(c) + SlotDuration
    BY <1>1, Slots
  <2>2. c * SlotDuration \in Nat /\ k * Heartbeat \in Nat
    BY <1>1, <2>1
  <2> HIDE DEF c
  <2>. QED  BY <1>1, <1>3, <2>1, <2>2 DEF StartOf
<1> DEFINE m == c * q
<1> HIDE DEF q, c
<1>5. m \in Nat /\ c * SlotDuration = m * Heartbeat
  <2>1. m \in Nat
    BY <1>2, <1>4
  <2>2. c * (q * Heartbeat) = (c * q) * Heartbeat
    BY <1>1, <1>2, <1>4, Regroup
  <2>. QED  BY <1>2, <2>1, <2>2
<1> HIDE DEF m
<1>6. m <= k /\ k < m + q
  <2>1. m * Heartbeat <= k * Heartbeat /\ k * Heartbeat < m * Heartbeat + q * Heartbeat
    BY <1>2, <1>4, <1>5
  <2>2. m <= k
    <3> SUFFICES ASSUME k + 1 <= m PROVE FALSE
      BY <1>5
    <3>1. (k + 1) * Heartbeat <= m * Heartbeat
      BY <1>1, <1>5, Grows
    <3>2. (k + 1) * Heartbeat = k * Heartbeat + Heartbeat
      BY <1>1
    <3>3. k * Heartbeat \in Nat /\ m * Heartbeat \in Nat
      BY <1>1, <1>5
    <3>. QED  BY <1>1, <2>1, <3>1, <3>2, <3>3
  <2>3. k < m + q
    <3> SUFFICES ASSUME m + q <= k PROVE FALSE
      BY <1>2, <1>5
    <3>1. (m + q) * Heartbeat <= k * Heartbeat
      BY <1>1, <1>2, <1>5, Grows
    <3>2. (m + q) * Heartbeat = m * Heartbeat + q * Heartbeat
      BY <1>1, <1>2, <1>5
    <3>3. k * Heartbeat \in Nat /\ m * Heartbeat \in Nat /\ q * Heartbeat \in Nat
      BY <1>1, <1>2, <1>5
    <3>. QED  BY <2>1, <3>1, <3>2, <3>3
  <2>. QED  BY <2>2, <2>3
<1>7. L2SlotWithinL1(s) = k - m
  <2>1. s - SlotBegin(s) = k * Heartbeat - m * Heartbeat
    <3>1. k * Heartbeat \in Nat /\ m * Heartbeat \in Nat
      BY <1>1, <1>5
    <3>2. SlotBegin(s) = Genesis + m * Heartbeat
      BY <1>5 DEF SlotBegin, StartOf, c
    <3>. QED  BY <1>1, <1>3, <3>1, <3>2
  <2> DEFINE j == k - m
             x == j * Heartbeat
  <2>2. j \in Nat /\ x \in Nat /\ k * Heartbeat - m * Heartbeat = x
    BY <1>1, <1>5, <1>6
  <2>3. j * Heartbeat <= x /\ x < j * Heartbeat + Heartbeat
    BY <1>1, <2>2
  <2> HIDE DEF j, x
  <2>4. x \div Heartbeat = j
    BY <1>1, <2>2, <2>3, Quotient
  <2>. QED  BY <2>1, <2>2, <2>4 DEF L2SlotWithinL1, j
<1>8. t = Genesis + (k + 1) * Heartbeat /\ t \in Times /\ t \in Beats
  <2>1. (k + 1) * Heartbeat = k * Heartbeat + Heartbeat /\ k * Heartbeat \in Nat
    BY <1>1
  <2>2. t = Genesis + (k + 1) * Heartbeat /\ t \in Times
    BY <1>1, <1>3, <2>1 DEF Times
  <2>. QED  BY <2>2 DEF Beats
<1> DEFINE y == (k + 1) * Heartbeat
<1>9. y \in Nat /\ t = Genesis + y
  BY <1>1, <1>8
<1>10. CASE k + 1 < m + q
  <2>1. m * Heartbeat <= y
    BY <1>1, <1>5, <1>6, Grows
  <2>2. y < m * Heartbeat + SlotDuration
    <3>1. (k + 2) * Heartbeat <= (m + q) * Heartbeat
      BY <1>1, <1>2, <1>5, <1>10, Grows
    <3>2. (k + 2) * Heartbeat = y + Heartbeat /\ (m + q) * Heartbeat = m * Heartbeat + SlotDuration
      BY <1>1, <1>2, <1>5
    <3>3. m * Heartbeat \in Nat
      BY <1>1, <1>5
    <3> HIDE DEF y
    <3>. QED  BY <1>1, <1>9, <3>1, <3>2, <3>3
  <2>3. StartOf(c) = Genesis + m * Heartbeat /\ m * Heartbeat \in Nat
    BY <1>1, <1>5 DEF StartOf
  <2> HIDE DEF y
  <2>4. StartOf(c) <= t /\ t < StartOf(c) + SlotDuration
    BY <1>1, <1>9, <2>1, <2>2, <2>3
  <2>5. SlotOf(t) = c
    BY <1>4, <1>8, <2>4, SlotBounds
  <2>. QED  BY <1>2, <1>5, <1>6, <1>7, <1>8, <1>10, <2>5 DEF q, c
<1>11. CASE k + 1 = m + q
  <2>1. y = m * Heartbeat + SlotDuration
    BY <1>1, <1>2, <1>5, <1>11
  <2>2. (c + 1) * SlotDuration = c * SlotDuration + SlotDuration /\ c * SlotDuration \in Nat
    BY <1>1, <1>4
  <2> HIDE DEF y
  <2>3. StartOf(c + 1) = t
    BY <1>5, <1>9, <2>1, <2>2 DEF StartOf
  <2>4. SlotOf(t) = c + 1
    BY <1>4, <2>3, SlotStart
  <2>. QED  BY <1>2, <1>5, <1>6, <1>7, <1>8, <1>11, <2>4 DEF q, c
<1>. QED  BY <1>2, <1>5, <1>6, <1>10, <1>11

\* The heartbeat before the handover window (is_l2_slot_before_handover_window).
LEMMA WindowBegins ==
    ASSUME HandoverSlots # 0, NEW s \in Beats, NEW t, t = s + Heartbeat
    PROVE  /\ IsBeforeWindow(s) => InHandoverWindow(t) /\ ~InHandoverWindow(s)
           /\ InHandoverWindow(t) => /\ EpochOf(s) = EpochOf(t)
                                     /\ InHandoverWindow(s) \/ IsBeforeWindow(s)
<1> DEFINE m == SlotOfEpoch(s)
           e == EpochOf(s)
           d == SlotsPerEpoch - HandoverSlots
<1>1. /\ SlotsPerEpoch \in Nat \ {0} /\ HandoverSlots \in Nat \ {0} /\ d \in Nat \ {0}
      /\ d < SlotsPerEpoch /\ s \in Times /\ t \in Times /\ t \in Beats
  <2>1. t \in Beats
    BY NextBeat
  <2>2. s \in Times /\ t \in Times
    BY <2>1 DEF Beats
  <2>3. /\ SlotsPerEpoch \in Nat \ {0} /\ HandoverSlots \in Nat \ {0} /\ d \in Nat \ {0}
        /\ d < SlotsPerEpoch
    BY ClockAssumption
  <2>. QED  BY <2>1, <2>2, <2>3
<1>2. e \in Nat /\ m \in 0 .. SlotsPerEpoch - 1 /\ SlotOf(s) = e * SlotsPerEpoch + m
      /\ e * SlotsPerEpoch \in Nat
  BY <1>1, SlotPlace
<1>3. \/ SlotOf(t) = SlotOf(s) /\ L2SlotWithinL1(s) + 1 # L2SlotsPerL1
      \/ SlotOf(t) = SlotOf(s) + 1 /\ L2SlotWithinL1(s) + 1 = L2SlotsPerL1
  BY NextBeat
<1>4. /\ InHandoverWindow(s) <=> m >= d
      /\ IsBeforeWindow(s) <=> m = d - 1 /\ L2SlotWithinL1(s) + 1 = L2SlotsPerL1
      /\ InHandoverWindow(t) <=> SlotOfEpoch(t) >= d
  BY <1>1, <1>2 DEF InHandoverWindow, IsBeforeWindow
<1> HIDE DEF m, e, d
<1>5. CASE SlotOf(t) = SlotOf(s) /\ L2SlotWithinL1(s) + 1 # L2SlotsPerL1
  <2>1. EpochOf(t) = e /\ SlotOfEpoch(t) = m
    BY <1>1, <1>2, <1>5, PlaceOfSlot
  <2>. QED  BY <1>4, <1>5, <2>1 DEF e
<1>6. CASE SlotOf(t) = SlotOf(s) + 1 /\ L2SlotWithinL1(s) + 1 = L2SlotsPerL1
  <2>1. CASE m + 1 < SlotsPerEpoch
    <3>1. m + 1 \in 0 .. SlotsPerEpoch - 1 /\ SlotOf(t) = e * SlotsPerEpoch + (m + 1)
      BY <1>1, <1>2, <1>6, <2>1
    <3>2. EpochOf(t) = e /\ SlotOfEpoch(t) = m + 1
      BY <1>1, <1>2, <3>1, PlaceOfSlot
    <3>. QED  BY <1>1, <1>2, <1>4, <1>6, <3>2 DEF e
  <2>2. CASE m + 1 = SlotsPerEpoch
    <3>1. 0 \in 0 .. SlotsPerEpoch - 1 /\ e + 1 \in Nat /\ SlotOf(t) = (e + 1) * SlotsPerEpoch + 0
      BY <1>1, <1>2, <1>6, <2>2
    <3>2. SlotOfEpoch(t) = 0
      BY <1>1, <3>1, PlaceOfSlot
    <3>. QED  BY <1>1, <1>2, <1>4, <2>2, <3>2
  <2>. QED  BY <1>1, <1>2, <2>1, <2>2
<1>. QED  BY <1>3, <1>5, <1>6

\* An entry of the epoch before is too old in the heartbeat before the window.
LEMMA NotBefore ==
    ASSUME MaxLag < (SlotsPerEpoch - HandoverSlots) * SlotDuration,
           NEW c \in Times, SlotBegin(c) = c, NEW t \in Beats,
           c < EpochBegin(EpochOf(t)), t - c <= MaxLag
    PROVE  ~IsBeforeWindow(t)
<1> SUFFICES ASSUME IsBeforeWindow(t) PROVE FALSE
  OBVIOUS
<1> DEFINE e == EpochOf(t)
           d == SlotsPerEpoch - HandoverSlots
           p == e * SlotsPerEpoch
           k == SlotOf(c)
<1>1. /\ SlotsPerEpoch \in Nat \ {0} /\ d \in Nat \ {0} /\ SlotDuration \in Nat \ {0}
      /\ Heartbeat \in Nat /\ Genesis \in Nat /\ t \in Times /\ t \in Nat /\ c \in Nat
      /\ MaxLag \in Nat /\ d * SlotDuration \in Nat
  BY ClockAssumption, OperatorAssumption DEF Beats, Times
<1>2. e \in Nat /\ p \in Nat /\ SlotOf(t) = p + (d - 1)
  BY <1>1, SlotPlace DEF IsBeforeWindow
<1>3. SlotOf(t + Heartbeat) = SlotOf(t) + 1 /\ t + Heartbeat \in Times
  BY <1>1, NextBeat DEF IsBeforeWindow, Beats
<1>4. (p + d) * SlotDuration <= t + Heartbeat - Genesis
  <2>1. StartOf(SlotOf(t + Heartbeat)) <= t + Heartbeat
    BY <1>3, Slots
  <2>2. SlotOf(t + Heartbeat) = p + d
    BY <1>1, <1>2, <1>3
  <2>3. (p + d) * SlotDuration \in Nat
    BY <1>1, <1>2
  <2> HIDE DEF p, d, e
  <2>. QED  BY <1>1, <2>1, <2>2, <2>3 DEF StartOf
<1>5. k \in Nat /\ c = Genesis + k * SlotDuration /\ k * SlotDuration \in Nat
  BY <1>1, Slots DEF SlotBegin, StartOf
<1>6. k < p
  <2> SUFFICES ASSUME p <= k PROVE FALSE
    BY <1>2, <1>5
  <2>1. p * SlotDuration <= k * SlotDuration /\ p * SlotDuration \in Nat
    BY <1>1, <1>2, <1>5, Grows
  <2>2. EpochBegin(e) = Genesis + p * SlotDuration
    BY DEF EpochBegin, StartOf
  <2> HIDE DEF k, p, e
  <2>. QED  BY <1>1, <1>5, <2>1, <2>2 DEF e
<1>7. (k + 1) * SlotDuration <= p * SlotDuration
  BY <1>1, <1>2, <1>5, <1>6, Grows
<1>8. /\ (k + 1) * SlotDuration = k * SlotDuration + SlotDuration /\ p * SlotDuration \in Nat
      /\ (p + d) * SlotDuration = p * SlotDuration + d * SlotDuration
  BY <1>1, <1>2, <1>5
<1>9. Heartbeat <= SlotDuration
  <2>1. SlotDuration \in Nat \ {0} /\ Heartbeat \in Nat \ {0} /\ SlotDuration % Heartbeat = 0
    BY ClockAssumption
  <2>. QED  BY <2>1
<1>10. MaxLag < d * SlotDuration
  OBVIOUS
<1> HIDE DEF k, p, e, d
<1>. QED  BY <1>1, <1>4, <1>5, <1>7, <1>8, <1>9, <1>10

-----------------------------------------------------------------------------
(* The types.                                                              *)

Entry == [ts : Int, current : Operators, next : Operators]
OperatorState ==
    [next : BOOLEAN, continuing : BOOLEAN, wasSynced : BOOLEAN, cancel : Nat, current : Operators,
     ejected : Int]
StatusType == [preconfer : BOOLEAN, submitter : BOOLEAN, started : BOOLEAN, eos : BOOLEAN]

Types ==
    /\ now \in Beats /\ now <= MaxTime
    /\ schedule \in [Epochs -> Nodes]
    /\ cache \in [Nodes -> Entry]
    /\ op \in [Nodes -> OperatorState]
    /\ status \in [Nodes -> StatusType]
    /\ ready \subseteq Nodes
    /\ scenario \in Scenarios

\* The schedule has this epoch and the next one.
LEMMA Scheduled ==
    ASSUME Types
    PROVE  /\ now \in Times /\ EpochOf(now) \in Nat
           /\ schedule[EpochOf(now)] \in Nodes /\ schedule[EpochOf(now) + 1] \in Nodes
<1>1. now \in Times /\ now <= MaxTime /\ MaxTime \in Times
  BY OperatorAssumption DEF Types, Beats, Times
<1>2. EpochOf(now) \in Nat /\ EpochOf(now) <= EpochOf(MaxTime) /\ EpochOf(MaxTime) \in Nat
  BY <1>1, EpochsGrow, EpochBegins
<1>3. EpochOf(now) \in Epochs /\ EpochOf(now) + 1 \in Epochs
  BY <1>2 DEF Epochs
<1>. QED  BY <1>1, <1>2, <1>3 DEF Types

\* get_operators_for_current_and_next_epoch
LEMMA Reads ==
    ASSUME Types, NEW n \in Nodes, NEW behind \in BOOLEAN
    PROVE  /\ Whitelist \in Entry /\ ReadOperators(n, behind) \in Entry
           /\ Whitelist.ts = SlotBegin(now) /\ Whitelist.current = schedule[EpochOf(now)]
           /\ Whitelist.next = schedule[EpochOf(now) + 1]
<1>1. SlotBegin(now) \in Int
  BY Scheduled, SlotBegins DEF Times
<1>2. schedule[EpochOf(now)] \in Operators /\ schedule[EpochOf(now) + 1] \in Operators
  BY Scheduled DEF Operators
<1>3. Whitelist \in Entry
  BY <1>1, <1>2 DEF Whitelist, Entry
<1>4. cache[n] \in Entry
  BY DEF Types
<1>5. ReadOperators(n, behind) \in Entry
  BY <1>3, <1>4 DEF ReadOperators
<1>. QED  BY <1>3, <1>5 DEF Whitelist

\* is_current_operator: an entry of an earlier epoch changes nothing, and one
\* of this epoch decides, but for the grace period.
Decided(n, o, c, q, u) ==
    LET w == WithinGrace(HandleOperatorChange(n, o, c))
    IN  /\ q \in OperatorState /\ u \in BOOLEAN /\ q.cancel = o.cancel
        /\ c.ts < EpochBegin(EpochOf(now)) => q = o /\ u = o.next
        /\ ~(c.ts < EpochBegin(EpochOf(now))) =>
            /\ u = (c.current = n /\ ~w) /\ q.next = (c.next = n /\ ~w)
            /\ q.continuing = (c.current = n /\ c.next = n /\ ~w)
            /\ q.current = c.current /\ q.wasSynced = o.wasSynced
            /\ q.ejected = IF w THEN HandleOperatorChange(n, o, c).ejected ELSE None

\* What is_current_operator returns.
LEMMA Decides ==
    ASSUME now \in Times, NEW n, NEW o \in OperatorState, NEW c \in Entry,
           NEW r, r = IsCurrentOperator(n, o, c)
    PROVE  Decided(n, o, c, r.op, r.current)
<1>. DEFINE g == HandleOperatorChange(n, o, c)
            w == WithinGrace(g)
<1>1. SlotBegin(now) \in Int /\ None \in Int
  BY SlotBegins DEF Times, None
<1>2. /\ g \in OperatorState /\ g.current = c.current /\ g.wasSynced = o.wasSynced
      /\ g.cancel = o.cancel
  BY <1>1 DEF HandleOperatorChange, OperatorState, Entry
<1>2a. w \in BOOLEAN
  BY DEF WithinGrace
<1>. HIDE DEF g
<1>3. CASE c.ts < EpochBegin(EpochOf(now))
  <2>1. r = [op |-> o, current |-> o.next]
    BY <1>3 DEF IsCurrentOperator
  <2>2. r.op = o /\ r.current = o.next /\ o.next \in BOOLEAN
    BY <2>1 DEF OperatorState
  <2>. QED  BY <1>3, <2>2 DEF Decided
<1>4. CASE ~(c.ts < EpochBegin(EpochOf(now))) /\ w
  <2>1. r = [op |-> [g EXCEPT !.next = FALSE, !.continuing = FALSE], current |-> FALSE]
    BY <1>4 DEF IsCurrentOperator, g
  <2>2. /\ r.op \in OperatorState /\ r.op.next = FALSE /\ r.op.continuing = FALSE
        /\ r.current = FALSE /\ r.op.current = c.current /\ r.op.wasSynced = o.wasSynced
        /\ r.op.ejected = g.ejected /\ r.op.cancel = o.cancel
    <3>1. r.op = [g EXCEPT !.next = FALSE, !.continuing = FALSE] /\ r.current = FALSE
      BY <2>1
    <3>. QED  BY <3>1, <1>2 DEF OperatorState
  <2> HIDE DEF w
  <2>. QED  BY <2>2, <1>4 DEF Decided, w, g
<1>5. CASE ~(c.ts < EpochBegin(EpochOf(now))) /\ ~w
  <2>1. r = [op |-> [g EXCEPT !.ejected = None, !.next = (c.next = n),
                              !.continuing = (c.current = n /\ c.next = n)],
             current |-> (c.current = n)]
    BY <1>5 DEF IsCurrentOperator, g
  <2>. DEFINE x == c.next = n
              y == c.current = n /\ c.next = n
  <2>2. x \in BOOLEAN /\ y \in BOOLEAN
    OBVIOUS
  <2>3. r.op = [g EXCEPT !.ejected = None, !.next = x, !.continuing = y] /\ r.current = (c.current = n)
    BY <2>1
  <2>4. /\ r.op \in OperatorState /\ r.op.next = x /\ r.op.continuing = y /\ r.op.ejected = None
        /\ r.op.current = c.current /\ r.op.wasSynced = o.wasSynced /\ r.op.cancel = o.cancel
    <3>. HIDE DEF x, y
    <3>. QED  BY <2>2, <2>3, <1>1, <1>2 DEF OperatorState
  <2> HIDE DEF w
  <2>. QED  BY <2>3, <2>4, <1>5 DEF Decided, w, g
<1>. QED  BY <1>2a, <1>3, <1>4, <1>5

\* There is no grace period for a node that preconfirms, or that was told of
\* the operator before (handle_operator_change).
LEMMA NoGrace ==
    ASSUME NEW n, NEW o \in OperatorState, NEW c \in Entry, o.ejected = None,
           o.wasSynced \/ c.current = o.current \/ c.current # n \/ o.current = Zero
    PROVE  ~WithinGrace(HandleOperatorChange(n, o, c))
<1>1. HandleOperatorChange(n, o, c).ejected = None
  BY DEF HandleOperatorChange, OperatorState
<1>. QED  BY <1>1 DEF WithinGrace

\* The rest of get_status.
Derived(o, current, synced, marker, v, s) ==
    LET p == IsPreconfer(o, current, marker)
    IN  /\ v \in OperatorState /\ v.next = o.next /\ v.continuing = o.continuing
        /\ v.current = o.current /\ v.ejected = o.ejected
        /\ v.wasSynced = (p /\ (o.wasSynced \/ synced))
        /\ synced => v.cancel = 0
        /\ s \in StatusType
        /\ s.submitter = current /\ s.preconfer = p
        /\ s.eos = IsEndOfSequencing(o, p, current)
        /\ p => IF InHandoverWindow(now) THEN o.next ELSE current

\* What the rest of get_status returns.
LEMMA Derives ==
    ASSUME NEW o \in OperatorState, NEW current \in BOOLEAN,
           NEW synced \in BOOLEAN, NEW marker \in BOOLEAN,
           NEW d, d = Derive(o, current, synced, marker)
    PROVE  Derived(o, current, synced, marker, d.op, d.status)
<1>. DEFINE p == IsPreconfer(o, current, marker)
            t == ~o.wasSynced /\ p /\ synced
            e == IsEndOfSequencing(o, p, current)
<1>1. p \in BOOLEAN /\ (p => IF InHandoverWindow(now) THEN o.next ELSE current)
  BY DEF IsPreconfer, OperatorState
<1>2. t \in BOOLEAN /\ e \in BOOLEAN
  BY DEF IsEndOfSequencing
<1>3. d = [op |-> [o EXCEPT !.wasSynced = p /\ (o.wasSynced \/ t),
                            !.cancel = IF synced THEN 0 ELSE o.cancel + 1],
           status |-> [preconfer |-> p, submitter |-> current, started |-> t, eos |-> e]]
  BY DEF Derive
<1>3a. (p /\ (o.wasSynced \/ t)) = (p /\ (o.wasSynced \/ synced))
  OBVIOUS
<1>. HIDE DEF p, t, e
<1>4. d.status = [preconfer |-> p, submitter |-> current, started |-> t, eos |-> e]
  BY <1>3
<1>5. d.op = [o EXCEPT !.wasSynced = p /\ (o.wasSynced \/ t),
                       !.cancel = IF synced THEN 0 ELSE o.cancel + 1]
  BY <1>3
<1>6. /\ d.op \in OperatorState /\ d.op.next = o.next /\ d.op.continuing = o.continuing
      /\ d.op.current = o.current /\ d.op.ejected = o.ejected
      /\ d.op.wasSynced = (p /\ (o.wasSynced \/ synced))
      /\ synced => d.op.cancel = 0
  <2>. DEFINE w == p /\ (o.wasSynced \/ t)
              k == IF synced THEN 0 ELSE o.cancel + 1
  <2>1. w \in BOOLEAN
    BY <1>1, <1>2
  <2>2. k \in Nat /\ (synced => k = 0)
    BY DEF OperatorState
  <2>3. d.op = [o EXCEPT !.wasSynced = w, !.cancel = k]
    BY <1>5
  <2>3a. w = (p /\ (o.wasSynced \/ synced))
    BY <1>3a
  <2>. HIDE DEF w, k
  <2>4. /\ d.op \in OperatorState /\ d.op.next = o.next /\ d.op.continuing = o.continuing
        /\ d.op.current = o.current /\ d.op.ejected = o.ejected
        /\ d.op.wasSynced = w /\ d.op.cancel = k
    BY <2>1, <2>2, <2>3 DEF OperatorState
  <2>. QED  BY <2>2, <2>3a, <2>4
<1>7. /\ d.status \in StatusType /\ d.status.submitter = current /\ d.status.preconfer = p
      /\ d.status.eos = e
  BY <1>4, <1>1, <1>2 DEF StatusType
<1>. QED  BY <1>1, <1>6, <1>7 DEF Derived, e, p

\* The state of a process that has just started (Operator::new).
LEMMA New ==
    /\ NoCache \in Entry /\ NoCache.ts = None
    /\ NewOperator \in OperatorState /\ ~NewOperator.next /\ NewOperator.current = Zero
    /\ NewOperator.ejected = None /\ NewOperator.cancel = 0
    /\ NoStatus \in StatusType /\ ~NoStatus.preconfer /\ ~NoStatus.submitter /\ ~NoStatus.eos
BY DEF NoCache, Entry, NewOperator, OperatorState, NoStatus, StatusType, Operators, None

\* A heartbeat (get_status), also one that ends with a restart because the
\* driver has not been synced for too long: what it reads, decides and stores.
Beat(n, behind, synced, marker, c, q, u, v, s) ==
    /\ n \in ready /\ (behind => MayBeBehind(n)) /\ IsDriverSynced(synced)
    /\ c = ReadOperators(n, behind) /\ Decided(n, op[n], c, q, u)
    /\ Derived(q, u, synced, marker, v, s)
    /\ cache' = [cache EXCEPT ![n] = c]
    /\ op' = [op EXCEPT ![n] = IF Cancels(v) THEN NewOperator ELSE v]
    /\ status' = [status EXCEPT ![n] = s] /\ ready' = ready \ {n}
    /\ UNCHANGED <<now, schedule, scenario>>

\* Every heartbeat is one.
LEMMA Heartbeats ==
    ASSUME Types, NEW n \in Nodes,
           NEW behind \in BOOLEAN, NEW synced \in BOOLEAN, NEW marker \in BOOLEAN,
           NEW built \in BOOLEAN, GetStatus(n, behind, synced, marker, built)
    PROVE  \E c \in Entry, q \in OperatorState, u \in BOOLEAN, v \in OperatorState, s \in StatusType :
            Beat(n, behind, synced, marker, c, q, u, v, s)
<1>1. PICK c : c = ReadOperators(n, behind)
  OBVIOUS
<1>2. PICK r : r = IsCurrentOperator(n, op[n], c)
  OBVIOUS
<1>3. PICK d : d = Derive(r.op, r.current, synced, marker)
  OBVIOUS
<1>4. /\ n \in ready /\ (behind => MayBeBehind(n)) /\ IsDriverSynced(synced)
      /\ cache' = [cache EXCEPT ![n] = c]
      /\ op' = [op EXCEPT ![n] = IF Cancels(d.op) THEN NewOperator ELSE d.op]
      /\ status' = [status EXCEPT ![n] = d.status] /\ ready' = ready \ {n}
      /\ UNCHANGED <<now, schedule, scenario>>
  BY <1>1, <1>2, <1>3 DEF GetStatus
<1>5. c \in Entry /\ now \in Times /\ op[n] \in OperatorState
  BY <1>1, Reads, Scheduled DEF Types
<1>6. Decided(n, op[n], c, r.op, r.current)
  BY <1>2, <1>5, Decides
<1>7. r.op \in OperatorState /\ r.current \in BOOLEAN
  BY <1>6 DEF Decided
<1>8. Derived(r.op, r.current, synced, marker, d.op, d.status)
  BY <1>3, <1>7, Derives
<1>9. d.op \in OperatorState /\ d.status \in StatusType
  BY <1>8 DEF Derived
<1>10. Beat(n, behind, synced, marker, c, r.op, r.current, d.op, d.status)
  BY <1>1, <1>4, <1>6, <1>8 DEF Beat
<1>. QED  BY <1>5, <1>7, <1>9, <1>10

\* A heartbeat that fails after the operator has been checked.
Failure(n, behind, c, q, u) ==
    /\ n \in ready /\ (behind => MayBeBehind(n)) /\ "driver" \in scenario
    /\ c = ReadOperators(n, behind) /\ Decided(n, op[n], c, q, u)
    /\ cache' = [cache EXCEPT ![n] = c] /\ op' = [op EXCEPT ![n] = q]
    /\ status' = [status EXCEPT ![n] = NoStatus] /\ ready' = ready \ {n}
    /\ UNCHANGED <<now, schedule, scenario>>

\* Every failed heartbeat is one.
LEMMA Failures ==
    ASSUME Types, NEW n \in Nodes, NEW behind \in BOOLEAN, GetStatusFails(n, behind)
    PROVE  \E c \in Entry, q \in OperatorState, u \in BOOLEAN : Failure(n, behind, c, q, u)
<1>1. PICK c : c = ReadOperators(n, behind)
  OBVIOUS
<1>2. PICK r : r = IsCurrentOperator(n, op[n], c)
  OBVIOUS
<1>3. c \in Entry /\ now \in Times /\ op[n] \in OperatorState
  BY <1>1, Reads, Scheduled DEF Types
<1>4. Decided(n, op[n], c, r.op, r.current)
  BY <1>2, <1>3, Decides
<1>5. r.op \in OperatorState /\ r.current \in BOOLEAN
  BY <1>4 DEF Decided
<1>6. Failure(n, behind, c, r.op, r.current)
  BY <1>1, <1>2, <1>4 DEF GetStatusFails, Failure
<1>. QED  BY <1>3, <1>5, <1>6

\* Every step keeps the types.
LEMMA TypesInitially == Init => Types
<1> SUFFICES ASSUME Init PROVE Types
  OBVIOUS
<1>1. Genesis \in Beats /\ Genesis <= MaxTime
  <2>1. Genesis \in Nat /\ Genesis >= Genesis /\ 0 \in Nat /\ Genesis = Genesis + 0 * Heartbeat
    BY ClockAssumption
  <2>. QED  BY <2>1, OperatorAssumption DEF Beats, Times
<1>. QED  BY <1>1, New DEF Init, Types

\* No step changes the scenario.
LEMMA TypesInductive == Types /\ [Next]_vars => Types' /\ scenario' = scenario
<1> SUFFICES ASSUME Types, [Next]_vars PROVE Types' /\ scenario' = scenario
  OBVIOUS
<1>0. /\ now \in Beats /\ now <= MaxTime /\ schedule \in [Epochs -> Nodes] /\ cache \in [Nodes -> Entry]
      /\ op \in [Nodes -> OperatorState] /\ status \in [Nodes -> StatusType]
      /\ ready \subseteq Nodes /\ scenario \in Scenarios
  BY DEF Types
<1>1. ASSUME NEW n \in Nodes, NEW c \in Entry, NEW o \in OperatorState, NEW s \in StatusType,
             cache' = [cache EXCEPT ![n] = c], op' = [op EXCEPT ![n] = o],
             status' = [status EXCEPT ![n] = s], ready' = ready \/ ready' = ready \ {n},
             UNCHANGED <<now, schedule, scenario>>
      PROVE  Types' /\ scenario' = scenario
  <2>1. /\ cache' \in [Nodes -> Entry] /\ op' \in [Nodes -> OperatorState]
        /\ status' \in [Nodes -> StatusType] /\ ready' \subseteq Nodes
    BY <1>0, <1>1
  <2>. QED  BY <1>0, <1>1, <2>1 DEF Types
<1>2. ASSUME NEW n \in Nodes, NEW behind \in BOOLEAN, NEW synced \in BOOLEAN,
             NEW marker \in BOOLEAN, NEW built \in BOOLEAN,
             GetStatus(n, behind, synced, marker, built)
      PROVE  Types' /\ scenario' = scenario
  <2>1. PICK c \in Entry, q \in OperatorState, u \in BOOLEAN, v \in OperatorState, s \in StatusType :
            Beat(n, behind, synced, marker, c, q, u, v, s)
    BY <1>2, Heartbeats
  <2>2. PICK o \in OperatorState : o = IF Cancels(v) THEN NewOperator ELSE v
    BY New
  <2>. QED  BY <1>1, <2>1, <2>2 DEF Beat
<1>3. ASSUME NEW n \in Nodes, NEW behind \in BOOLEAN, GetStatusFails(n, behind)
      PROVE  Types' /\ scenario' = scenario
  <2>1. PICK c \in Entry, q \in OperatorState, u \in BOOLEAN : Failure(n, behind, c, q, u)
    BY <1>3, Failures
  <2>. QED  BY <1>1, <2>1, New DEF Failure
<1>4. ASSUME NEW n \in Nodes, GetStatusEmpty(n)
      PROVE  Types' /\ scenario' = scenario
  <2>1. /\ cache' = [cache EXCEPT ![n] = cache[n]] /\ op' = [op EXCEPT ![n] = op[n]]
        /\ status' = [status EXCEPT ![n] = NoStatus] /\ ready' = ready \ {n}
        /\ UNCHANGED <<now, schedule, scenario>>
    BY <1>0, <1>4 DEF GetStatusEmpty
  <2>2. cache[n] \in Entry /\ op[n] \in OperatorState
    BY <1>0
  <2>. QED  BY <1>1, <2>1, <2>2, New
<1>5. ASSUME NEW n \in Nodes, Restart(n)
      PROVE  Types' /\ scenario' = scenario
  <2>1. /\ cache' = [cache EXCEPT ![n] = NoCache] /\ op' = [op EXCEPT ![n] = NewOperator]
        /\ status' = [status EXCEPT ![n] = NoStatus] /\ ready' = ready
        /\ UNCHANGED <<now, schedule, scenario>>
    BY <1>5 DEF Restart
  <2>. QED  BY <1>1, <2>1, New
<1>6. CASE Tick
  <2>1. /\ now' = now + Heartbeat /\ now' <= MaxTime /\ ready' = Nodes
        /\ UNCHANGED <<cache, op, status, scenario>>
    BY <1>6 DEF Tick
  <2>2. now' \in Beats
    BY <1>0, <2>1, NextBeat
  <2>3. schedule' \in [Epochs -> Nodes]
    BY <1>0, <1>6 DEF Tick, Replaced
  <2>. QED  BY <1>0, <2>1, <2>2, <2>3 DEF Types
<1>7. CASE UNCHANGED vars
  BY <1>7 DEF Types, vars
<1>. QED  BY <1>2, <1>3, <1>4, <1>5, <1>6, <1>7 DEF Next

\* A synced driver clears the counter of cancel_if_not_synced_for_sufficient_long_time.
LEMMA Clears ==
    ASSUME NEW o, o.cancel = 0
    PROVE  ~Cancels(o)
<1>1. L2SlotsPerL1 \in Nat
  BY ClockAssumption, Division DEF L2SlotsPerL1
<1>2. L2SlotsPerEpoch \in Nat
  BY <1>1, ClockAssumption DEF L2SlotsPerEpoch
<1>3. ~(0 > L2SlotsPerEpoch \div 2)
  BY <1>2
<1>. QED  BY <1>3 DEF Cancels

\* A node whose counter is over the limit starts again.
Counted == eosHead \in BOOLEAN /\ \A n \in Nodes : ~Cancels(op[n])

\* Every step keeps the counters under the limit.
LEMMA CountedInductive == Types /\ Counted /\ [Next]_vars => Counted'
<1> SUFFICES ASSUME Types, Counted, [Next]_vars PROVE Counted'
  OBVIOUS
<1>1. ~Cancels(NewOperator)
  BY New, Clears
<1>2. ASSUME NEW n \in Nodes, NEW o, op' = [op EXCEPT ![n] = o], ~Cancels(o), eosHead' \in BOOLEAN
      PROVE  Counted'
  BY <1>2 DEF Counted, Types, Cancels
<1>3. ASSUME NEW n \in Nodes, NEW behind \in BOOLEAN, NEW synced \in BOOLEAN,
             NEW marker \in BOOLEAN, NEW built \in BOOLEAN,
             GetStatus(n, behind, synced, marker, built)
      PROVE  Counted'
  <2>1. PICK c \in Entry, q \in OperatorState, u \in BOOLEAN, v \in OperatorState, s \in StatusType :
            Beat(n, behind, synced, marker, c, q, u, v, s)
    BY <1>3, Heartbeats
  <2>2. PICK o : o = IF Cancels(v) THEN NewOperator ELSE v
    OBVIOUS
  <2>3. op' = [op EXCEPT ![n] = o] /\ status' = [status EXCEPT ![n] = s]
    BY <2>1, <2>2 DEF Beat
  <2>4. ~Cancels(o)
    BY <1>1, <2>2
  <2>5. PICK e \in StatusType : Builds(e, synced, built)
    <3>1. PICK e : status' = [status EXCEPT ![n] = e] /\ Builds(e, synced, built)
      BY <1>3 DEF GetStatus
    <3>2. e = s
      BY <2>3, <3>1 DEF Types
    <3>. QED  BY <3>1, <3>2
  <2>6. eosHead' \in BOOLEAN
    BY <2>5 DEF Builds, StatusType, Counted
  <2>. QED  BY <1>2, <2>3, <2>4, <2>6
<1>4. ASSUME NEW n \in Nodes, NEW behind \in BOOLEAN, GetStatusFails(n, behind)
      PROVE  Counted'
  <2>1. PICK c \in Entry, q \in OperatorState, u \in BOOLEAN : Failure(n, behind, c, q, u)
    BY <1>4, Failures
  <2>2. ~Cancels(q) /\ op' = [op EXCEPT ![n] = q]
    BY <2>1 DEF Failure, Decided, Counted, Cancels
  <2>3. eosHead' \in BOOLEAN
    BY <1>4 DEF GetStatusFails, Counted
  <2>. QED  BY <1>2, <2>2, <2>3
<1>5. ASSUME NEW n \in Nodes, GetStatusEmpty(n) PROVE Counted'
  BY <1>5 DEF GetStatusEmpty, Counted, Cancels
<1>6. ASSUME NEW n \in Nodes, Restart(n) PROVE Counted'
  <2>1. op' = [op EXCEPT ![n] = NewOperator] /\ eosHead' \in BOOLEAN
    BY <1>6 DEF Restart, Counted
  <2>. QED  BY <1>1, <1>2, <2>1
<1>7. CASE Tick
  BY <1>7 DEF Tick, Counted, Cancels
<1>8. CASE UNCHANGED vars
  BY <1>8 DEF vars, Counted, Cancels
<1>. QED  BY <1>3, <1>4, <1>5, <1>6, <1>7, <1>8 DEF Next

(***************************************************************************)
(* The state of every node stays well-formed, and no node goes on with its *)
(* counter over the limit of cancel_if_not_synced_for_sufficient_long_time.*)
(***************************************************************************)
THEOREM TypeCorrect == Spec => []TypeOK
<1>1. Init => Counted
  <2> SUFFICES ASSUME Init PROVE Counted
    OBVIOUS
  <2>1. ~Cancels(NewOperator)
    BY New, Clears
  <2>. QED  BY <2>1 DEF Init, Counted
<1>2. Types /\ Counted => TypeOK
  <2> SUFFICES ASSUME Types, Counted PROVE TypeOK
    OBVIOUS
  <2>1. ASSUME NEW n \in Nodes PROVE op[n].cancel <= L2SlotsPerEpoch \div 2
    <3>1. op[n].cancel \in Nat /\ L2SlotsPerEpoch \div 2 \in Int
      <4>1. L2SlotsPerEpoch \in Nat
        BY ClockAssumption, Division DEF L2SlotsPerL1, L2SlotsPerEpoch
      <4>. QED  BY <4>1 DEF Types, OperatorState
    <3>. QED  BY <3>1 DEF Counted, Cancels
  <2>2. now \in Nat /\ now >= Genesis
    BY Scheduled DEF Times
  <2>3. scenario \subseteq Faults
    BY OperatorAssumption DEF Types
  <2>. QED  BY <2>1, <2>2, <2>3 DEF TypeOK, Types, Counted, Entry, OperatorState, StatusType
<1>. QED  BY <1>1, <1>2, TypesInitially, TypesInductive, CountedInductive, PTL DEF Spec

-----------------------------------------------------------------------------
(* Only in turn.                                                           *)

\* The schedule does not change.
Kept == Without({"eject", "early", "replace"})

\* An entry says the truth about its epoch and the next one.
TrueEntry(c) ==
    /\ c.ts \in Times /\ c.ts <= now
    /\ c.current = schedule[EpochOf(c.ts)]
    /\ c.next = schedule[EpochOf(c.ts) + 1]

CacheInv == \A n \in Nodes : cache[n] = NoCache \/ TrueEntry(cache[n])

\* What the operator remembers about the next epoch comes from the entry in
\* the cache, also when it is used in the epoch after that of the entry.
NextInv ==
    \A n \in Nodes : op[n].next =>
        cache[n] # NoCache /\ n = schedule[EpochOf(cache[n].ts) + 1]

TurnInv ==
    \A n \in Nodes \ ready :
        /\ status[n].preconfer => n = Preconfer
        /\ status[n].submitter => n = Submitter

IInv == Types /\ (Kept => CacheInv /\ NextInv /\ TurnInv)

\* An entry that is used is not older than the epoch before this one.
Usable(c, t) ==
    /\ c.ts \in Times /\ c.ts <= t
    /\ c.ts < EpochBegin(EpochOf(t)) => t - c.ts <= MaxLag

\* The time of an entry that get_operators_for_current_and_next_epoch returns;
\* when it is of an earlier epoch, it is the one in the cache.
LEMMA ReadsUsable ==
    ASSUME Types, NEW n \in Nodes, NEW behind \in BOOLEAN, behind => MayBeBehind(n),
           cache[n] # NoCache => cache[n].ts \in Times /\ cache[n].ts <= now
    PROVE  LET c == ReadOperators(n, behind)
           IN  /\ c # NoCache /\ Usable(c, now)
               /\ c = cache[n] \/ (c = Whitelist /\ c.ts >= EpochBegin(EpochOf(now)))
               /\ c.ts < EpochBegin(EpochOf(now)) => c = cache[n]
<1>1. /\ SlotBegin(now) \in Times /\ SlotBegin(now) <= now
      /\ EpochBegin(EpochOf(now)) <= SlotBegin(now) /\ EpochBegin(EpochOf(now)) \in Times
  BY Scheduled, SlotBegins, EpochBegins, EpochStart
<1>2. /\ ~(SlotBegin(now) < EpochBegin(EpochOf(now))) /\ SlotBegin(now) # None
      /\ SlotBegin(now) >= EpochBegin(EpochOf(now))
  BY <1>1 DEF Times, None
<1>3. Whitelist # NoCache /\ Usable(Whitelist, now)
  BY <1>1, <1>2, Reads, New DEF Usable
<1>4. CASE behind
  <2>1. /\ ReadOperators(n, behind) = cache[n] /\ cache[n] # NoCache
        /\ now - cache[n].ts <= MaxLag
    BY <1>4 DEF ReadOperators, MayBeBehind
  <2>. QED  BY <2>1 DEF Usable
<1>5. CASE ~behind /\ cache[n].ts = SlotBegin(now)
  <2>1. ReadOperators(n, behind) = cache[n]
    BY <1>5 DEF ReadOperators
  <2>2. cache[n] # NoCache
    BY <1>5, <1>2, New
  <2>. QED  BY <2>1, <2>2, <1>1, <1>2, <1>5 DEF Usable
<1>6. CASE ~behind /\ cache[n].ts # SlotBegin(now)
  <2>1. ReadOperators(n, behind) = Whitelist
    BY <1>6 DEF ReadOperators
  <2>. QED  BY <2>1, <1>2, <1>3, Reads
<1>. QED  BY <1>4, <1>5, <1>6

\* The epoch of an entry that is used.
LEMMA UsableEpoch ==
    ASSUME NEW t \in Times, NEW c, Usable(c, t)
    PROVE  \/ c.ts < EpochBegin(EpochOf(t)) /\ EpochOf(c.ts) + 1 = EpochOf(t) /\ ~InHandoverWindow(t)
           \/ ~(c.ts < EpochBegin(EpochOf(t))) /\ EpochOf(c.ts) = EpochOf(t)
<1>1. c.ts \in Times /\ c.ts <= t
  BY DEF Usable
<1>2. CASE c.ts < EpochBegin(EpochOf(t))
  BY <1>1, <1>2, LastEpoch DEF Usable
<1>3. CASE ~(c.ts < EpochBegin(EpochOf(t)))
  <2>1. EpochBegin(EpochOf(t)) \in Times
    BY EpochBegins, EpochStart
  <2>2. c.ts >= EpochBegin(EpochOf(t))
    BY <2>1, <1>1, <1>3 DEF Times
  <2>. QED  BY <1>1, <1>3, <2>2, SameEpoch
<1>. QED  BY <1>2, <1>3

\* It says the truth when the one in the cache does.
LEMMA ReadsTruth ==
    ASSUME Types, NEW n \in Nodes, NEW behind \in BOOLEAN, behind => MayBeBehind(n),
           cache[n] = NoCache \/ TrueEntry(cache[n])
    PROVE  LET c == ReadOperators(n, behind)
           IN  TrueEntry(c) /\ Usable(c, now) /\ c # NoCache
               /\ (c.ts < EpochBegin(EpochOf(now)) => c = cache[n])
<1> DEFINE c == ReadOperators(n, behind)
<1>1. cache[n] # NoCache => cache[n].ts \in Times /\ cache[n].ts <= now
  BY DEF TrueEntry
<1>2. /\ c # NoCache /\ Usable(c, now)
      /\ c = cache[n] \/ c = Whitelist
      /\ c.ts < EpochBegin(EpochOf(now)) => c = cache[n]
  BY <1>1, ReadsUsable
<1>3. TrueEntry(Whitelist)
  BY Reads, Scheduled, SlotBegins DEF TrueEntry
<1> HIDE DEF c
<1>. QED  BY <1>2, <1>3 DEF c

\* What a node learns in a heartbeat: an entry of the last epoch is used for
\* this epoch only, outside the handover window.
LEMMA Learns ==
    ASSUME Types, CacheInv, NextInv,
           NEW n \in Nodes, NEW behind \in BOOLEAN, behind => MayBeBehind(n),
           NEW c \in Entry, c = ReadOperators(n, behind), NEW q, NEW u, Decided(n, op[n], c, q, u)
    PROVE  /\ c # NoCache /\ TrueEntry(c)
           /\ q.next => n = schedule[EpochOf(c.ts) + 1]
           /\ u => n = Submitter
           /\ (IF InHandoverWindow(now) THEN q.next ELSE u) => n = Preconfer
<1>1. /\ TrueEntry(c) /\ Usable(c, now) /\ c # NoCache
      /\ (c.ts < EpochBegin(EpochOf(now)) => c = cache[n])
  BY ReadsTruth DEF CacheInv
<1>2. now \in Times
  BY Scheduled
<1>3. /\ c.ts < EpochBegin(EpochOf(now)) => q.next = op[n].next /\ u = op[n].next
      /\ ~(c.ts < EpochBegin(EpochOf(now))) => (u => c.current = n) /\ (q.next => c.next = n)
  BY DEF Decided
<1>4. CASE c.ts < EpochBegin(EpochOf(now))
  <2>1. EpochOf(c.ts) + 1 = EpochOf(now) /\ ~InHandoverWindow(now)
    BY <1>1, <1>2, <1>4, UsableEpoch
  <2>2. op[n].next => n = schedule[EpochOf(c.ts) + 1]
    BY <1>1, <1>4 DEF NextInv
  <2>3. /\ q.next => n = schedule[EpochOf(c.ts) + 1]
        /\ u => n = schedule[EpochOf(c.ts) + 1]
    BY <1>3, <1>4, <2>2
  <2>. QED  BY <1>1, <2>1, <2>3 DEF Submitter, Preconfer
<1>5. CASE ~(c.ts < EpochBegin(EpochOf(now)))
  <2>1. EpochOf(c.ts) = EpochOf(now)
    BY <1>1, <1>2, <1>5, UsableEpoch
  <2>2. /\ q.next => n = schedule[EpochOf(c.ts) + 1]
        /\ u => n = schedule[EpochOf(c.ts)]
    BY <1>1, <1>3, <1>5 DEF TrueEntry
  <2>. QED  BY <1>1, <2>1, <2>2 DEF Submitter, Preconfer
<1>. QED  BY <1>4, <1>5

\* What is common to the steps of one node: its own state satisfies the
\* invariant, and nothing else changes.
LEMMA OneNode ==
    ASSUME Types, CacheInv, NextInv, TurnInv, NEW n \in Nodes,
           NEW c, c = NoCache \/ TrueEntry(c),
           NEW o, o.next => c # NoCache /\ n = schedule[EpochOf(c.ts) + 1],
           NEW s, s.preconfer => n = Preconfer, s.submitter => n = Submitter,
           cache' = [cache EXCEPT ![n] = c],
           op' = [op EXCEPT ![n] = o],
           status' = [status EXCEPT ![n] = s],
           ready' = ready \/ ready' = ready \ {n},
           UNCHANGED <<now, schedule>>
    PROVE  (CacheInv /\ NextInv /\ TurnInv)'
<1>1. Submitter' = Submitter /\ Preconfer' = Preconfer
  BY DEF Submitter, Preconfer
<1>2. \A m \in Nodes : /\ cache'[m] = IF m = n THEN c ELSE cache[m]
                       /\ op'[m] = IF m = n THEN o ELSE op[m]
                       /\ status'[m] = IF m = n THEN s ELSE status[m]
  BY DEF Types
<1>3. CacheInv'
  <2>1. \A d : TrueEntry(d)' <=> TrueEntry(d)
    BY DEF TrueEntry
  <2>. SUFFICES ASSUME NEW m \in Nodes PROVE cache'[m] = NoCache \/ TrueEntry(cache'[m])
    BY <2>1 DEF CacheInv
  <2>2. CASE m = n
    BY <1>2, <2>2
  <2>3. CASE m # n
    BY <1>2, <2>3 DEF CacheInv
  <2>. QED  BY <2>2, <2>3
<1>4. NextInv'
  BY <1>2, SMTT(30) DEF NextInv
<1>5. TurnInv'
  BY <1>1, <1>2, SMTT(30) DEF TurnInv
<1>. QED  BY <1>3, <1>4, <1>5

\* A heartbeat keeps the invariant.
LEMMA TurnsInHeartbeat ==
    ASSUME Types, CacheInv, NextInv, TurnInv, NEW n \in Nodes,
           NEW behind \in BOOLEAN, NEW synced \in BOOLEAN, NEW marker \in BOOLEAN,
           NEW built \in BOOLEAN, GetStatus(n, behind, synced, marker, built)
    PROVE  (CacheInv /\ NextInv /\ TurnInv)'
<1>1. PICK c \in Entry, q \in OperatorState, u \in BOOLEAN, v \in OperatorState, s \in StatusType :
        Beat(n, behind, synced, marker, c, q, u, v, s)
  BY Heartbeats
<1>2. PICK o : o = IF Cancels(v) THEN NewOperator ELSE v
  OBVIOUS
<1>3. /\ behind => MayBeBehind(n)
      /\ c = ReadOperators(n, behind) /\ Decided(n, op[n], c, q, u)
      /\ cache' = [cache EXCEPT ![n] = c] /\ op' = [op EXCEPT ![n] = o]
      /\ status' = [status EXCEPT ![n] = s] /\ ready' = ready \ {n}
      /\ UNCHANGED <<now, schedule>>
  BY <1>1, <1>2 DEF Beat
<1>4. /\ c # NoCache /\ TrueEntry(c)
      /\ q.next => n = schedule[EpochOf(c.ts) + 1]
      /\ u => n = Submitter
      /\ (IF InHandoverWindow(now) THEN q.next ELSE u) => n = Preconfer
  BY <1>3, Learns
<1>5. /\ v.next = q.next /\ s.submitter = u
      /\ s.preconfer => IF InHandoverWindow(now) THEN q.next ELSE u
  BY <1>1 DEF Beat, Derived
<1>6. o.next => n = schedule[EpochOf(c.ts) + 1]
  BY <1>2, <1>4, <1>5, New
<1>7. (s.preconfer => n = Preconfer) /\ (s.submitter => n = Submitter)
  BY <1>4, <1>5
<1>. QED  BY <1>3, <1>4, <1>6, <1>7, OneNode

\* So does one that fails.
LEMMA TurnsInFailure ==
    ASSUME Types, CacheInv, NextInv, TurnInv, NEW n \in Nodes,
           NEW behind \in BOOLEAN, GetStatusFails(n, behind)
    PROVE  (CacheInv /\ NextInv /\ TurnInv)'
<1>1. PICK c \in Entry, q \in OperatorState, u \in BOOLEAN : Failure(n, behind, c, q, u)
  BY Failures
<1>2. /\ behind => MayBeBehind(n)
      /\ c = ReadOperators(n, behind) /\ Decided(n, op[n], c, q, u)
      /\ cache' = [cache EXCEPT ![n] = c] /\ op' = [op EXCEPT ![n] = q]
      /\ status' = [status EXCEPT ![n] = NoStatus] /\ ready' = ready \ {n}
      /\ UNCHANGED <<now, schedule>>
  BY <1>1 DEF Failure
<1>3. c # NoCache /\ TrueEntry(c) /\ (q.next => n = schedule[EpochOf(c.ts) + 1])
  BY <1>2, Learns
<1>. QED  BY <1>2, <1>3, New, OneNode

\* Time passes: the entries stay true of their epochs.
LEMMA TurnsInTick ==
    ASSUME Kept, Types, CacheInv, NextInv, Tick
    PROVE  (CacheInv /\ NextInv /\ TurnInv)'
<1>1. UNCHANGED <<schedule, cache, op, status>> /\ ready' = Nodes /\ now' = now + Heartbeat
  BY DEF Kept, Without, Tick, Replaced
<1>2. now' \in Nat /\ now <= now' /\ now \in Nat
  BY <1>1, Scheduled, ClockAssumption DEF Times
<1>3. ASSUME NEW n \in Nodes, cache[n] # NoCache
      PROVE  TrueEntry(cache[n])'
  <2>1. TrueEntry(cache[n])
    BY <1>3 DEF CacheInv
  <2>2. cache[n].ts <= now'
    BY <2>1, <1>2 DEF TrueEntry, Times
  <2>. QED  BY <2>1, <2>2, <1>1 DEF TrueEntry
<1>4. CacheInv'
  BY <1>1, <1>3 DEF CacheInv
<1>5. NextInv' /\ TurnInv'
  BY <1>1 DEF NextInv, TurnInv
<1>. QED  BY <1>4, <1>5

\* No node has a role before its first heartbeat.
LEMMA Initially == Init => IInv
<1>. SUFFICES ASSUME Init PROVE CacheInv /\ NextInv /\ TurnInv
  BY TypesInitially DEF IInv
<1>. QED  BY New DEF Init, CacheInv, NextInv, TurnInv

\* Every step keeps the invariant.
LEMMA Inductive == IInv /\ [Next]_vars => IInv'
<1>. SUFFICES ASSUME IInv, [Next]_vars, Kept' PROVE  (CacheInv /\ NextInv /\ TurnInv)'
  BY TypesInductive DEF IInv
<1>1. Types /\ scenario' = scenario
  BY TypesInductive DEF IInv
<1>2. Kept /\ CacheInv /\ NextInv /\ TurnInv
  BY <1>1 DEF IInv, Kept, Without
<1>3. ASSUME NEW n \in Nodes, NEW behind \in BOOLEAN, NEW synced \in BOOLEAN,
             NEW marker \in BOOLEAN, NEW built \in BOOLEAN,
             GetStatus(n, behind, synced, marker, built)
      PROVE  (CacheInv /\ NextInv /\ TurnInv)'
  BY <1>1, <1>2, <1>3, TurnsInHeartbeat
<1>4. ASSUME NEW n \in Nodes, NEW behind \in BOOLEAN, GetStatusFails(n, behind)
      PROVE  (CacheInv /\ NextInv /\ TurnInv)'
  BY <1>1, <1>2, <1>4, TurnsInFailure
<1>5. ASSUME NEW n \in Nodes, GetStatusEmpty(n)
      PROVE  (CacheInv /\ NextInv /\ TurnInv)'
  <2>1. /\ cache' = [cache EXCEPT ![n] = cache[n]] /\ op' = [op EXCEPT ![n] = op[n]]
        /\ status' = [status EXCEPT ![n] = NoStatus] /\ ready' = ready \ {n}
        /\ UNCHANGED <<now, schedule>>
    BY <1>1, <1>5 DEF GetStatusEmpty, Types
  <2>2. /\ cache[n] = NoCache \/ TrueEntry(cache[n])
        /\ op[n].next => cache[n] # NoCache /\ n = schedule[EpochOf(cache[n].ts) + 1]
    BY <1>2 DEF CacheInv, NextInv
  <2>. QED  BY <1>1, <1>2, <2>1, <2>2, New, OneNode
<1>6. ASSUME NEW n \in Nodes, Restart(n)
      PROVE  (CacheInv /\ NextInv /\ TurnInv)'
  <2>1. /\ cache' = [cache EXCEPT ![n] = NoCache] /\ op' = [op EXCEPT ![n] = NewOperator]
        /\ status' = [status EXCEPT ![n] = NoStatus] /\ ready' = ready
        /\ UNCHANGED <<now, schedule>>
    BY <1>6 DEF Restart
  <2>. QED  BY <1>1, <1>2, <2>1, New, OneNode
<1>7. CASE Tick
  BY <1>1, <1>2, <1>7, TurnsInTick
<1>8. CASE UNCHANGED vars
  <2>1. UNCHANGED <<now, schedule, cache, op, status, ready>>
    BY <1>8 DEF vars
  <2>2. CacheInv' /\ NextInv'
    BY <1>2, <2>1 DEF CacheInv, TrueEntry, NextInv
  <2>3. TurnInv'
    BY <1>2, <2>1 DEF TurnInv, Submitter, Preconfer
  <2>. QED  BY <2>2, <2>3
<1>. QED  BY <1>3, <1>4, <1>5, <1>6, <1>7, <1>8 DEF Next

\* As long as no operator is replaced, a node takes itself for the preconfer
\* or the submitter only in its turn (is_current_operator, is_preconfer),
\* through stale views of L1, failures, unsynced drivers and restarts.
THEOREM TurnsKept == Spec => []OnlyInTurn
<1>1. IInv => OnlyInTurn
  BY DEF IInv, Kept, TurnInv, OnlyInTurn
<1>. QED  BY <1>1, Initially, Inductive, PTL DEF Spec

-----------------------------------------------------------------------------
(* The turn is taken.                                                      *)

\* Two heartbeats in two epochs.
LEMMA NextEpoch ==
    ASSUME NEW s \in Beats, NEW t, t = s + Heartbeat, EpochOf(s) # EpochOf(t)
    PROVE  EpochOf(t) = EpochOf(s) + 1
<1> DEFINE m == SlotOfEpoch(s)
           e == EpochOf(s)
<1>1. SlotsPerEpoch \in Nat \ {0} /\ s \in Times /\ t \in Times
  BY ClockAssumption, NextBeat DEF Beats
<1>2. e \in Nat /\ m \in 0 .. SlotsPerEpoch - 1 /\ SlotOf(s) = e * SlotsPerEpoch + m
      /\ e * SlotsPerEpoch \in Nat
  BY <1>1, SlotPlace
<1> HIDE DEF m, e
<1>3. SlotOf(t) # SlotOf(s)
  BY DEF EpochOf
<1>4. SlotOf(t) = SlotOf(s) + 1
  BY <1>3, NextBeat
<1>5. ~(m + 1 < SlotsPerEpoch)
  <2> SUFFICES ASSUME m + 1 < SlotsPerEpoch PROVE FALSE
    OBVIOUS
  <2>1. m + 1 \in 0 .. SlotsPerEpoch - 1 /\ SlotOf(t) = e * SlotsPerEpoch + (m + 1)
    BY <1>1, <1>2, <1>4
  <2>2. EpochOf(t) = e
    BY <1>1, <1>2, <2>1, PlaceOfSlot
  <2>. QED  BY <2>2 DEF e
<1>6. m + 1 = SlotsPerEpoch
  BY <1>1, <1>2, <1>5
<1>7. 0 \in 0 .. SlotsPerEpoch - 1 /\ e + 1 \in Nat /\ SlotOf(t) = (e + 1) * SlotsPerEpoch + 0
  BY <1>1, <1>2, <1>4, <1>6
<1>8. EpochOf(t) = e + 1
  BY <1>1, <1>7, PlaceOfSlot
<1>. QED  BY <1>8 DEF e

\* No failures of the drivers, and no operator is replaced.
Calm == Without({"cold", "driver", "unsynced", "eject", "early", "replace", "restart", "fork"})

PreconferAt(t) == schedule[IF InHandoverWindow(t) THEN EpochOf(t) + 1 ELSE EpochOf(t)]

(***************************************************************************)
(* The state of node n after its heartbeat at t.  The operator agrees with *)
(* the entry that it used, and has preconfirmed if it was its turn: so the *)
(* change of the operator at the next epoch is no ejection.                *)
(***************************************************************************)
Beaten(n, t) ==
    /\ t \in Beats /\ TrueEntry(cache[n]) /\ Usable(cache[n], t)
    /\ op[n].current = cache[n].current /\ op[n].next = (n = cache[n].next)
    /\ op[n].ejected = None /\ op[n].wasSynced = status[n].preconfer
    /\ n = PreconferAt(t) => \/ status[n].preconfer
                             \/ InHandoverWindow(t) /\ TimeFromWindow(t) <= HandoverBuffer

Fresh(n) == cache[n] = NoCache /\ op[n] = NewOperator

\* A node that has not had this heartbeat has had the one before.
TakeInv ==
    Calm => \A n \in Nodes : IF n \in ready THEN Fresh(n) \/ Beaten(n, now - Heartbeat)
                                            ELSE Beaten(n, now)

\* A change of the operator, at an epoch, is no ejection.
LEMMA NoEjection ==
    ASSUME HandoverFits, Types, NEW n \in Nodes, NEW s, now = s + Heartbeat, Beaten(n, s),
           NEW c \in Entry, TrueEntry(c), EpochOf(c.ts) = EpochOf(now),
           c.current = n, c.current # op[n].current
    PROVE  op[n].wasSynced
<1>1. /\ s \in Beats /\ s \in Times /\ now \in Times /\ now \in Beats
      /\ Usable(cache[n], s) /\ op[n].current = schedule[EpochOf(cache[n].ts)]
      /\ op[n].wasSynced = status[n].preconfer
  BY Scheduled DEF Beaten, Beats, TrueEntry, Types
<1>2. n = schedule[EpochOf(now)] /\ EpochOf(cache[n].ts) # EpochOf(now)
  BY <1>1 DEF TrueEntry
<1>3. CASE EpochOf(s) = EpochOf(now)
  <2>1. ~InHandoverWindow(s)
    BY <1>1, <1>2, <1>3, UsableEpoch
  <2>2. n = PreconferAt(s)
    BY <1>2, <1>3, <2>1 DEF PreconferAt
  <2>. QED  BY <1>1, <2>1, <2>2 DEF Beaten
<1>4. CASE EpochOf(s) # EpochOf(now)
  <2>1. InHandoverWindow(s) /\ TimeFromWindow(s) > HandoverBuffer /\ EpochOf(now) = EpochOf(s) + 1
    BY <1>1, <1>4, EpochEnds, NextEpoch
  <2>2. n = PreconferAt(s)
    BY <1>2, <2>1 DEF PreconferAt
  <2>3. ~(TimeFromWindow(s) <= HandoverBuffer)
    <3>1. TimeFromWindow(s) \in Int /\ HandoverBuffer \in Int
      <4>1. s \in Int /\ EpochOf(s) \in Nat
        <5>1. s \in Times
          BY <1>1
        <5>2. s \in Int
          BY <5>1 DEF Times
        <5>. QED  BY <5>1, <5>2, SlotPlace
      <4>. QED  BY <4>1, ClockAssumption, OperatorAssumption DEF TimeFromWindow, StartOf
    <3>. QED  BY <2>1, <3>1
  <2>. QED  BY <1>1, <2>2, <2>3 DEF Beaten
<1>. QED  BY <1>3, <1>4

\* A heartbeat in which it is the node's turn, and in which it is not.
LEMMA TakesTurn ==
    ASSUME HandoverFits, Types, Calm, NEW n \in Nodes, Fresh(n) \/ Beaten(n, now - Heartbeat),
           NEW behind \in BOOLEAN, NEW synced \in BOOLEAN, NEW marker \in BOOLEAN,
           NEW built \in BOOLEAN, GetStatus(n, behind, synced, marker, built)
    PROVE  Beaten(n, now)'
<1>1. PICK c \in Entry, q \in OperatorState, u \in BOOLEAN, o \in OperatorState, s \in StatusType :
        Beat(n, behind, synced, marker, c, q, u, o, s)
  BY Heartbeats
<1>2. /\ behind => MayBeBehind(n)
      /\ synced = TRUE
      /\ c = ReadOperators(n, behind) /\ Decided(n, op[n], c, q, u)
      /\ Derived(q, u, synced, marker, o, s)
      /\ cache' = [cache EXCEPT ![n] = c]
      /\ op' = [op EXCEPT ![n] = IF Cancels(o) THEN NewOperator ELSE o]
      /\ status' = [status EXCEPT ![n] = s]
      /\ UNCHANGED <<now, schedule>>
  BY <1>1 DEF Beat, IsDriverSynced, Calm, Without
<1> DEFINE w == WithinGrace(HandleOperatorChange(n, op[n], c))
<1>3. now \in Times /\ now \in Beats /\ op[n] \in OperatorState
  BY Scheduled DEF Types
<1>4. cache[n] = NoCache \/ TrueEntry(cache[n])
  BY DEF Fresh, Beaten
<1>5. /\ TrueEntry(c) /\ Usable(c, now) /\ c # NoCache
      /\ (c.ts < EpochBegin(EpochOf(now)) => c = cache[n])
  BY <1>2, <1>4, ReadsTruth
<1>6. /\ c.ts < EpochBegin(EpochOf(now)) => q = op[n] /\ u = op[n].next
      /\ ~(c.ts < EpochBegin(EpochOf(now))) =>
            /\ u = (c.current = n /\ ~w) /\ q.next = (c.next = n /\ ~w)
            /\ q.current = c.current
            /\ ~w => q.ejected = None
  BY <1>2 DEF Decided
<1>7. ASSUME ~(c.ts < EpochBegin(EpochOf(now))) PROVE ~w
  <2>1. EpochOf(c.ts) = EpochOf(now)
    BY <1>3, <1>5, <1>7, UsableEpoch
  <2>2. op[n].ejected = None
    BY New DEF Fresh, Beaten
  <2>3. CASE Fresh(n)
    BY <1>2, <1>3, <2>2, <2>3, New, NoGrace DEF Fresh
  <2>4. CASE Beaten(n, now - Heartbeat)
    <3>1. now = (now - Heartbeat) + Heartbeat
      BY <1>3, ClockAssumption DEF Times
    <3>2. op[n].wasSynced \/ c.current = op[n].current \/ c.current # n
      BY <1>2, <1>5, <2>1, <2>4, <3>1, NoEjection
    <3>. QED  BY <1>2, <1>3, <2>2, <3>2, NoGrace
  <2>. QED  BY <2>3, <2>4
<1> HIDE DEF w
<1>8. /\ q.current = c.current /\ q.next = (n = c.next) /\ q.ejected = None
      /\ ~InHandoverWindow(now) => u = (n = Preconfer)
      /\ InHandoverWindow(now) => q.next = (n = Preconfer)
  <2>1. CASE c.ts < EpochBegin(EpochOf(now))
    <3>1. q = op[n] /\ u = op[n].next /\ c = cache[n] /\ c # NoCache
      BY <1>5, <1>6, <2>1
    <3>2. q.current = c.current /\ q.next = (n = c.next) /\ q.ejected = None
      BY <3>1 DEF Fresh, Beaten
    <3>3. EpochOf(c.ts) + 1 = EpochOf(now) /\ ~InHandoverWindow(now)
      BY <1>3, <1>5, <2>1, UsableEpoch
    <3>. QED  BY <1>5, <3>1, <3>2, <3>3 DEF TrueEntry, Preconfer
  <2>2. CASE ~(c.ts < EpochBegin(EpochOf(now)))
    <3>1. u = (n = c.current) /\ q.next = (n = c.next) /\ q.current = c.current /\ q.ejected = None
      BY <1>6, <1>7, <2>2
    <3>2. EpochOf(c.ts) = EpochOf(now)
      BY <1>3, <1>5, <2>2, UsableEpoch
    <3>3. c.current = schedule[EpochOf(now)] /\ c.next = schedule[EpochOf(now) + 1]
      BY <1>5, <3>2 DEF TrueEntry
    <3>. QED  BY <3>1, <3>3 DEF Preconfer
  <2>. QED  BY <2>1, <2>2
<1> DEFINE p == IsPreconfer(q, u, marker)
<1>9. /\ o.next = q.next /\ o.current = q.current /\ o.ejected = q.ejected
      /\ o.wasSynced = (p /\ (q.wasSynced \/ synced)) /\ s.preconfer = p
  BY <1>2 DEF Derived
<1>10. n = Preconfer => p \/ (InHandoverWindow(now) /\ TimeFromWindow(now) <= HandoverBuffer)
  <2>1. ~InForkTransition
    BY DEF InForkTransition, Calm, Without
  <2>. QED  BY <1>8, <2>1 DEF IsPreconfer, IsHandoverBuffer
<1>11. p \in BOOLEAN
  BY <1>2 DEF IsPreconfer, OperatorState
<1> HIDE DEF p
<1>12. ~Cancels(o)
  BY <1>2, Clears DEF Derived
<1>13. /\ o.current = c.current /\ o.next = (n = c.next) /\ o.ejected = None
       /\ o.wasSynced = s.preconfer
  BY <1>2, <1>8, <1>9, <1>11
<1>14. cache'[n] = c /\ op'[n] = o /\ status'[n] = s
  BY <1>2, <1>12 DEF Types
<1>15. now' = now /\ schedule' = schedule
  BY <1>2
<1>16. TrueEntry(cache[n])'
  BY <1>5, <1>14, <1>15 DEF TrueEntry
<1>17. Usable(cache[n], now)'
  BY <1>5, <1>14, <1>15 DEF Usable
<1>18. PreconferAt(now)' = Preconfer
  BY <1>15 DEF PreconferAt, Preconfer
<1>19. now' \in Beats
  BY <1>3, <1>15
<1>20. n = Preconfer => \/ s.preconfer
                        \/ InHandoverWindow(now) /\ TimeFromWindow(now) <= HandoverBuffer
  BY <1>9, <1>10
<1>. QED  BY <1>13, <1>14, <1>15, <1>16, <1>17, <1>18, <1>19, <1>20 DEF Beaten

\* Every step keeps the invariant.
LEMMA TakeInductive ==
    ASSUME HandoverFits
    PROVE  Types /\ TakeInv /\ [Next]_vars => TakeInv'
<1> SUFFICES ASSUME Types, TakeInv, [Next]_vars, Calm'
             PROVE  (\A n \in Nodes : IF n \in ready THEN Fresh(n) \/ Beaten(n, now - Heartbeat)
                                                     ELSE Beaten(n, now))'
  BY DEF TakeInv
<1>1. scenario' = scenario
  BY TypesInductive
<1>2. Calm /\ \A n \in Nodes : IF n \in ready THEN Fresh(n) \/ Beaten(n, now - Heartbeat)
                                              ELSE Beaten(n, now)
  BY <1>1 DEF TakeInv, Calm, Without
<1>3. ASSUME NEW n \in Nodes, NEW behind \in BOOLEAN, NEW synced \in BOOLEAN,
             NEW marker \in BOOLEAN, NEW built \in BOOLEAN,
             GetStatus(n, behind, synced, marker, built)
      PROVE  (\A m \in Nodes : IF m \in ready THEN Fresh(m) \/ Beaten(m, now - Heartbeat)
                                              ELSE Beaten(m, now))'
  <2>1. n \in ready /\ ready' = ready \ {n} /\ UNCHANGED <<now, schedule>>
    BY <1>3 DEF GetStatus
  <2>2. Beaten(n, now)'
    BY <1>2, <1>3, <2>1, TakesTurn
  <2>3. \A m \in Nodes : m # n => cache'[m] = cache[m] /\ op'[m] = op[m] /\ status'[m] = status[m]
    BY <1>3 DEF GetStatus, Types
  <2>4. ASSUME NEW m \in Nodes, m # n
        PROVE  /\ Fresh(m) => Fresh(m)'
               /\ \A t : Beaten(m, t) => Beaten(m, t)'
    BY <2>1, <2>3, <2>4 DEF Fresh, Beaten, TrueEntry, Usable, PreconferAt
  <2>. QED  BY <1>2, <2>1, <2>2, <2>4
<1>4. CASE Tick
  <2>1. /\ UNCHANGED <<schedule, cache, op, status>> /\ ready = {} /\ ready' = Nodes
        /\ now' = now + Heartbeat
    BY <1>2, <1>4 DEF Tick, Replaced, Calm, Without
  <2>2. now' \in Nat /\ now <= now' /\ now \in Nat /\ now' - Heartbeat = now
    BY <2>1, Scheduled, ClockAssumption DEF Times
  <2>3. ASSUME NEW n \in Nodes PROVE Beaten(n, now - Heartbeat)'
    <3>1. Beaten(n, now)
      BY <1>2, <2>1
    <3>2. TrueEntry(cache[n])'
      <4>1. TrueEntry(cache[n])
        BY <3>1 DEF Beaten
      <4>2. cache'[n] = cache[n] /\ schedule' = schedule
        BY <2>1
      <4>3. cache[n].ts \in Nat /\ cache[n].ts <= now
        BY <4>1 DEF TrueEntry, Times
      <4>4. cache[n].ts <= now'
        BY <2>2, <4>3
      <4>. QED  BY <4>1, <4>2, <4>4 DEF TrueEntry
    <3>3. Usable(cache[n], now - Heartbeat)'
      BY <2>1, <2>2, <3>1 DEF Beaten, Usable
    <3>4. PreconferAt(now - Heartbeat)' = PreconferAt(now)
      BY <2>1, <2>2 DEF PreconferAt
    <3>. QED  BY <2>1, <2>2, <3>1, <3>2, <3>3, <3>4 DEF Beaten
  <2>. QED  BY <2>1, <2>3
<1>5. CASE UNCHANGED vars
  <2>1. UNCHANGED <<now, schedule, cache, op, status, ready>>
    BY <1>5 DEF vars
  <2>2. ASSUME NEW n \in Nodes
        PROVE  /\ Fresh(n) => Fresh(n)'
               /\ \A t : Beaten(n, t) => Beaten(n, t)'
    BY <2>1 DEF Fresh, Beaten, TrueEntry, Usable, PreconferAt
  <2>. QED  BY <1>2, <2>1, <2>2
<1>6. ASSUME NEW n \in Nodes, NEW behind \in BOOLEAN, GetStatusFails(n, behind) PROVE FALSE
  BY <1>2, <1>6 DEF GetStatusFails, Calm, Without
<1>7. ASSUME NEW n \in Nodes, GetStatusEmpty(n) \/ Restart(n) PROVE FALSE
  BY <1>2, <1>7 DEF GetStatusEmpty, Restart, Calm, Without
<1>. QED  BY <1>3, <1>4, <1>5, <1>6, <1>7 DEF Next

(***************************************************************************)
(* Without failures of the drivers the node whose turn it is preconfirms,  *)
(* after the handover buffer at the latest, however stale its view of L1   *)
(* is: the grace period (is_within_ejection_grace) never takes the turn of *)
(* an operator that came to it by the schedule.                            *)
(***************************************************************************)
THEOREM TurnsTaken ==
    ASSUME HandoverFits
    PROVE  Spec => []TurnIsTaken
<1>1. Init => TakeInv
  BY DEF Init, TakeInv, Fresh
<1>2. Types /\ TakeInv => TurnIsTaken
  <2> SUFFICES ASSUME Types, Calm, TakeInv, ready = {}
               PROVE  \/ status[Preconfer].preconfer
                      \/ InHandoverWindow(now) /\ TimeFromWindow(now) <= HandoverBuffer
    BY DEF TurnIsTaken, Calm
  <2>1. Preconfer \in Nodes
    BY Scheduled DEF Preconfer
  <2>2. Beaten(Preconfer, now)
    BY <2>1 DEF TakeInv
  <2>3. Preconfer = PreconferAt(now)
    BY DEF Preconfer, PreconferAt
  <2>. QED  BY <2>2, <2>3 DEF Beaten
<1>3. Types /\ TakeInv /\ [Next]_vars => TakeInv'
  BY TakeInductive
<1>. QED  BY <1>1, <1>2, <1>3, TypesInitially, TypesInductive, PTL DEF Spec

-----------------------------------------------------------------------------
(* The end of the sequencing is told.                                      *)

Told == Without({"driver", "unsynced", "replace", "fork"})

\* An entry with the time of a slot, true about the next epoch as long as its
\* epoch lasts, also when the operator of its epoch is replaced.
Dated(c) ==
    /\ c.ts \in Times /\ c.ts <= now /\ SlotBegin(c.ts) = c.ts
    /\ EpochOf(c.ts) = EpochOf(now) => c.next = schedule[EpochOf(now) + 1]

\* The entry, the operator and the status of node n after its heartbeat at t.
Remembers(n, c, o, s, t) ==
    /\ c = NoCache => ~s.preconfer /\ ~s.eos
    /\ c # NoCache => t \in Beats /\ Usable(c, t)
    /\ s.preconfer =>
        /\ o.wasSynced
        /\ IF InHandoverWindow(t) THEN o.next ELSE s.submitter
        /\ ~(c.ts < EpochBegin(EpochOf(t))) =>
            /\ o.ejected = None /\ o.next = (n = c.next)
            /\ s.submitter => o.continuing = (n = c.next)
    /\ s.eos <=> ~o.continuing /\ s.preconfer /\ s.submitter /\ IsBeforeWindow(t)

LastBeat(n) == IF n \in ready THEN now - Heartbeat ELSE now

EndInv ==
    Told => \A n \in Nodes : /\ cache[n] = NoCache \/ Dated(cache[n])
                             /\ Remembers(n, cache[n], op[n], status[n], LastBeat(n))

\* An entry is of this slot, or at most MaxLag old.
Recent(c, t) == c.ts = SlotBegin(t) \/ t - c.ts <= MaxLag

\* The entry that a heartbeat uses.
LEMMA ReadsDated ==
    ASSUME Types, NEW n \in Nodes, NEW behind \in BOOLEAN, behind => MayBeBehind(n),
           cache[n] = NoCache \/ Dated(cache[n])
    PROVE  LET c == ReadOperators(n, behind)
           IN  /\ Dated(c) /\ Usable(c, now) /\ c # NoCache /\ Recent(c, now)
               /\ c = cache[n] \/ c = Whitelist
               /\ c.ts < EpochBegin(EpochOf(now)) => c = cache[n]
<1> DEFINE c == ReadOperators(n, behind)
<1>1. cache[n] # NoCache => cache[n].ts \in Times /\ cache[n].ts <= now
  BY DEF Dated
<1>2. /\ c # NoCache /\ Usable(c, now)
      /\ c = cache[n] \/ (c = Whitelist /\ c.ts >= EpochBegin(EpochOf(now)))
      /\ c.ts < EpochBegin(EpochOf(now)) => c = cache[n]
  BY <1>1, ReadsUsable
<1>5. Recent(c, now)
  BY Reads DEF Recent, ReadOperators, MayBeBehind
<1>3. Dated(Whitelist)
  <2>1. now \in Times /\ Whitelist.ts = SlotBegin(now) /\ Whitelist.next = schedule[EpochOf(now) + 1]
    BY Scheduled, Reads
  <2>2. SlotBegin(now) \in Times /\ SlotBegin(now) <= now
    BY <2>1, SlotBegins
  <2>3. SlotBegin(SlotBegin(now)) = SlotBegin(now)
    BY <2>1, Slots, SlotStart DEF SlotBegin
  <2>. QED  BY <2>1, <2>2, <2>3 DEF Dated
<1> HIDE DEF c
<1>4. Dated(c)
  BY <1>2, <1>3
<1>. QED  BY <1>2, <1>4, <1>5 DEF c

\* What a heartbeat with a synced driver leaves: the entry c, the operator o
\* and the status s; w says that the grace period keeps it from its turn.
Heard(n, c, o, s, w) ==
    /\ Dated(c) /\ Usable(c, now) /\ c # NoCache /\ Recent(c, now)
    /\ c = cache[n] \/ c = Whitelist
    /\ w = WithinGrace(HandleOperatorChange(n, op[n], c))
    /\ o.wasSynced = s.preconfer
    /\ s.preconfer => IF InHandoverWindow(now) THEN o.next ELSE s.submitter
    /\ s.eos = (~o.continuing /\ s.preconfer /\ s.submitter /\ IsBeforeWindow(now))
    /\ c.ts < EpochBegin(EpochOf(now)) =>
        c = cache[n] /\ o.next = op[n].next /\ s.submitter = op[n].next
    /\ ~(c.ts < EpochBegin(EpochOf(now))) =>
        /\ s.submitter = (c.current = n /\ ~w) /\ o.next = (c.next = n /\ ~w)
        /\ o.continuing = (c.current = n /\ c.next = n /\ ~w) /\ o.current = c.current
        /\ o.ejected = IF w THEN HandleOperatorChange(n, op[n], c).ejected ELSE None
        /\ InHandoverWindow(now) /\ op[n].wasSynced /\ o.next => s.preconfer

\* A heartbeat of n that takes what it has heard of the whitelist.
HearingBeat(n) ==
    \E c \in Entry, o \in OperatorState, s \in StatusType, w \in BOOLEAN :
        /\ cache' = [cache EXCEPT ![n] = c] /\ op' = [op EXCEPT ![n] = o]
        /\ status' = [status EXCEPT ![n] = s]
        /\ Heard(n, c, o, s, w)

\* Every heartbeat with a synced driver is one.
LEMMA Hears ==
    ASSUME Types, Told, NEW n \in Nodes, cache[n] = NoCache \/ Dated(cache[n]),
           NEW behind \in BOOLEAN, NEW synced \in BOOLEAN, NEW marker \in BOOLEAN,
           NEW built \in BOOLEAN, GetStatus(n, behind, synced, marker, built)
    PROVE  HearingBeat(n)
<1>1. PICK c \in Entry, q \in OperatorState, u \in BOOLEAN, o \in OperatorState, s \in StatusType :
        Beat(n, behind, synced, marker, c, q, u, o, s)
  BY Heartbeats
<1>2. /\ behind => MayBeBehind(n)
      /\ synced = TRUE
      /\ c = ReadOperators(n, behind) /\ Decided(n, op[n], c, q, u)
      /\ Derived(q, u, synced, marker, o, s)
      /\ cache' = [cache EXCEPT ![n] = c]
      /\ op' = [op EXCEPT ![n] = IF Cancels(o) THEN NewOperator ELSE o]
      /\ status' = [status EXCEPT ![n] = s]
  BY <1>1 DEF Beat, IsDriverSynced, Told, Without
<1>3. op' = [op EXCEPT ![n] = o]
  <2>1. ~Cancels(o)
    BY <1>2, Clears DEF Derived
  <2>. QED  BY <1>2, <2>1
<1>4. /\ Dated(c) /\ Usable(c, now) /\ c # NoCache /\ Recent(c, now)
      /\ c = cache[n] \/ c = Whitelist
      /\ c.ts < EpochBegin(EpochOf(now)) => c = cache[n]
  BY <1>2, ReadsDated
<1> DEFINE w == WithinGrace(HandleOperatorChange(n, op[n], c))
<1>5. w \in BOOLEAN
  BY DEF WithinGrace
<1>6. ~(c.ts < EpochBegin(EpochOf(now))) =>
            /\ u = (c.current = n /\ ~w) /\ q.next = (c.next = n /\ ~w)
            /\ q.continuing = (c.current = n /\ c.next = n /\ ~w)
            /\ q.wasSynced = op[n].wasSynced /\ q.current = c.current
            /\ q.ejected = IF w THEN HandleOperatorChange(n, op[n], c).ejected ELSE None
  BY <1>2 DEF Decided
<1>7. c.ts < EpochBegin(EpochOf(now)) => q.next = op[n].next /\ u = op[n].next
  BY <1>2 DEF Decided
<1> HIDE DEF w
<1> DEFINE p == IsPreconfer(q, u, marker)
<1>8. p \in BOOLEAN
  BY DEF IsPreconfer, OperatorState
<1>9. /\ o.next = q.next /\ o.continuing = q.continuing /\ o.ejected = q.ejected
      /\ o.current = q.current /\ o.wasSynced = (p /\ (q.wasSynced \/ synced))
      /\ s.preconfer = p /\ s.submitter = u /\ s.eos = IsEndOfSequencing(q, p, u)
      /\ p => IF InHandoverWindow(now) THEN q.next ELSE u
  BY <1>2 DEF Derived
<1>10. InHandoverWindow(now) /\ q.wasSynced /\ q.next => p
  BY DEF IsPreconfer, InForkTransition, Told, Without
<1> HIDE DEF p
<1>11. o.wasSynced = p
  BY <1>2, <1>8, <1>9
<1>12. s.eos = (~o.continuing /\ s.preconfer /\ s.submitter /\ IsBeforeWindow(now))
  BY <1>9 DEF IsEndOfSequencing
<1>13. Heard(n, c, o, s, w)
  <2>1. w = WithinGrace(HandleOperatorChange(n, op[n], c))
    BY DEF w
  <2>2. c.ts < EpochBegin(EpochOf(now)) =>
            c = cache[n] /\ o.next = op[n].next /\ s.submitter = op[n].next
    BY <1>4, <1>7, <1>9
  <2>3. ASSUME ~(c.ts < EpochBegin(EpochOf(now)))
        PROVE  /\ s.submitter = (c.current = n /\ ~w) /\ o.next = (c.next = n /\ ~w)
               /\ o.continuing = (c.current = n /\ c.next = n /\ ~w) /\ o.current = c.current
               /\ o.ejected = IF w THEN HandleOperatorChange(n, op[n], c).ejected ELSE None
               /\ InHandoverWindow(now) /\ op[n].wasSynced /\ o.next => s.preconfer
    BY <1>6, <1>9, <1>10, <2>3
  <2>. QED  BY <1>4, <1>9, <1>11, <1>12, <2>1, <2>2, <2>3 DEF Heard
<1>. QED  BY <1>2, <1>3, <1>5, <1>13 DEF HearingBeat

\* The status of a new operator, or after a failed step, tells nothing.
LEMMA Blank ==
    ASSUME NEW n, NEW o, NEW t
    PROVE  Remembers(n, NoCache, o, NoStatus, t)
BY New DEF Remembers

\* What is common to the steps of one node.
LEMMA EndOfNode ==
    ASSUME Types, Told, EndInv, NEW n \in Nodes,
           NEW c, NEW o, NEW s, c = NoCache \/ Dated(c), \A t : c = NoCache => Remembers(n, c, o, s, t),
           c # NoCache => ready' = ready \ {n} /\ Remembers(n, c, o, s, now),
           cache' = [cache EXCEPT ![n] = c], op' = [op EXCEPT ![n] = o],
           status' = [status EXCEPT ![n] = s],
           ready' = ready \/ ready' = ready \ {n},
           UNCHANGED <<now, schedule>>
    PROVE  EndInv'
<1> SUFFICES ASSUME NEW m \in Nodes
             PROVE  /\ cache'[m] = NoCache \/ Dated(cache[m])'
                    /\ Remembers(m, cache[m], op[m], status[m], LastBeat(m))'
  BY DEF EndInv
<1>1. /\ cache'[m] = IF m = n THEN c ELSE cache[m]
      /\ op'[m] = IF m = n THEN o ELSE op[m]
      /\ status'[m] = IF m = n THEN s ELSE status[m]
  BY DEF Types
<1>2. /\ cache[m] = NoCache \/ Dated(cache[m])
      /\ Remembers(m, cache[m], op[m], status[m], LastBeat(m))
  BY DEF EndInv
<1>3. cache'[m] = NoCache \/ Dated(cache[m])'
  BY <1>1, <1>2 DEF Dated
<1>4. CASE m # n
  <2>1. LastBeat(m)' = LastBeat(m)
    BY <1>4 DEF LastBeat
  <2>. QED  BY <1>1, <1>2, <1>3, <1>4, <2>1 DEF Remembers, Usable
<1>5. CASE m = n /\ c = NoCache
  <2>1. Remembers(n, c, o, s, LastBeat(m)')
    BY <1>5
  <2>. QED  BY <1>1, <1>3, <1>5, <2>1 DEF Remembers, Usable
<1>6. CASE m = n /\ c # NoCache
  <2>1. LastBeat(m)' = now
    BY <1>6 DEF LastBeat
  <2>. QED  BY <1>1, <1>3, <1>6, <2>1 DEF Remembers, Usable
<1>. QED  BY <1>4, <1>5, <1>6

\* A heartbeat keeps the invariant.
LEMMA EndInHeartbeat ==
    ASSUME Types, Told, EndInv, NEW n \in Nodes,
           NEW behind \in BOOLEAN, NEW synced \in BOOLEAN, NEW marker \in BOOLEAN,
           NEW built \in BOOLEAN, GetStatus(n, behind, synced, marker, built)
    PROVE  EndInv'
<1>1. ready' = ready \ {n} /\ UNCHANGED <<now, schedule>>
  BY DEF GetStatus
<1>2. cache[n] = NoCache \/ Dated(cache[n])
  BY DEF EndInv
<1>3. PICK c \in Entry, o \in OperatorState, s \in StatusType, w \in BOOLEAN :
            /\ cache' = [cache EXCEPT ![n] = c] /\ op' = [op EXCEPT ![n] = o]
            /\ status' = [status EXCEPT ![n] = s]
            /\ Heard(n, c, o, s, w)
  <2>1. HearingBeat(n)
    BY <1>2, Hears
  <2>. QED  BY <2>1 DEF HearingBeat
<1>4. now \in Beats
  BY DEF Types
<1>5. ASSUME s.preconfer, ~(c.ts < EpochBegin(EpochOf(now)))
      PROVE  /\ o.ejected = None /\ o.next = (n = c.next)
             /\ s.submitter => o.continuing = (n = c.next)
  <2>1. ~w
    BY <1>3, <1>5 DEF Heard
  <2>. QED  BY <1>3, <1>5, <2>1 DEF Heard
<1>6. Remembers(n, c, o, s, now)
  BY <1>3, <1>4, <1>5 DEF Remembers, Heard
<1>7. Dated(c) /\ c # NoCache
  BY <1>3 DEF Heard
<1>. QED  BY <1>1, <1>3, <1>6, <1>7, EndOfNode

\* The next heartbeat begins.
LEMMA EndInTick ==
    ASSUME Types, Told, EndInv, Tick
    PROVE  EndInv'
<1>1. /\ UNCHANGED <<cache, op, status>> /\ ready = {} /\ ready' = Nodes
      /\ now' = now + Heartbeat
  BY DEF Tick
<1>2. now' \in Nat /\ now <= now' /\ now \in Nat /\ now' - Heartbeat = now
      /\ now \in Times /\ now' \in Times
  BY <1>1, Scheduled, ClockAssumption DEF Times
<1>3. EpochOf(now') \in Nat /\ EpochOf(now) \in Nat /\ EpochOf(now) <= EpochOf(now')
  BY <1>2, EpochsGrow
<1>4. schedule'[EpochOf(now') + 1] = schedule[EpochOf(now') + 1]
  <2>1. schedule' = schedule \/ \E m \in Nodes : schedule' = [schedule EXCEPT ![EpochOf(now')] = m]
    BY DEF Tick, Replaced, Told, Without
  <2>2. EpochOf(now') # EpochOf(now') + 1
    BY <1>3
  <2>3. schedule \in [Epochs -> Nodes]
    BY DEF Types
  <2>4. EpochOf(now') + 1 \in Epochs
    <3>1. now' <= MaxTime /\ MaxTime \in Times
      BY <1>1, <1>2, OperatorAssumption DEF Tick, Times
    <3>2. EpochOf(now') <= EpochOf(MaxTime) /\ EpochOf(MaxTime) \in Nat
      BY <1>2, <3>1, EpochsGrow
    <3>. QED  BY <1>3, <3>2 DEF Epochs
  <2>. QED  BY <2>1, <2>2, <2>3, <2>4
<1> SUFFICES ASSUME NEW n \in Nodes
             PROVE  /\ cache'[n] = NoCache \/ Dated(cache[n])'
                    /\ Remembers(n, cache[n], op[n], status[n], LastBeat(n))'
  BY DEF EndInv
<1>5. /\ cache[n] = NoCache \/ Dated(cache[n])
      /\ Remembers(n, cache[n], op[n], status[n], LastBeat(n))
  BY DEF EndInv
<1>6. cache'[n] = NoCache \/ Dated(cache[n])'
  <2> SUFFICES ASSUME Dated(cache[n]) PROVE Dated(cache[n])'
    BY <1>1, <1>5
  <2>1. cache[n].ts \in Times /\ cache[n].ts <= now /\ SlotBegin(cache[n].ts) = cache[n].ts
    BY DEF Dated
  <2>2. cache[n].ts <= now'
    BY <1>2, <2>1 DEF Times
  <2>3. EpochOf(cache[n].ts) \in Nat /\ EpochOf(cache[n].ts) <= EpochOf(now)
    BY <1>2, <2>1, EpochsGrow
  <2>4. EpochOf(cache[n].ts) = EpochOf(now') => cache[n].next = schedule'[EpochOf(now') + 1]
    <3> SUFFICES ASSUME EpochOf(cache[n].ts) = EpochOf(now')
                 PROVE  cache[n].next = schedule'[EpochOf(now') + 1]
      OBVIOUS
    <3>1. EpochOf(now) = EpochOf(now')
      BY <1>3, <2>3
    <3>. QED  BY <1>4, <3>1 DEF Dated
  <2>. QED  BY <1>1, <2>1, <2>2, <2>4 DEF Dated
<1>7. LastBeat(n) = now /\ LastBeat(n)' = now
  BY <1>1, <1>2 DEF LastBeat
<1>. QED  BY <1>1, <1>5, <1>6, <1>7 DEF Remembers, Usable

\* Every step keeps the invariant.
LEMMA EndInductive == Types /\ EndInv /\ [Next]_vars => EndInv'
<1> SUFFICES ASSUME Types, EndInv, [Next]_vars, Told' PROVE EndInv'
  BY DEF EndInv
<1>1. Told
  BY TypesInductive DEF Told, Without
<1>2. ASSUME NEW n \in Nodes, NEW behind \in BOOLEAN, NEW synced \in BOOLEAN,
             NEW marker \in BOOLEAN, NEW built \in BOOLEAN,
             GetStatus(n, behind, synced, marker, built)
      PROVE  EndInv'
  BY <1>1, <1>2, EndInHeartbeat
<1>3. ASSUME NEW n \in Nodes, NEW behind \in BOOLEAN, GetStatusFails(n, behind) PROVE EndInv'
  BY <1>1, <1>3 DEF GetStatusFails, Told, Without
<1>4. ASSUME NEW n \in Nodes, GetStatusEmpty(n) PROVE EndInv'
  <2>1. /\ cache[n] = NoCache /\ status' = [status EXCEPT ![n] = NoStatus] /\ ready' = ready \ {n}
        /\ UNCHANGED <<now, schedule, cache, op>>
    BY <1>4 DEF GetStatusEmpty
  <2>2. cache' = [cache EXCEPT ![n] = NoCache] /\ op' = [op EXCEPT ![n] = op[n]]
    BY <2>1 DEF Types
  <2>. QED  BY <1>1, <2>1, <2>2, Blank, EndOfNode
<1>5. ASSUME NEW n \in Nodes, Restart(n) PROVE EndInv'
  BY <1>1, <1>5, Blank, EndOfNode DEF Restart
<1>6. CASE Tick
  BY <1>1, <1>6, EndInTick
<1>7. CASE UNCHANGED vars
  <2>1. UNCHANGED <<now, schedule, cache, op, status, ready>>
    BY <1>7 DEF vars
  <2>2. ASSUME NEW n \in Nodes
        PROVE  /\ Dated(cache[n]) => Dated(cache[n])'
               /\ LastBeat(n)' = LastBeat(n)
    BY <2>1 DEF Dated, LastBeat
  <2>3. ASSUME NEW n \in Nodes, Remembers(n, cache[n], op[n], status[n], LastBeat(n))
        PROVE  Remembers(n, cache[n], op[n], status[n], LastBeat(n))'
    BY <2>1, <2>2, <2>3 DEF Remembers, Usable
  <2>. QED  BY <1>1, <2>1, <2>2, <2>3 DEF EndInv
<1>. QED  BY <1>2, <1>3, <1>4, <1>5, <1>6, <1>7 DEF Next

\* A preconfer with an entry of this epoch goes on in the handover window if
\* the next epoch is its own, and stops otherwise.
LEMMA GoesOn ==
    ASSUME Types, Told, EndInv, NEW n \in Nodes, NEW behind \in BOOLEAN, NEW synced \in BOOLEAN,
           NEW marker \in BOOLEAN, NEW built \in BOOLEAN,
           GetStatus(n, behind, synced, marker, built),
           InHandoverWindow(now), status[n].preconfer, op[n].wasSynced, op[n].ejected = None
    PROVE  status'[n].preconfer <=> n = schedule[EpochOf(now) + 1]
<1>1. cache[n] = NoCache \/ Dated(cache[n])
  BY DEF EndInv
<1>2. PICK c \in Entry, o \in OperatorState, s \in StatusType, w \in BOOLEAN :
            /\ cache' = [cache EXCEPT ![n] = c] /\ op' = [op EXCEPT ![n] = o]
            /\ status' = [status EXCEPT ![n] = s]
            /\ Heard(n, c, o, s, w)
  <2>1. HearingBeat(n)
    BY <1>1, Hears
  <2>. QED  BY <2>1 DEF HearingBeat
<1>3. now \in Times /\ op[n] \in OperatorState
  BY Scheduled DEF Types
<1>4. ~(c.ts < EpochBegin(EpochOf(now))) /\ EpochOf(c.ts) = EpochOf(now)
  BY <1>2, <1>3, UsableEpoch DEF Heard
<1>5. c.next = schedule[EpochOf(now) + 1]
  BY <1>2, <1>4 DEF Dated, Heard
<1>6. ~WithinGrace(HandleOperatorChange(n, op[n], c))
  BY <1>3, NoGrace
<1>7. status'[n] = s
  BY <1>2 DEF Types
<1>. QED  BY <1>2, <1>4, <1>5, <1>6, <1>7 DEF Heard

\* One heartbeat of a node.
LEMMA EndOfHeartbeat ==
    ASSUME WindowFits, Types, Told, EndInv, NEW n \in Nodes, NEW behind \in BOOLEAN,
           NEW synced \in BOOLEAN, NEW marker \in BOOLEAN, NEW built \in BOOLEAN,
           GetStatus(n, behind, synced, marker, built)
    PROVE  /\ status[n].eos => ~status'[n].preconfer
           /\ InHandoverWindow(now) /\ status[n].preconfer /\ ~status'[n].preconfer
                => status[n].eos
<1> DEFINE c == cache[n]
           o == op[n]
           s == status[n]
           t == now - Heartbeat
<1>1. n \in ready
  BY DEF GetStatus
<1>2. (c = NoCache \/ Dated(c)) /\ Remembers(n, c, o, s, t)
  BY <1>1 DEF EndInv, LastBeat
<1>3. s.eos => s.preconfer
  BY <1>2 DEF Remembers
<1> SUFFICES ASSUME s.preconfer, InHandoverWindow(now) \/ s.eos
             PROVE  /\ s.eos => ~status'[n].preconfer
                    /\ InHandoverWindow(now) /\ ~status'[n].preconfer => s.eos
  BY <1>3
<1>4. c # NoCache /\ Dated(c) /\ t \in Beats /\ Usable(c, t) /\ now = t + Heartbeat /\ t \in Times
  <2>1. c # NoCache /\ t \in Beats /\ Usable(c, t)
    BY <1>2 DEF Remembers
  <2>2. now = t + Heartbeat
    BY Scheduled, ClockAssumption, SMTT(30) DEF Times
  <2>3. t \in Times
    BY <2>1 DEF Beats
  <2>. QED  BY <1>2, <2>1, <2>2, <2>3
<1>5. s.eos <=> ~o.continuing /\ s.preconfer /\ s.submitter /\ IsBeforeWindow(t)
  BY <1>2 DEF Remembers
<1> HIDE DEF t
<1>6. /\ InHandoverWindow(now) /\ EpochOf(t) = EpochOf(now)
      /\ InHandoverWindow(t) \/ IsBeforeWindow(t)
      /\ IsBeforeWindow(t) => ~InHandoverWindow(t)
  BY <1>4, <1>5, WindowBegins DEF WindowFits
<1>7. ~(c.ts < EpochBegin(EpochOf(t))) /\ EpochOf(c.ts) = EpochOf(now)
  <2>1. CASE InHandoverWindow(t)
    BY <1>4, <1>6, <2>1, UsableEpoch
  <2>2. CASE IsBeforeWindow(t)
    <3>1. ~(c.ts < EpochBegin(EpochOf(t)))
      BY <1>4, <2>2, NotBefore DEF WindowFits, Usable, Dated
    <3>. QED  BY <1>4, <1>6, <3>1, UsableEpoch
  <2>. QED  BY <1>6, <2>1, <2>2
<1>8. c.next = schedule[EpochOf(now) + 1]
  BY <1>4, <1>7 DEF Dated
<1>9. /\ o.wasSynced /\ o.ejected = None /\ o.next = (n = c.next)
      /\ s.submitter => o.continuing = (n = c.next)
      /\ IF InHandoverWindow(t) THEN o.next ELSE s.submitter
  BY <1>2, <1>7 DEF Remembers, t
<1>10. status'[n].preconfer <=> n = c.next
  BY <1>6, <1>8, <1>9, GoesOn
<1>. QED  BY <1>5, <1>6, <1>9, <1>10

(***************************************************************************)
(* A preconfer that stops with the handover window has marked its last     *)
(* block (is_end_of_sequencing), and one that has marked a block stops,    *)
(* also when the L1 RPC is behind, the operator of the epoch is replaced,  *)
(* or nodes start again.                                                   *)
(***************************************************************************)
THEOREM EndsAreTold ==
    ASSUME WindowFits
    PROVE  Spec => EndIsTold
<1> DEFINE Step == Without({"driver", "unsynced", "replace", "fork"}) => \A n \in ready \ ready' :
                /\ status[n].eos => ~status'[n].preconfer
                /\ InHandoverWindow(now) /\ status[n].preconfer /\ ~status'[n].preconfer
                    => status[n].eos
<1>1. Init => EndInv
  <2> SUFFICES ASSUME Init, NEW n \in Nodes
               PROVE  cache[n] = NoCache /\ Remembers(n, cache[n], op[n], status[n], LastBeat(n))
    BY DEF EndInv
  <2>1. cache[n] = NoCache /\ status[n] = NoStatus
    BY DEF Init
  <2>. QED  BY <2>1, Blank
<1>2. Types /\ EndInv /\ [Next]_vars => EndInv'
  BY EndInductive
<1>3. Types /\ EndInv /\ [Next]_vars => [Step]_vars
  <2> SUFFICES ASSUME Types, EndInv, Next, Told, NEW n \in ready \ ready'
               PROVE  /\ status[n].eos => ~status'[n].preconfer
                      /\ InHandoverWindow(now) /\ status[n].preconfer /\ ~status'[n].preconfer
                            => status[n].eos
    BY DEF Told
  <2>1. n \in Nodes /\ n \in ready /\ n \notin ready'
    BY DEF Types
  <2>2. ASSUME NEW m \in Nodes, NEW behind \in BOOLEAN, NEW synced \in BOOLEAN,
               NEW marker \in BOOLEAN, NEW built \in BOOLEAN,
               GetStatus(m, behind, synced, marker, built)
        PROVE  /\ status[n].eos => ~status'[n].preconfer
               /\ InHandoverWindow(now) /\ status[n].preconfer /\ ~status'[n].preconfer
                    => status[n].eos
    <3>1. m = n
      BY <2>1, <2>2 DEF GetStatus
    <3>. QED  BY <2>2, <3>1, EndOfHeartbeat
  <2>3. ASSUME NEW m \in Nodes, NEW behind \in BOOLEAN, GetStatusFails(m, behind) PROVE FALSE
    BY <2>3 DEF GetStatusFails, Told, Without
  <2>4. ASSUME NEW m \in Nodes, GetStatusEmpty(m) PROVE ~status[n].eos /\ ~status[n].preconfer
    <3>1. m = n /\ cache[n] = NoCache
      BY <2>1, <2>4 DEF GetStatusEmpty
    <3>. QED  BY <2>1, <3>1 DEF EndInv, Remembers
  <2>5. ASSUME NEW m \in Nodes, Restart(m) PROVE FALSE
    BY <2>1, <2>5 DEF Restart
  <2>6. ~Tick
    BY <2>1 DEF Tick
  <2>. QED  BY <2>2, <2>3, <2>4, <2>5, <2>6 DEF Next
<1>4. [][Step]_vars => EndIsTold
  BY DEF EndIsTold
<1> HIDE DEF Step
<1>. QED  BY <1>1, <1>2, <1>3, <1>4, TypesInitially, TypesInductive, PTL DEF Spec

=============================================================================
