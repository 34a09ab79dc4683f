----------------------------- MODULE SlotClock -----------------------------
(***************************************************************************)
(* The slot clock (common/src/l1/slot_clock.rs): L1 slots, epochs and the  *)
(* L2 slots (heartbeats) within an L1 slot, as functions of the time.  The *)
(* slot number at genesis is 0 for every caller.                           *)
(***************************************************************************)
EXTENDS Integers

CONSTANTS
    Genesis,        \* the time of slot 0
    SlotDuration,   \* of an L1 slot
    Heartbeat,      \* the duration of an L2 slot
    SlotsPerEpoch,
    HandoverSlots   \* the length of the handover window, in L1 slots

ASSUME ClockAssumption ==
    /\ Genesis \in Nat
    /\ Heartbeat \in Nat \ {0}
    /\ SlotDuration \in Nat \ {0} /\ SlotDuration % Heartbeat = 0
    /\ SlotsPerEpoch \in Nat \ {0}
    /\ HandoverSlots \in 0 .. SlotsPerEpoch - 1

\* slot_of, start_of
SlotOf(t) == (t - Genesis) \div SlotDuration
StartOf(slot) == Genesis + slot * SlotDuration

\* get_current_epoch, get_epoch_begin_timestamp
EpochOf(t) == SlotOf(t) \div SlotsPerEpoch
EpochBegin(epoch) == StartOf(epoch * SlotsPerEpoch)

\* get_current_slot_begin_timestamp, get_current_slot_of_epoch
SlotBegin(t) == StartOf(SlotOf(t))
SlotOfEpoch(t) == SlotOf(t) % SlotsPerEpoch

\* get_current_l2_slot_within_l1_slot, get_l2_slot_begin_timestamp
L2SlotWithinL1(t) == (t - SlotBegin(t)) \div Heartbeat
L2SlotBegin(t) == Genesis + ((t - Genesis) \div Heartbeat) * Heartbeat

L2SlotsPerL1 == SlotDuration \div Heartbeat
L2SlotsPerEpoch == SlotsPerEpoch * L2SlotsPerL1

\* is_slot_in_last_n_slots_of_epoch, time_from_n_last_slots_of_epoch
InHandoverWindow(t) == SlotOfEpoch(t) >= SlotsPerEpoch - HandoverSlots
TimeFromWindow(t) == t - StartOf(SlotsPerEpoch - HandoverSlots + EpochOf(t) * SlotsPerEpoch)

\* Faulty: off by one L1 slot.
IsBeforeWindowLate(t) ==
    /\ SlotOfEpoch(t) = SlotsPerEpoch - HandoverSlots
    /\ L2SlotWithinL1(t) + 1 = L2SlotsPerL1

\* is_l2_slot_before_handover_window
IsBeforeWindow(t) ==
    /\ SlotOfEpoch(t) = SlotsPerEpoch - HandoverSlots - 1
    /\ L2SlotWithinL1(t) + 1 = L2SlotsPerL1
=============================================================================
