---------------------------- MODULE SlotCounter -----------------------------
(***************************************************************************)
(* What next_btrace_id() (src/src/os/pl-cstack.c, lines 118-147) promises  *)
(* when COMPARE_AND_SWAP is available: taking a slot is one atomic         *)
(* fetch-and-increment of the cursor modulo SAVE_TRACES.  held[l] is the   *)
(* slot activation l has taken and not yet given back, or NoSlot.          *)
(***************************************************************************)
EXTENDS Integers

CONSTANTS SAVE_TRACES, Levels

Lvl == 0 .. Levels - 1
Slot == 0 .. SAVE_TRACES - 1
NoSlot == -1

VARIABLES cursor, held

Init ==
  /\ cursor = 0
  /\ held = [l \in Lvl |-> NoSlot]

(* Activation l takes the slot under the cursor and advances it. *)
Reserve(l) ==
  /\ held[l] = NoSlot
  /\ held' = [held EXCEPT ![l] = cursor]
  /\ cursor' = (cursor + 1) % SAVE_TRACES

(* Activation l is done with its slot. *)
Release(l) ==
  /\ held[l] # NoSlot
  /\ held' = [held EXCEPT ![l] = NoSlot]
  /\ UNCHANGED cursor

Next == \E l \in Lvl : Reserve(l) \/ Release(l)

Spec == Init /\ [][Next]_<<cursor, held>>
=============================================================================
