------------------------------- MODULE SlotHash -------------------------------
(***************************************************************************)
(* fetch_slot_hash (slot_hash.rs): the binary search over the SlotHashes   *)
(* sysvar, which lists the latest slots that have a block, newest first.   *)
(* An entry is its slot; the hash is named after it.                       *)
(***************************************************************************)
EXTENDS Integers, Sequences

NoHash == 0

(* Mutant of narrow: the upper half loses the entry next to the middle. *)
narrow_too_far(slots, slot, left, right) ==
    LET mid == left + (right - left) \div 2
    IN  IF slots[mid + 1] > slot THEN <<mid + 1, right>> ELSE <<left, mid - 1>>

(* The half of left .. right - 1 in which the slot is, if anywhere. *)
narrow(slots, slot, left, right) ==
    LET mid == left + (right - left) \div 2
    IN  IF slots[mid + 1] > slot THEN <<mid + 1, right>> ELSE <<left, mid>>

fetch_slot_hash(slots, slot) ==
    LET search[at \in (0..Len(slots)) \X (-1..Len(slots))] ==
            LET left == at[1]  right == at[2]
                mid  == left + (right - left) \div 2
            IN  IF left >= right THEN NoHash
                ELSE IF slots[mid + 1] = slot THEN slot
                ELSE search[narrow(slots, slot, left, right)]
    IN  search[<<0, Len(slots)>>]
=============================================================================
