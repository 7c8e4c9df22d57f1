---------------------------- MODULE MachineWords ----------------------------
(***************************************************************************)
(* The numbers that UnsignedBigInt(size_t) makes of a size_t.              *)
(***************************************************************************)
EXTENDS UnsignedBigInt

CONSTANT WordOctets   \* sizeof(size_t)

ASSUME WordAssumption ==
  /\ WordOctets \in Nat \ {0}
  /\ PowersUpTo(Base, WordOctets)
  /\ 2 < Base^WordOctets

FromWord(k) == FromNumber(k, WordOctets)
=============================================================================
