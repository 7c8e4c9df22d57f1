------------------------------ MODULE MCExpMod ------------------------------
(* Small arguments for ExpMod. *)
EXTENDS ExpMod

SmallArguments ==
  {<<FromWord(b), FromWord(e), FromWord(m)>> : b \in 0..9, e \in 0..12, m \in 0..11}
=============================================================================
