------------------------------ MODULE MCPersist ------------------------------
(***************************************************************************)
(* Instances of Persist.tla for TLC.  The keys that fit in the buffer      *)
(* are interchangeable.                                                    *)
(***************************************************************************)
EXTENDS Persist, TLC

KeySymmetry == Permutations(Key \ WideKey)
=============================================================================
