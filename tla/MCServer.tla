------------------------------ MODULE MCServer ------------------------------
(***************************************************************************)
(* Instances of Server.tla for TLC.                                        *)
(***************************************************************************)
EXTENDS Server, TLC

\* The kinds of request of all instances, by their size in units.
AllMagic == [short |-> TRUE, long |-> TRUE, alien |-> FALSE, huge |-> TRUE, refused |-> TRUE]
AllBody  == [short |-> 0, long |-> 2, alien |-> 0, huge |-> 3, refused |-> 0]
AllDone  == [short |-> TRUE, long |-> TRUE, alien |-> TRUE, huge |-> TRUE, refused |-> FALSE]
AllResp  == [short |-> 1, long |-> 3, alien |-> 1, huge |-> 1, refused |-> 1]

Of(f) == [k \in Kind |-> f[k]]
MCMagic == Of(AllMagic)
MCBody  == Of(AllBody)
MCDone  == Of(AllDone)
MCResp  == Of(AllResp)

\* Blocks are interchangeable where no liveness is checked.
BlockSymmetry == Permutations(Conn)
=============================================================================
