------------------------------- MODULE MCHandler -------------------------------
(* The handler with interchangeable requests and workers.  Only invariants    *)
(* are checked with this symmetry.                                            *)
EXTENDS Handler, TLC

MCSymmetry == Permutations(Requests) \union Permutations(Workers)
=============================================================================
