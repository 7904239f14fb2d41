------------------------------- MODULE MCSentinel ------------------------------
(* The gateway process with interchangeable requests and removals.  No        *)
(* liveness is checked with this symmetry.                                    *)
EXTENDS Sentinel, TLC

MCSymmetry == {p @@ q : p \in Permutations(Requests), q \in Permutations(Removals)}
=============================================================================
