------------------------------ MODULE MCAdmission ------------------------------
(* Admission with interchangeable requests.  No liveness is checked. *)
EXTENDS Admission, TLC

(* Every fault, and an unsigned request also with a fault that another check  *)
(* could answer first.                                                        *)
MCFaultSets == {{}, {"tooLarge", "unsigned"}, {"unreadable"}, {"unsigned", "notPost"},
                {"notPost"}, {"otherEvent"}, {"noId"}}

MCSymmetry == Permutations(Requests)
=============================================================================
