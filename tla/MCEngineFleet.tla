--------------------------- MODULE MCEngineFleet ---------------------------
(* Instances of EngineFleet for TLC.                                        *)
EXTENDS EngineFleet, TLC

(* Requests are interchangeable, and so are supervisor pods.                    *)
GoroutineSymmetry == Permutations(Requests) \cup Permutations(Supervisors)
=============================================================================
