------------------------ MODULE MCSessionRevocation ------------------------
(* Instances of SessionRevocation for TLC.                                  *)
EXTENDS SessionRevocation, TLC

(* Requests are interchangeable, and so are passwords.                      *)
RequestSymmetry == Permutations(Handlers) \cup Permutations(Passwords)
=============================================================================
