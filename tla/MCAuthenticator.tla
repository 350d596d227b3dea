--------------------------- MODULE MCAuthenticator ---------------------------
(* Authenticator with a symmetry set for TLC; ids and requests are model       *)
(* values.                                                                     *)
EXTENDS Authenticator, TLC

MCSymmetry == Permutations(Id) \cup Permutations(Request)
=============================================================================
