----------------------------- MODULE MCPackages -----------------------------
(* Small instances of Packages.                                            *)
EXTENDS Packages, TLC

CONSTANTS pack, nopack, big

(* A pack with credit, one without an offer, one of other actions.             *)
MCOffer == (pack :> 2) @@ (nopack :> None) @@ (big :> 3)
MCAllowed == {pack, nopack}
MCSymmetry == Permutations(Request) \cup Permutations(Row)
=============================================================================
