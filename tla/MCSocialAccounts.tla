-------------------------- MODULE MCSocialAccounts --------------------------
(* SocialAccounts for TLC: the bounds of each kind of history, and a symmetry *)
(* set; every set is of model values.                                         *)
EXTENDS SocialAccounts, TLC

CONSTANTS g1, g2

MCBound ==
    [overlap |-> [busy |-> 2, failures |-> 0, users |-> 3, tokens |-> 1, profiles |-> {g1}],
     moves   |-> [busy |-> 1, failures |-> 0, users |-> 2, tokens |-> 2, profiles |-> {g1}],
     stays   |-> [busy |-> 1, failures |-> 2, users |-> 3, tokens |-> 1, profiles |-> {g1, g2}]]

MCSymmetry ==
    UNION {Permutations(UserId), Permutations(Email), Permutations(Token),
           Permutations(SocialRequest)}
=============================================================================
