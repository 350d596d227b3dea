----------------------------- MODULE MCAccounts -----------------------------
(* Accounts with a symmetry set for TLC; every set is of model values.        *)
EXTENDS Accounts, TLC

MCSymmetry ==
    UNION {Permutations(UserId), Permutations(Email), Permutations(Password),
           Permutations(Token), Permutations(ForgotRequest)}
=============================================================================
