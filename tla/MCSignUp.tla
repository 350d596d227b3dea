------------------------------ MODULE MCSignUp ------------------------------
(* SignUp with a symmetry set for TLC; every set is of model values.          *)
EXTENDS SignUp, TLC

MCSymmetry ==
    UNION {Permutations(UserId), Permutations(Email), Permutations(Password),
           Permutations(Token), Permutations(SignUpRequest)}
=============================================================================
