---------------------------- MODULE LoginRegistry ----------------------------
(***************************************************************************)
(* What the account tables promise, whatever the flows that write them and *)
(* however these interleave: an address is claimed once and by one user,   *)
(* its secret is chosen once and only after the claim, and one user at     *)
(* most is ever made superadmin.  SignUp implements this specification.    *)
(***************************************************************************)
CONSTANTS User, Address, Secret, Nobody

VARIABLES
    owner,   \* the user that claimed an address, or Nobody
    secret,  \* the secret that opens an address, or Nobody
    admin    \* the superadmins

registryVars == <<owner, secret, admin>>

RegistryInit ==
    /\ owner = [a \in Address |-> Nobody]
    /\ secret = [a \in Address |-> Nobody]
    /\ admin = {}

(* A user claims one address, and no address is claimed twice.                *)
Claim(a, u) ==
    /\ owner[a] = Nobody
    /\ \A b \in Address : owner[b] # u
    /\ owner' = [owner EXCEPT ![a] = u]
    /\ UNCHANGED <<secret, admin>>

SetSecret(a, s) ==
    /\ owner[a] # Nobody
    /\ secret[a] = Nobody
    /\ secret' = [secret EXCEPT ![a] = s]
    /\ UNCHANGED <<owner, admin>>

GrantFirst(u) ==
    /\ admin = {}
    /\ admin' = {u}
    /\ UNCHANGED <<owner, secret>>

RegistryNext ==
    \/ \E a \in Address, u \in User : Claim(a, u)
    \/ \E a \in Address, s \in Secret : SetSecret(a, s)
    \/ \E u \in User : GrantFirst(u)

RegistrySpec == RegistryInit /\ [][RegistryNext]_registryVars
=============================================================================
