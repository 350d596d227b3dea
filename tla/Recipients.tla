----------------------------- MODULE Recipients -----------------------------
(* Whom notifications and web-socket messages are for.                        *)
CONSTANT User
=============================================================================
