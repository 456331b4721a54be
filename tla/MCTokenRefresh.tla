--------------------------- MODULE MCTokenRefresh ---------------------------
(* Two requests of one account; the operator logs in again once. *)
EXTENDS TokenRefresh
=============================================================================
