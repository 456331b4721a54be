---------------------------- MODULE MCQuotaReset ----------------------------
(* Small instances of QuotaReset. *)
EXTENDS QuotaReset
=============================================================================
