------------------------------ MODULE MCAccess ------------------------------
(* One person's account, a browser with two tabs, a licence that changes. *)
EXTENDS Access

\* No list, and one whose entry has host bits set.
TwoLists == {{}, {<<3, 1>>}}
=============================================================================
