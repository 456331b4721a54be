------------------------------- MODULE Rollout -------------------------------
(***************************************************************************)
(* What publication promises, without tables, transactions or messages:    *)
(* an operator publishes ever newer configuration versions, and a gateway  *)
(* moves, in its own time, to versions that have been published, never     *)
(* back to an older one.  A gateway that restarts begins again with the    *)
(* configuration file it was shipped with, version 0.                      *)
(* Publication.tla implements this specification.                          *)
(***************************************************************************)
EXTENDS Integers

CONSTANTS
  Gateways,
  Versions     \* the numbers a version can have, positive integers

VARIABLES
  published,   \* the versions that have been published
  running      \* the version each gateway runs, 0 for its own file

vars == <<published, running>>

Init ==
  /\ published \in SUBSET Versions
  /\ running = [g \in Gateways |-> 0]

\* A version is published once, and after everything published before it.
Publish ==
  /\ \E v \in Versions : /\ \A w \in published : w < v
                         /\ published' = published \union {v}
  /\ UNCHANGED running

\* A gateway moves to a published version that is not older than its own.
Adopt(g) ==
  /\ \E v \in published : /\ running[g] <= v
                          /\ running' = [running EXCEPT ![g] = v]
  /\ UNCHANGED published

Restart(g) ==
  /\ running' = [running EXCEPT ![g] = 0]
  /\ UNCHANGED published

\* The one-time migration of an old database may withdraw its history, before
\* any gateway is served.
Withdraw ==
  /\ \A g \in Gateways : running[g] = 0
  /\ published' \in SUBSET published
  /\ UNCHANGED running

Next ==
  \/ Publish
  \/ Withdraw
  \/ \E g \in Gateways : Adopt(g) \/ Restart(g)

Spec == Init /\ [][Next]_vars

=============================================================================
