----------------------------- MODULE MCGateway -----------------------------
(* Small instances of Gateway. *)
EXTENDS Gateway, TLC
CONSTANTS a1, a2, m1, m2

On(cap) == [enabled |-> TRUE, maxConcurrency |-> cap]
Off == [enabled |-> FALSE, maxConcurrency |-> 0]

\* Two accounts of one alias; adoption lowers the cap of the first account
\* and disables the second.
PoolOf == (m1 :> <<a1, a2>>)
PoolFallback == (m1 :> NoAlias)
PoolSnapshots == {(a1 :> On(2)) @@ (a2 :> On(1)), (a1 :> On(1)) @@ (a2 :> Off)}
PoolRank == (a1 :> 2) @@ (a2 :> 1)

Balanced == (m1 :> "balanced")
Sticky == (m1 :> "lkgp")

\* One account behind two aliases, each the fallback of the other: every
\* request may try it twice.
SoloOf == (m1 :> <<a1>>) @@ (m2 :> <<a1>>)
SoloFallback == (m1 :> m2) @@ (m2 :> m1)
SoloSnapshots == {(a1 :> On(2))}
SoloStrategy == (m1 :> "priority") @@ (m2 :> "round_robin")
NoRank == [a \in Accounts |-> 0]

Symmetry == Permutations(Requests)
=============================================================================
