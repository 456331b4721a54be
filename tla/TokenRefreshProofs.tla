------------------------- MODULE TokenRefreshProofs -------------------------
(***************************************************************************)
(* Proofs about TokenRefresh, for any number of requests, grants,          *)
(* generations and retries, and any faults.                                *)
(***************************************************************************)
EXTENDS TokenRefresh, FiniteSetTheorems, TLAPS

-----------------------------------------------------------------------------
(* The inductive invariants. *)

\* Nobody knows a revision the control plane has not given out, or a grant
\* the operator has not made.
KnownBy(q, v, g) ==
    /\ q.view.rev <= v /\ q.expected <= v /\ q.rev <= v
    /\ q.view.cred.grant <= g /\ q.fresh.grant <= g
RequestKnows(q) == KnownBy(q, stored.rev, login)
RetryKnows(v) ==
    /\ retries[v].left > 0 => v <= stored.rev
    /\ retries[v].saved => v < stored.rev
    /\ retries[v].fresh.grant <= login
KnownOK ==
    /\ st.rev <= stored.rev /\ snapshot.rev <= stored.rev
    /\ stored.cred.grant <= login /\ st.cred.grant <= login /\ snapshot.cred.grant <= login
    /\ \A r \in Requests : RequestKnows(req[r])
    /\ \A v \in Revisions : RetryKnows(v)

\* The credentials under way to the control plane: of a leader that has
\* exchanged its token, or of a retry loop, with the revision they expect.
Leads(v, c) ==
    \E r \in Requests : /\ req[r].pc \in {"store", "persist", "degraded"}
                        /\ req[r].expected = v /\ req[r].fresh = c
Retries(v, c) ==
    v \in Revisions /\ retries[v].left > 0 /\ ~retries[v].saved /\ retries[v].fresh = c
UnderWay(v, c) == Leads(v, c) \/ Retries(v, c)

\* What is stored or under way was issued, and what would be accepted now is
\* newer than what it would replace.
FreshInv ==
    /\ stored.cred.gen <= issued[stored.cred.grant]
    /\ \A v \in Revisions, c \in Credential :
         UnderWay(v, c) =>
           /\ 1 <= c.gen /\ c.gen <= issued[c.grant]
           /\ (v = stored.rev /\ c.grant = stored.cred.grant) => c.gen > stored.cred.gen

\* The credentials there have been, apart from the very first.
Issued == {c \in Credential : \/ 1 <= c.gen /\ c.gen <= issued[c.grant]
                              \/ c.gen = 0 /\ 1 <= c.grant /\ c.grant <= login}

\* Every revision but the first has stored another credential, and what would
\* be accepted now has not been stored before.
Counts(S) ==
    /\ IsFiniteSet(S) /\ Cardinality(S) = stored.rev - 1
    /\ \A c \in Credential : UnderWay(stored.rev, c) => c \notin S
Counted == \E S \in SUBSET Issued : Counts(S)

RefreshInv == TypeOK /\ KnownOK /\ FreshInv /\ Counted

\* The leader of a refresh is the one the calls map names.
LeadInv ==
    \A r \in Requests : req[r].pc \in Leading => calls[req[r].expected] = r

-----------------------------------------------------------------------------
(* Numbers of credentials. *)

LEMMA Numbers ==
    /\ MaxGen \in Nat /\ MaxGrant \in Nat /\ MaxRetries \in Nat \ {0}
    /\ MaxRev \in Nat \ {0} /\ 1 \in Revisions
    /\ MaxRev - 1 = (MaxGrant + 1) * (MaxGen + 1) - 1
<1>1. MaxGen \in Nat /\ MaxGrant \in Nat /\ MaxRetries \in Nat \ {0}
  BY BoundAssumption
<1>2. (MaxGrant + 1) * MaxGen \in Nat
  BY <1>1
<1>3. (MaxGrant + 1) * (MaxGen + 1) = (MaxGrant + 1) * MaxGen + (MaxGrant + 1)
  BY <1>1
<1>4. QED
  BY <1>1, <1>2, <1>3 DEF MaxRev, Revisions

\* There are no more credentials than grants times generations.
LEMMA CredentialCount ==
    /\ IsFiniteSet(Credential)
    /\ Cardinality(Credential) <= (MaxGrant + 1) * (MaxGen + 1)
<1> DEFINE G == 0..MaxGrant
           N == 0..MaxGen
           f == [p \in G \X N |-> [grant |-> p[1], gen |-> p[2]]]
<1>1. MaxGen \in Nat /\ MaxGrant \in Nat
  BY Numbers
<1>2. IsFiniteSet(G) /\ Cardinality(G) = MaxGrant + 1
  BY <1>1, FS_Interval
<1>3. IsFiniteSet(N) /\ Cardinality(N) = MaxGen + 1
  BY <1>1, FS_Interval
<1>4. IsFiniteSet(G \X N) /\ Cardinality(G \X N) = (MaxGrant + 1) * (MaxGen + 1)
  <2> HIDE DEF G, N
  <2>1. IsFiniteSet(G \X N) /\ Cardinality(G \X N) = Cardinality(G) * Cardinality(N)
    BY <1>2, <1>3, FS_Product
  <2>2. QED
    BY <1>2, <1>3, <2>1
<1>5. f \in Surjection(G \X N, Credential)
  <2>1. f \in [G \X N -> Credential]
    BY DEF Credential
  <2>2. ASSUME NEW c \in Credential PROVE \E p \in G \X N : f[p] = c
    <3>1. c.grant \in G /\ c.gen \in N /\ c = [grant |-> c.grant, gen |-> c.gen]
      BY DEF Credential
    <3>2. <<c.grant, c.gen>> \in G \X N /\ f[<<c.grant, c.gen>>] = c
      BY <3>1
    <3>3. QED
      BY <3>2
  <2>3. QED
    BY <2>1, <2>2 DEF Surjection
<1> HIDE DEF f, G, N
<1>6. QED
  BY <1>4, <1>5, FS_Surjection

LEMMA FirstType == First \in Credential
  BY Numbers DEF First, Credential

\* So no more than MaxRev revisions store different ones after the first.
LEMMA CountBound ==
    ASSUME NEW S \in SUBSET (Credential \ {First})
    PROVE  IsFiniteSet(S) /\ Cardinality(S) \in Nat /\ Cardinality(S) <= MaxRev - 1
<1>1. IsFiniteSet(Credential) /\ Cardinality(Credential) \in Nat
  BY CredentialCount, FS_CardinalityType
<1>2. /\ IsFiniteSet(Credential \ {First})
      /\ Cardinality(Credential \ {First}) = Cardinality(Credential) - 1
  BY <1>1, FirstType, FS_RemoveElement
<1>3. /\ IsFiniteSet(S) /\ Cardinality(S) \in Nat
      /\ Cardinality(S) <= Cardinality(Credential \ {First})
  BY <1>2, FS_Subset, FS_CardinalityType
<1>4. (MaxGrant + 1) * (MaxGen + 1) \in Nat
  BY Numbers
<1>5. QED
  BY <1>1, <1>2, <1>3, <1>4, CredentialCount, Numbers

-----------------------------------------------------------------------------
(* What steps do to the credentials under way. *)

Fewer ==
    \A v \in Revisions, c \in Credential : UnderWay(v, c)' => UnderWay(v, c)
IssuedGrows ==
    /\ issued' \in [0..MaxGrant -> 0..MaxGen] /\ login' \in 0..MaxGrant /\ login <= login'
    /\ \A g \in 0..MaxGrant : issued[g] <= issued'[g]

LEMMA MoreIssued ==
    ASSUME TypeOK, IssuedGrows
    PROVE  Issued \subseteq Issued'
<1>1. ASSUME NEW c \in Issued PROVE c \in Issued'
  <2>1. c \in Credential /\ c.grant \in 0..MaxGrant /\ c.gen \in 0..MaxGen
    BY DEF Issued, Credential
  <2>2. issued[c.grant] \in Nat /\ issued'[c.grant] \in Nat /\ login \in Nat /\ login' \in Nat
        /\ issued[c.grant] <= issued'[c.grant] /\ login <= login'
    BY <2>1 DEF TypeOK, IssuedGrows
  <2>3. QED
    BY <2>1, <2>2 DEF Issued
<1>2. QED
  BY <1>1

\* Nothing is stored and nothing new gets under way.
LEMMA CalmStep ==
    ASSUME RefreshInv, stored' = stored, IssuedGrows, Fewer
    PROVE  FreshInv' /\ Counted'
<1>1. TypeOK /\ stored.rev \in Revisions /\ stored.cred \in Credential
  BY DEF RefreshInv, TypeOK, Versioned
<1>2. FreshInv'
  <2>1. stored'.cred.gen <= issued'[stored'.cred.grant]
    <3>1. stored.cred.grant \in 0..MaxGrant /\ stored.cred.gen \in 0..MaxGen
      BY <1>1 DEF Credential
    <3>2. issued[stored.cred.grant] \in 0..MaxGen /\ issued'[stored.cred.grant] \in 0..MaxGen
      BY <1>1, <3>1 DEF TypeOK, IssuedGrows
    <3>3. stored.cred.gen <= issued[stored.cred.grant]
      BY DEF RefreshInv, FreshInv
    <3>4. QED
      BY <3>1, <3>2, <3>3 DEF IssuedGrows
  <2>2. ASSUME NEW v \in Revisions, NEW c \in Credential, UnderWay(v, c)'
        PROVE  /\ 1 <= c.gen /\ c.gen <= issued'[c.grant]
               /\ (v = stored'.rev /\ c.grant = stored'.cred.grant) => c.gen > stored'.cred.gen
    <3>1. UnderWay(v, c)
      BY <2>2 DEF Fewer
    <3>2. /\ 1 <= c.gen /\ c.gen <= issued[c.grant]
          /\ (v = stored.rev /\ c.grant = stored.cred.grant) => c.gen > stored.cred.gen
      BY <3>1 DEF RefreshInv, FreshInv
    <3>3. c.grant \in 0..MaxGrant /\ c.gen \in 0..MaxGen
      BY DEF Credential
    <3>4. issued[c.grant] \in 0..MaxGen /\ issued'[c.grant] \in 0..MaxGen
          /\ issued[c.grant] <= issued'[c.grant]
      BY <1>1, <3>3 DEF TypeOK, IssuedGrows
    <3>5. QED
      BY <3>2, <3>3, <3>4
  <2>3. QED
    BY <2>1, <2>2 DEF FreshInv
<1>3. Counted'
  <2>1. PICK S \in SUBSET Issued : Counts(S)
    BY DEF RefreshInv, Counted
  <2>2. S \in SUBSET Issued'
    BY <1>1, <2>1, MoreIssued
  <2>3. Counts(S)'
    BY <1>1, <2>1 DEF Counts, Fewer
  <2>4. QED
    BY <2>2, <2>3 DEF Counted
<1>4. QED
  BY <1>2, <1>3

\* A credential that would be accepted now leaves room for its revision.
LEMMA NextRevision ==
    ASSUME RefreshInv, NEW c \in Credential, UnderWay(stored.rev, c)
    PROVE  /\ \E T \in SUBSET Issued : IsFiniteSet(T) /\ Cardinality(T) = stored.rev
           /\ stored.rev + 1 \in Revisions
           /\ 1 <= c.gen /\ c.gen <= issued[c.grant]
<1>1. stored.rev \in Revisions /\ stored.rev \in Nat
  BY Numbers DEF RefreshInv, TypeOK, Versioned, Revisions
<1>2. 1 <= c.gen /\ c.gen <= issued[c.grant]
  BY <1>1 DEF RefreshInv, FreshInv
<1>3. PICK S \in SUBSET Issued : Counts(S)
  BY DEF RefreshInv, Counted
<1>4. c \notin S /\ c \in Issued
  BY <1>2, <1>3 DEF Counts, Issued
<1> DEFINE T == S \cup {c}
<1>5. IsFiniteSet(T) /\ Cardinality(T) = stored.rev
  <2>1. IsFiniteSet(S) /\ Cardinality(S) = stored.rev - 1
    BY <1>3 DEF Counts
  <2>2. Cardinality(T) = Cardinality(S) + 1 /\ IsFiniteSet(T)
    BY <1>4, <2>1, FS_AddElement
  <2>3. QED
    BY <1>1, <2>1, <2>2
<1>6. T \subseteq Credential \ {First}
  <2>1. First \notin Issued
    BY DEF First, Issued
  <2>2. QED
    BY <1>3, <1>4, <2>1 DEF Issued
<1>7. stored.rev <= MaxRev - 1
  BY <1>5, <1>6, CountBound
<1>8. stored.rev + 1 \in Revisions
  BY <1>1, <1>7, Numbers DEF Revisions
<1>9. T \in SUBSET Issued
  BY <1>4
<1>10. QED
  BY <1>2, <1>5, <1>8, <1>9

\* The control plane accepts a credential that was under way.
LEMMA WriteStep ==
    ASSUME RefreshInv, NEW c \in Credential, UnderWay(stored.rev, c),
           stored' = Written(c), issued' = issued, login' = login, Fewer
    PROVE  FreshInv' /\ Counted' /\ stored' \in Versioned /\ stored'.rev = stored.rev + 1
<1>1. /\ TypeOK /\ KnownOK /\ stored.rev \in Revisions /\ stored.rev \in Nat
      /\ stored'.cred = c /\ stored'.rev = stored.rev + 1
  BY Numbers DEF RefreshInv, TypeOK, Versioned, Written, Revisions
<1>2. 1 <= c.gen /\ c.gen <= issued[c.grant]
  BY NextRevision
<1>3. PICK T \in SUBSET Issued : IsFiniteSet(T) /\ Cardinality(T) = stored.rev
  BY NextRevision
<1>4. stored' \in Versioned
  BY NextRevision DEF Written, Versioned
<1>5. \A v \in Revisions, d \in Credential : ~(UnderWay(v, d)' /\ v = stored'.rev)
  <2>1. ASSUME NEW v \in Revisions, NEW d \in Credential, UnderWay(v, d)
        PROVE  v <= stored.rev
    BY <1>1, <2>1 DEF UnderWay, Leads, Retries, KnownOK, RequestKnows, KnownBy, RetryKnows
  <2>2. QED
    BY <1>1, <2>1 DEF Fewer
<1>6. FreshInv'
  <2>1. stored'.cred.gen <= issued'[stored'.cred.grant]
    BY <1>1, <1>2
  <2>2. \A v \in Revisions, d \in Credential :
          UnderWay(v, d)' => 1 <= d.gen /\ d.gen <= issued'[d.grant]
    BY DEF Fewer, RefreshInv, FreshInv
  <2>3. QED
    BY <1>5, <2>1, <2>2 DEF FreshInv
<1>7. Counted'
  <2>1. T \in SUBSET Issued'
    BY <1>3 DEF Issued
  <2>2. stored'.rev - 1 = stored.rev /\ stored'.rev \in Revisions
    BY <1>1, <1>4 DEF Versioned
  <2>3. Counts(T)'
    BY <1>3, <1>5, <2>2 DEF Counts
  <2>4. QED
    BY <2>1, <2>3 DEF Counted
<1>8. QED
  BY <1>1, <1>4, <1>6, <1>7

\* The provider rotates a token: the next generation gets under way, and it
\* was never issued before.
LEMMA ExchangeStep ==
    ASSUME RefreshInv, NEW e \in Revisions, NEW c \in Credential,
           stored' = stored, IssuedGrows, c.gen = issued[c.grant] + 1, c.gen <= issued'[c.grant],
           \A v \in Revisions, d \in Credential :
             UnderWay(v, d)' => UnderWay(v, d) \/ (v = e /\ d = c)
    PROVE  FreshInv' /\ Counted'
<1>1. TypeOK /\ stored.rev \in Revisions /\ stored.cred \in Credential
  BY DEF RefreshInv, TypeOK, Versioned
<1>2. \A d \in Credential :
        /\ d.grant \in 0..MaxGrant /\ d.gen \in 0..MaxGen
        /\ issued[d.grant] \in 0..MaxGen /\ issued'[d.grant] \in 0..MaxGen
        /\ issued[d.grant] <= issued'[d.grant]
  BY <1>1 DEF TypeOK, IssuedGrows, Credential
<1>3. stored.cred.gen <= issued[stored.cred.grant]
  BY DEF RefreshInv, FreshInv
<1>4. c.gen >= 1 /\ (c.grant = stored.cred.grant => c.gen > stored.cred.gen)
  BY <1>1, <1>2, <1>3
<1>5. FreshInv'
  <2>1. stored'.cred.gen <= issued'[stored'.cred.grant]
    BY <1>1, <1>2, <1>3
  <2>2. ASSUME NEW v \in Revisions, NEW d \in Credential, UnderWay(v, d)'
        PROVE  /\ 1 <= d.gen /\ d.gen <= issued'[d.grant]
               /\ (v = stored'.rev /\ d.grant = stored'.cred.grant) => d.gen > stored'.cred.gen
    <3>1. CASE UnderWay(v, d)
      <4>1. /\ 1 <= d.gen /\ d.gen <= issued[d.grant]
            /\ (v = stored.rev /\ d.grant = stored.cred.grant) => d.gen > stored.cred.gen
        BY <3>1 DEF RefreshInv, FreshInv
      <4>2. QED
        BY <4>1, <1>2
    <3>2. CASE d = c
      BY <3>2, <1>4
    <3>3. QED
      BY <2>2, <3>1, <3>2
  <2>3. QED
    BY <2>1, <2>2 DEF FreshInv
<1>6. Counted'
  <2>1. PICK S \in SUBSET Issued : Counts(S)
    BY DEF RefreshInv, Counted
  <2>2. S \in SUBSET Issued'
    BY <1>1, <2>1, MoreIssued
  <2>3. c \notin S
    BY <1>2, <1>4, <2>1 DEF Issued
  <2>4. Counts(S)'
    BY <1>1, <2>1, <2>3 DEF Counts
  <2>5. QED
    BY <2>2, <2>4 DEF Counted
<1>7. QED
  BY <1>5, <1>6

\* The operator logs in again.
LEMMA ReauthorizeStep ==
    ASSUME RefreshInv, Reauthorize, Fewer
    PROVE  /\ FreshInv' /\ Counted' /\ stored' \in Versioned /\ stored'.rev = stored.rev + 1
           /\ stored'.cred.grant = login + 1 /\ login' \in 0..MaxGrant
<1>1. /\ TypeOK /\ KnownOK /\ stored.rev \in Revisions /\ stored.rev \in Nat
      /\ login \in Nat /\ login + 1 \in 0..MaxGrant /\ login' = login + 1 /\ issued' = issued
  BY Numbers DEF RefreshInv, TypeOK, Versioned, Reauthorize, Revisions
<1>2. PICK c \in Credential :
        /\ c.grant = login + 1 /\ c.gen = 0
        /\ stored' = [cred |-> c, rev |-> stored.rev + 1]
        /\ stored'.cred = c /\ stored'.rev = stored.rev + 1
  BY <1>1, Numbers DEF Credential, Reauthorize
<1>3. PICK S \in SUBSET Issued : Counts(S)
  BY DEF RefreshInv, Counted
<1>4. c \notin S /\ c \in Issued' /\ S \subseteq Issued' /\ First \notin Issued'
  <2>1. c \notin S
    BY <1>1, <1>2, <1>3 DEF Issued
  <2>2. c \in Issued'
    BY <1>1, <1>2 DEF Issued
  <2>3. IssuedGrows
    <3>1. \A g \in 0..MaxGrant : issued[g] \in Nat
      BY <1>1, Numbers DEF TypeOK
    <3>2. QED
      BY <1>1, <3>1, Numbers DEF IssuedGrows, TypeOK
  <2>4. First \notin Issued'
    <3>1. First.gen = 0 /\ First.grant = 0
      BY DEF First
    <3>2. QED
      BY <3>1 DEF Issued
  <2>5. QED
    BY <1>1, <1>3, <2>1, <2>2, <2>3, <2>4, MoreIssued
<1> DEFINE T == S \cup {c}
<1>5. IsFiniteSet(T) /\ Cardinality(T) = stored.rev
  <2>1. IsFiniteSet(S) /\ Cardinality(S) = stored.rev - 1
    BY <1>3 DEF Counts
  <2>2. Cardinality(T) = Cardinality(S) + 1 /\ IsFiniteSet(T)
    BY <1>4, <2>1, FS_AddElement
  <2>3. QED
    BY <1>1, <2>1, <2>2
<1>6. T \subseteq Credential \ {First}
  BY <1>4 DEF Issued
<1>7. stored.rev <= MaxRev - 1
  BY <1>5, <1>6, CountBound
<1>8. stored' \in Versioned
  <2>1. stored.rev + 1 \in Revisions
    BY <1>1, <1>7, Numbers DEF Revisions
  <2>2. QED
    BY <1>2, <2>1 DEF Versioned
<1>9. \A v \in Revisions, d \in Credential : ~(UnderWay(v, d)' /\ v = stored'.rev)
  <2>1. ASSUME NEW v \in Revisions, NEW d \in Credential, UnderWay(v, d)
        PROVE  v <= stored.rev
    BY <1>1, <2>1 DEF UnderWay, Leads, Retries, KnownOK, RequestKnows, KnownBy, RetryKnows
  <2>2. QED
    BY <1>1, <1>2, <2>1 DEF Fewer
<1>10. FreshInv'
  <2>1. stored'.cred.gen <= issued'[stored'.cred.grant]
    BY <1>1, <1>2 DEF TypeOK
  <2>2. \A v \in Revisions, d \in Credential :
          UnderWay(v, d)' => 1 <= d.gen /\ d.gen <= issued'[d.grant]
    BY <1>1 DEF Fewer, RefreshInv, FreshInv
  <2>3. QED
    BY <1>9, <2>1, <2>2 DEF FreshInv
<1>11. Counted'
  <2>1. T \in SUBSET Issued'
    BY <1>4
  <2>2. stored'.rev - 1 = stored.rev /\ stored'.rev \in Revisions
    BY <1>1, <1>2, <1>8 DEF Versioned
  <2>3. Counts(T)'
    BY <1>5, <1>9, <2>2 DEF Counts
  <2>4. QED
    BY <2>1, <2>3 DEF Counted
<1>12. QED
  BY <1>1, <1>2, <1>8, <1>10, <1>11

-----------------------------------------------------------------------------
(* What steps do to the types and to what is known. *)

Later ==
    /\ stored' \in Versioned /\ stored.rev <= stored'.rev
    /\ login' \in 0..MaxGrant /\ login <= login' /\ stored'.cred.grant <= login'

LEMMA StillKnown ==
    ASSUME TypeOK, Later, NEW q \in Request, KnownBy(q, stored.rev, login)
    PROVE  KnownBy(q, stored'.rev, login')
<1>1. /\ q.view.rev \in Revisions /\ q.expected \in Revisions /\ q.rev \in Revisions
      /\ q.view.cred.grant \in 0..MaxGrant /\ q.fresh.grant \in 0..MaxGrant
  BY DEF Request, Versioned, Credential
<1>2. stored.rev \in Revisions /\ stored'.rev \in Revisions /\ login \in Nat /\ login' \in Nat
  BY Numbers DEF TypeOK, Versioned, Later
<1>3. QED
  BY <1>1, <1>2, Numbers DEF KnownBy, Later, Revisions

RequestsFine ==
    req \in [Requests -> Request] /\ \A r \in Requests : RequestKnows(req[r])

\* One request changes.
LEMMA OneRequest ==
    ASSUME TypeOK, KnownOK, Later, NEW r \in Requests, NEW q \in Request, Put(r, q),
           KnownBy(q, stored'.rev, login')
    PROVE  /\ RequestsFine' /\ req'[r] = q /\ \A s \in Requests \ {r} : req'[s] = req[s]
<1>1. req' \in [Requests -> Request] /\ req'[r] = q /\ \A s \in Requests \ {r} : req'[s] = req[s]
  BY DEF TypeOK, Put
<1>2. ASSUME NEW s \in Requests PROVE KnownBy(req'[s], stored'.rev, login')
  <2>1. CASE s = r
    BY <1>1, <2>1
  <2>2. CASE s # r
    <3>1. req'[s] = req[s] /\ req[s] \in Request
      BY <1>1, <2>2 DEF TypeOK
    <3>2. KnownBy(req[s], stored.rev, login)
      BY DEF KnownOK, RequestKnows
    <3>3. QED
      BY <3>1, <3>2, StillKnown
  <2>3. QED
    BY <2>1, <2>2
<1>3. QED
  BY <1>1, <1>2 DEF RequestsFine, RequestKnows

LEMMA SameRequests ==
    ASSUME TypeOK, KnownOK, Later, req' = req
    PROVE  RequestsFine'
<1>1. ASSUME NEW s \in Requests PROVE KnownBy(req[s], stored'.rev, login')
  <2>1. req[s] \in Request
    BY DEF TypeOK
  <2>2. KnownBy(req[s], stored.rev, login)
    BY DEF KnownOK, RequestKnows
  <2>3. QED
    BY <2>1, <2>2, StillKnown
<1>2. QED
  BY <1>1 DEF RequestsFine, RequestKnows, TypeOK

RetriesFine ==
    retries \in [Revisions -> Retry] /\ \A v \in Revisions : RetryKnows(v)

\* At most the retry loop of one revision changes.
LEMMA OneRetry ==
    ASSUME TypeOK, KnownOK, Later, NEW v \in Revisions, NEW t \in Retry,
           retries' = [retries EXCEPT ![v] = t],
           t.left > 0 => v <= stored'.rev, t.saved => v < stored'.rev,
           t.fresh.grant <= login'
    PROVE  RetriesFine' /\ retries'[v] = t /\ \A w \in Revisions \ {v} : retries'[w] = retries[w]
<1>1. /\ retries' \in [Revisions -> Retry] /\ retries'[v] = t
      /\ \A w \in Revisions \ {v} : retries'[w] = retries[w]
  BY DEF TypeOK
<1>2. ASSUME NEW w \in Revisions PROVE RetryKnows(w)'
  <2>1. CASE w = v
    BY <1>1, <2>1 DEF RetryKnows
  <2>2. CASE w # v
    <3>1. retries'[w] = retries[w] /\ retries[w].fresh.grant \in 0..MaxGrant
      BY <1>1, <2>2 DEF TypeOK, Retry, Credential
    <3>2. RetryKnows(w)
      BY DEF KnownOK
    <3>3. stored.rev \in Revisions /\ stored'.rev \in Revisions /\ login \in Nat /\ login' \in Nat
      BY Numbers DEF TypeOK, Versioned, Later
    <3>4. QED
      BY <3>1, <3>2, <3>3, Numbers DEF RetryKnows, Later, Revisions
  <2>3. QED
    BY <2>1, <2>2
<1>3. QED
  BY <1>1, <1>2 DEF RetriesFine

LEMMA SameRetries ==
    ASSUME TypeOK, KnownOK, Later, retries' = retries
    PROVE  RetriesFine'
<1>1. ASSUME NEW w \in Revisions PROVE RetryKnows(w)'
  <2>1. retries[w].fresh.grant \in 0..MaxGrant
    BY DEF TypeOK, Retry, Credential
  <2>2. RetryKnows(w)
    BY DEF KnownOK
  <2>3. stored.rev \in Revisions /\ stored'.rev \in Revisions /\ login \in Nat /\ login' \in Nat
    BY Numbers DEF TypeOK, Versioned, Later
  <2>4. QED
    BY <2>1, <2>2, <2>3, Numbers DEF RetryKnows, Later, Revisions
<1>2. QED
  BY <1>1 DEF RetriesFine, TypeOK

StateFine == st \in State /\ st.rev <= stored.rev /\ st.cred.grant <= login
SnapshotFine ==
    snapshot \in Versioned /\ snapshot.rev <= stored.rev /\ snapshot.cred.grant <= login

LEMMA SameRest ==
    ASSUME TypeOK, KnownOK, Later
    PROVE  (st' = st => StateFine') /\ (snapshot' = snapshot => SnapshotFine')
<1>1. /\ stored.rev \in Revisions /\ stored'.rev \in Revisions /\ login \in Nat /\ login' \in Nat
      /\ st \in State /\ st.rev \in Revisions /\ st.cred.grant \in 0..MaxGrant
      /\ snapshot \in Versioned /\ snapshot.rev \in Revisions /\ snapshot.cred.grant \in 0..MaxGrant
  BY Numbers DEF TypeOK, Versioned, Later, State, Credential
<1>2. QED
  BY <1>1, Numbers DEF StateFine, SnapshotFine, KnownOK, Later, Revisions

\* The parts put together.
LEMMA AllFine ==
    ASSUME Later, IssuedGrows, RequestsFine', RetriesFine', StateFine', SnapshotFine',
           calls' \in [Revisions -> Requests \cup {NoRequest}]
    PROVE  TypeOK' /\ KnownOK'
  BY DEF Later, IssuedGrows, RequestsFine, RetriesFine, StateFine, SnapshotFine, TypeOK, KnownOK

LEMMA SameIssued ==
    ASSUME TypeOK, issued' = issued, login' = login
    PROVE  IssuedGrows
<1>1. \A g \in 0..MaxGrant : issued[g] \in Nat
  BY Numbers DEF TypeOK
<1>2. QED
  BY <1>1, Numbers DEF TypeOK, IssuedGrows

LEMMA SameStored ==
    ASSUME TypeOK, KnownOK, stored' = stored, login' = login
    PROVE  Later
  BY Numbers DEF TypeOK, KnownOK, Versioned, Revisions, Later

\* What is under way after a step was under way before it.
Writers == {"store", "persist", "degraded"}
LEMMA FewerStep ==
    ASSUME \A s \in Requests :
             req'[s].pc \in Writers => UnderWay(req'[s].expected, req'[s].fresh),
           \A v \in Revisions :
             retries'[v].left > 0 /\ ~retries'[v].saved => UnderWay(v, retries'[v].fresh)
    PROVE  Fewer
<1>1. ASSUME NEW v \in Revisions, NEW c \in Credential, UnderWay(v, c)'
      PROVE  UnderWay(v, c)
  <2>1. CASE Leads(v, c)'
    BY <2>1 DEF Leads, Writers
  <2>2. CASE Retries(v, c)'
    BY <2>2 DEF Retries
  <2>3. QED
    BY <1>1, <2>1, <2>2 DEF UnderWay
<1>2. QED
  BY <1>1 DEF Fewer

LEMMA AlreadyUnderWay ==
    /\ \A s \in Requests : req[s].pc \in Writers => UnderWay(req[s].expected, req[s].fresh)
    /\ \A v \in Revisions :
         retries[v].left > 0 /\ ~retries[v].saved => UnderWay(v, retries[v].fresh)
<1>1. ASSUME NEW s \in Requests, req[s].pc \in Writers
      PROVE  UnderWay(req[s].expected, req[s].fresh)
  BY <1>1 DEF UnderWay, Leads, Writers
<1>2. ASSUME NEW v \in Revisions, retries[v].left > 0 /\ ~retries[v].saved
      PROVE  UnderWay(v, retries[v].fresh)
  BY <1>2 DEF UnderWay, Retries
<1>3. QED
  BY <1>1, <1>2

\* A request that changes without taking up a new credential.
LEMMA QuietRequest ==
    ASSUME TypeOK, NEW r \in Requests, NEW q \in Request, Put(r, q), retries' = retries,
           q.pc \in Writers => UnderWay(q.expected, q.fresh)
    PROVE  Fewer
<1>1. req'[r] = q /\ \A s \in Requests \ {r} : req'[s] = req[s]
  BY DEF TypeOK, Put
<1>2. QED
  BY <1>1, AlreadyUnderWay, FewerStep

LEMMA IdleType == Idle \in Request /\ \A v, g \in Nat : v >= 1 => KnownBy(Idle, v, g)
<1>1. [cred |-> First, rev |-> 1] \in Versioned
  BY FirstType, Numbers DEF Versioned
<1>2. Idle \in Request
  BY <1>1, FirstType, Numbers DEF Idle, Request
<1>3. First.grant = 0 /\ Idle.view = [cred |-> First, rev |-> 1] /\ Idle.expected = 1
      /\ Idle.fresh = First /\ Idle.rev = 1
  BY DEF Idle, First
<1>4. QED
  BY <1>2, <1>3 DEF KnownBy

\* What the invariant says of one request.
LEMMA RequestFacts ==
    ASSUME RefreshInv, NEW r \in Requests
    PROVE  /\ TypeOK /\ KnownOK /\ req[r] \in Request /\ req[r].view \in Versioned
           /\ req[r].expected \in Revisions /\ req[r].fresh \in Credential
           /\ req[r].rev \in Revisions /\ KnownBy(req[r], stored.rev, login)
           /\ stored.rev \in Nat /\ stored.rev >= 1 /\ login \in Nat
           /\ KnownBy(Idle, stored.rev, login)
<1>1. TypeOK /\ KnownOK /\ req[r] \in Request
  BY DEF RefreshInv, TypeOK
<1>2. /\ stored.rev \in Nat /\ stored.rev >= 1 /\ login \in Nat
  BY <1>1, Numbers DEF TypeOK, Versioned, Revisions
<1>3. QED
  BY <1>1, <1>2, IdleType DEF KnownOK, RequestKnows, Request

-----------------------------------------------------------------------------
(* The steps. *)

\* A step of one request that touches neither the control plane nor the
\* retries, and takes up no new credential.
LEMMA RequestStep ==
    ASSUME RefreshInv, NEW r \in Requests, NEW q \in Request, Put(r, q),
           KnownBy(q, stored.rev, login), q.pc \in Writers => UnderWay(q.expected, q.fresh),
           IssuedGrows, login' = login, stored' = stored, snapshot' = snapshot,
           retries' = retries, StateFine',
           calls' \in [Revisions -> Requests \cup {NoRequest}]
    PROVE  RefreshInv'
<1>1. TypeOK /\ KnownOK
  BY DEF RefreshInv
<1>2. Later
  BY <1>1, SameStored
<1>3. RequestsFine' /\ RetriesFine' /\ SnapshotFine'
  BY <1>1, <1>2, OneRequest, SameRetries, SameRest
<1>4. Fewer
  BY <1>1, QuietRequest
<1>5. QED
  BY <1>2, <1>3, <1>4, AllFine, CalmStep DEF RefreshInv

LEMMA CallStep ==
    ASSUME RefreshInv, NEW r \in Requests, Call(r)
    PROVE  RefreshInv'
<1>1. PICK q \in Request :
        /\ q = [Idle EXCEPT !.pc = "lookup", !.view = snapshot]
        /\ q.pc = "lookup" /\ q.view = snapshot /\ q.expected = 1 /\ q.rev = 1 /\ q.fresh = First
  <2>1. snapshot \in Versioned
    BY DEF RefreshInv, TypeOK
  <2> DEFINE q == [Idle EXCEPT !.pc = "lookup", !.view = snapshot]
  <2>2. /\ q \in Request /\ q.pc = "lookup" /\ q.view = snapshot
        /\ q.expected = Idle.expected /\ q.rev = Idle.rev /\ q.fresh = Idle.fresh
    BY <2>1, IdleType DEF Request
  <2>3. Idle.expected = 1 /\ Idle.rev = 1 /\ Idle.fresh = First
    BY DEF Idle
  <2> HIDE DEF q
  <2>4. QED
    BY <2>2, <2>3 DEF q
<1>2. KnownBy(q, stored.rev, login) /\ q.pc \notin Writers
  <2>1. First.grant = 0
    BY DEF First
  <2>2. QED
    BY <1>1, <2>1, RequestFacts DEF KnownBy, KnownOK, Writers
<1>3. /\ Put(r, q) /\ issued' = issued /\ login' = login /\ stored' = stored
      /\ snapshot' = snapshot /\ st' = st /\ calls' = calls /\ retries' = retries
  BY <1>1 DEF Call
<1>4. TypeOK /\ KnownOK
  BY DEF RefreshInv
<1>5. IssuedGrows /\ StateFine'
  BY <1>3, <1>4, SameIssued, SameStored, SameRest
<1>6. calls' \in [Revisions -> Requests \cup {NoRequest}]
  BY <1>3, <1>4 DEF TypeOK
<1>7. QED
  BY <1>2, <1>3, <1>5, <1>6, RequestStep

\* What a lookup leaves in Manager.creds.
LEMMA SeenType ==
    ASSUME RefreshInv, NEW r \in Requests
    PROVE  /\ Seen(req[r].view) \in State /\ Seen(req[r].view).rev <= stored.rev
           /\ Seen(req[r].view).cred.grant <= login
<1>1. req[r].view \in Versioned /\ st \in State /\ KnownBy(req[r], stored.rev, login) /\ KnownOK
  BY RequestFacts DEF TypeOK
<1>2. CASE Seen(req[r].view) = st
  BY <1>1, <1>2 DEF KnownOK
<1>3. CASE Seen(req[r].view) = [known |-> TRUE, cred |-> req[r].view.cred,
                                rev |-> req[r].view.rev, degraded |-> FALSE]
  BY <1>1, <1>3 DEF KnownBy, State, Versioned
<1>4. QED
  BY <1>2, <1>3 DEF Seen

LEMMA LookupStep ==
    ASSUME RefreshInv, NEW r \in Requests, NEW need \in BOOLEAN, Lookup(r, need)
    PROVE  RefreshInv'
<1>1. PICK s \in State : s = Seen(req[r].view) /\ s.rev <= stored.rev /\ s.cred.grant <= login
  BY SeenType
<1>2. /\ issued' = issued /\ login' = login /\ stored' = stored
      /\ snapshot' = snapshot /\ retries' = retries /\ st' = s
  BY <1>1 DEF Lookup
<1>3. TypeOK /\ KnownOK /\ calls \in [Revisions -> Requests \cup {NoRequest}]
      /\ s.rev \in Revisions /\ s.cred \in Credential
  BY DEF RefreshInv, TypeOK, State
<1>4. IssuedGrows
  BY <1>2, <1>3, SameIssued
<1>5. StateFine'
  BY <1>1, <1>2 DEF StateFine
<1>6. KnownBy(Idle, stored.rev, login) /\ Idle \in Request /\ Idle.pc = "idle"
  BY RequestFacts, IdleType DEF Idle
<1>7. CASE Put(r, Idle) /\ calls' = calls
  BY <1>2, <1>3, <1>4, <1>5, <1>6, <1>7, RequestStep DEF Writers
<1>8. CASE Put(r, [Idle EXCEPT !.pc = "waiting", !.on = calls[s.rev]]) /\ calls' = calls
  <2>1. PICK q \in Request :
          /\ q = [Idle EXCEPT !.pc = "waiting", !.on = calls[s.rev]] /\ q.pc = "waiting"
          /\ q.view = Idle.view /\ q.expected = Idle.expected /\ q.rev = Idle.rev
          /\ q.fresh = Idle.fresh
    <3>1. calls[s.rev] \in Requests \cup {NoRequest}
      BY <1>3
    <3> DEFINE q == [Idle EXCEPT !.pc = "waiting", !.on = calls[s.rev]]
    <3>2. /\ q \in Request /\ q.pc = "waiting" /\ q.view = Idle.view
          /\ q.expected = Idle.expected /\ q.rev = Idle.rev /\ q.fresh = Idle.fresh
      BY <1>6, <3>1 DEF Request
    <3>3. QED
      BY <3>2
  <2>2. KnownBy(q, stored.rev, login)
    BY <1>6, <2>1 DEF KnownBy
  <2>3. QED
    BY <1>2, <1>3, <1>4, <1>5, <1>8, <2>1, <2>2, RequestStep DEF Writers
<1>9. CASE /\ calls' = [calls EXCEPT ![s.rev] = r]
           /\ Put(r, [req[r] EXCEPT !.pc = "exchange", !.expected = s.rev,
                                    !.fresh = s.cred, !.view = Idle.view])
  <2>1. PICK q \in Request :
          /\ q = [req[r] EXCEPT !.pc = "exchange", !.expected = s.rev,
                                !.fresh = s.cred, !.view = Idle.view]
          /\ q.pc = "exchange" /\ q.view = Idle.view /\ q.expected = s.rev
          /\ q.rev = req[r].rev /\ q.fresh = s.cred
    <3>1. req[r] \in Request /\ Idle.view \in Versioned
      BY <1>6, RequestFacts DEF Request
    <3> DEFINE q == [req[r] EXCEPT !.pc = "exchange", !.expected = s.rev,
                                   !.fresh = s.cred, !.view = Idle.view]
    <3>2. /\ q \in Request /\ q.pc = "exchange" /\ q.view = Idle.view /\ q.expected = s.rev
          /\ q.rev = req[r].rev /\ q.fresh = s.cred
      BY <1>3, <3>1 DEF Request
    <3>3. QED
      BY <3>2
  <2>2. KnownBy(q, stored.rev, login)
    BY <1>1, <1>6, <2>1, RequestFacts DEF KnownBy
  <2>3. calls' \in [Revisions -> Requests \cup {NoRequest}]
    BY <1>3, <1>9
  <2>4. QED
    BY <1>2, <1>4, <1>5, <1>9, <2>1, <2>2, <2>3, RequestStep DEF Writers
<1>10. QED
  BY <1>1, <1>7, <1>8, <1>9 DEF Lookup

Points == {"store", "persist", "saved", "degraded", "finish"}

\* A request that only moves on.
LEMMA MovesOn ==
    ASSUME RefreshInv, NEW r \in Requests, NEW p \in Points
    PROVE  \E q \in Request :
             /\ q = [req[r] EXCEPT !.pc = p] /\ q.pc = p /\ q.view = req[r].view
             /\ q.expected = req[r].expected /\ q.fresh = req[r].fresh /\ q.rev = req[r].rev
             /\ KnownBy(q, stored.rev, login)
<1> DEFINE q == [req[r] EXCEPT !.pc = p]
<1>1. /\ q \in Request /\ q.pc = p /\ q.view = req[r].view
      /\ q.expected = req[r].expected /\ q.fresh = req[r].fresh /\ q.rev = req[r].rev
  BY RequestFacts DEF Request, Points
<1>2. KnownBy(q, stored.rev, login)
  BY <1>1, RequestFacts DEF KnownBy
<1>3. QED
  BY <1>1, <1>2

LEMMA ExchangeStepOf ==
    ASSUME RefreshInv, NEW r \in Requests, Exchange(r)
    PROVE  RefreshInv'
<1>1. PICK old \in Credential : old = req[r].fresh /\ old.grant <= login
  BY RequestFacts DEF KnownBy
<1>2. /\ login' = login /\ stored' = stored /\ snapshot' = snapshot /\ st' = st
      /\ calls' = calls /\ retries' = retries
  BY DEF Exchange
<1>3. TypeOK /\ KnownOK /\ old.grant \in 0..MaxGrant /\ old.gen \in 0..MaxGen
      /\ issued \in [0..MaxGrant -> 0..MaxGen] /\ login \in 0..MaxGrant
  BY DEF RefreshInv, TypeOK, Credential
<1>4. Later /\ StateFine' /\ calls' \in [Revisions -> Requests \cup {NoRequest}]
  BY <1>2, <1>3, SameStored, SameRest DEF TypeOK
<1> DEFINE rotates == issued[old.grant] = old.gen /\ old.gen < MaxGen - old.grant
           rotated == [issued EXCEPT ![old.grant] = @ + 1]
<1>5. ASSUME rotates, issued' = rotated
      PROVE  IssuedGrows /\ old.gen + 1 \in 0..MaxGen /\ issued'[old.grant] = old.gen + 1
  <2>1. old.gen + 1 \in 0..MaxGen
    BY <1>3, <1>5, Numbers
  <2>2. /\ issued' \in [0..MaxGrant -> 0..MaxGen] /\ issued'[old.grant] = old.gen + 1
        /\ \A g \in 0..MaxGrant : g # old.grant => issued'[g] = issued[g]
    BY <1>3, <1>5, <2>1
  <2>3. \A g \in 0..MaxGrant : issued[g] <= issued'[g]
    BY <1>3, <1>5, <2>2, Numbers
  <2>4. QED
    BY <1>2, <1>3, <2>1, <2>2, <2>3, Numbers DEF IssuedGrows
<1>6. CASE rotates /\ issued' = rotated
           /\ Put(r, [req[r] EXCEPT !.pc = "store", !.fresh = NextGen(old)])
  <2>1. PICK c \in Credential : c = NextGen(old) /\ c.grant = old.grant /\ c.gen = old.gen + 1
    <3>1. NextGen(old) = [grant |-> old.grant, gen |-> old.gen + 1]
      BY DEF NextGen, Credential
    <3>2. QED
      BY <1>3, <1>5, <1>6, <3>1 DEF Credential
  <2>2. PICK q \in Request :
          /\ q = [req[r] EXCEPT !.pc = "store", !.fresh = c] /\ q.pc = "store" /\ q.fresh = c
          /\ q.view = req[r].view /\ q.expected = req[r].expected /\ q.rev = req[r].rev
    <3> DEFINE q == [req[r] EXCEPT !.pc = "store", !.fresh = c]
    <3>1. /\ q \in Request /\ q.pc = "store" /\ q.fresh = c
          /\ q.view = req[r].view /\ q.expected = req[r].expected /\ q.rev = req[r].rev
      BY RequestFacts DEF Request
    <3>2. QED
      BY <3>1
  <2>3. KnownBy(q, stored.rev, login)
    BY <1>1, <2>1, <2>2, RequestFacts DEF KnownBy
  <2>4. Put(r, q)
    BY <1>6, <2>1, <2>2
  <2>5. /\ RequestsFine' /\ RetriesFine' /\ SnapshotFine'
        /\ req'[r] = q /\ \A s \in Requests \ {r} : req'[s] = req[s]
    BY <1>2, <1>3, <1>4, <2>3, <2>4, OneRequest, SameRetries, SameRest
  <2>6. PICK e \in Revisions : e = req[r].expected
    BY RequestFacts
  <2>7. ASSUME NEW v \in Revisions, NEW d \in Credential, UnderWay(v, d)'
        PROVE  UnderWay(v, d) \/ (v = e /\ d = c)
    <3>1. CASE Leads(v, d)'
      BY <2>2, <2>5, <2>6, <3>1 DEF Leads, UnderWay
    <3>2. CASE Retries(v, d)'
      BY <1>2, <3>2 DEF Retries, UnderWay
    <3>3. QED
      BY <2>7, <3>1, <3>2 DEF UnderWay
  <2>8. FreshInv' /\ Counted'
    <3>1. c.gen = issued[c.grant] + 1 /\ c.gen <= issued'[c.grant] /\ IssuedGrows
      BY <1>3, <1>5, <1>6, <2>1
    <3>2. QED
      BY <1>2, <2>7, <3>1, ExchangeStep
  <2>9. QED
    BY <1>4, <1>5, <1>6, <2>5, <2>8, AllFine DEF RefreshInv
<1>7. CASE /\ (rotates /\ issued' = rotated) \/ issued' = issued
           /\ Put(r, [req[r] EXCEPT !.pc = "finish"])
  <2>1. IssuedGrows
    BY <1>2, <1>3, <1>5, <1>7, SameIssued
  <2>2. PICK q \in Request : /\ q = [req[r] EXCEPT !.pc = "finish"] /\ q.pc = "finish"
                             /\ KnownBy(q, stored.rev, login)
    BY MovesOn DEF Points
  <2>3. QED
    BY <1>2, <1>4, <1>7, <2>1, <2>2, RequestStep DEF Writers
<1>8. QED
  BY <1>1, <1>6, <1>7 DEF Exchange

LEMMA StoreStep ==
    ASSUME RefreshInv, NEW r \in Requests, Store(r)
    PROVE  RefreshInv'
<1>1. PICK q \in Request :
        /\ q = [req[r] EXCEPT !.pc = "persist"] /\ q.pc = "persist"
        /\ q.expected = req[r].expected /\ q.fresh = req[r].fresh /\ KnownBy(q, stored.rev, login)
  BY MovesOn DEF Points
<1>2. /\ issued' = issued /\ login' = login /\ stored' = stored /\ snapshot' = snapshot
      /\ calls' = calls /\ retries' = retries /\ Put(r, q)
      /\ st' = [st EXCEPT !.cred = req[r].fresh, !.degraded = FALSE]
  BY <1>1 DEF Store
<1>3. UnderWay(q.expected, q.fresh)
  BY <1>1, AlreadyUnderWay DEF Store, Writers
<1>4. TypeOK /\ KnownOK /\ st \in State
  BY DEF RefreshInv, TypeOK
<1>5. StateFine'
  <2>1. st' \in State /\ st'.rev = st.rev /\ st'.cred = req[r].fresh
    BY <1>2, <1>4, RequestFacts DEF State
  <2>2. QED
    BY <1>2, <1>4, <2>1, RequestFacts DEF StateFine, KnownOK, KnownBy
<1>6. IssuedGrows /\ calls' \in [Revisions -> Requests \cup {NoRequest}]
  BY <1>2, <1>4, SameIssued DEF TypeOK
<1>7. QED
  BY <1>2, <1>3, <1>5, <1>6, <1>1, RequestStep

LEMMA SavedStep ==
    ASSUME RefreshInv, NEW r \in Requests, Saved(r)
    PROVE  RefreshInv'
<1>1. PICK q \in Request : /\ q = [req[r] EXCEPT !.pc = "finish"] /\ q.pc = "finish"
                           /\ KnownBy(q, stored.rev, login)
  BY MovesOn DEF Points
<1>2. /\ issued' = issued /\ login' = login /\ stored' = stored /\ snapshot' = snapshot
      /\ calls' = calls /\ retries' = retries /\ Put(r, q)
      /\ st' = [known |-> TRUE, cred |-> req[r].fresh, rev |-> req[r].rev, degraded |-> FALSE]
  BY <1>1 DEF Saved
<1>3. TypeOK /\ KnownOK
  BY DEF RefreshInv
<1>4. StateFine'
  <2>1. st' \in State /\ st'.rev = req[r].rev /\ st'.cred = req[r].fresh
    BY <1>2, RequestFacts DEF State
  <2>2. QED
    BY <1>2, <2>1, RequestFacts DEF StateFine, KnownBy
<1>5. IssuedGrows /\ calls' \in [Revisions -> Requests \cup {NoRequest}]
  BY <1>2, <1>3, SameIssued DEF TypeOK
<1>6. QED
  BY <1>1, <1>2, <1>4, <1>5, RequestStep DEF Writers

\* A persist that reaches the control plane, or not.
LEMMA PersistStep ==
    ASSUME RefreshInv, NEW r \in Requests, Persist(r)
    PROVE  RefreshInv'
<1>1. /\ issued' = issued /\ login' = login /\ snapshot' = snapshot /\ st' = st
      /\ calls' = calls /\ retries' = retries /\ req[r].pc = "persist"
  BY DEF Persist
<1>2. TypeOK /\ KnownOK /\ UnderWay(req[r].expected, req[r].fresh)
  BY <1>1, AlreadyUnderWay DEF RefreshInv, Writers
<1>3. IssuedGrows /\ calls' \in [Revisions -> Requests \cup {NoRequest}]
  BY <1>1, <1>2, SameIssued DEF TypeOK
<1>4. ASSUME NEW p \in {"finish", "degraded"}, stored' = stored, Put(r, [req[r] EXCEPT !.pc = p])
      PROVE  RefreshInv'
  <2>1. PICK q \in Request :
          /\ q = [req[r] EXCEPT !.pc = p] /\ q.pc = p /\ q.expected = req[r].expected
          /\ q.fresh = req[r].fresh /\ KnownBy(q, stored.rev, login)
    BY MovesOn DEF Points
  <2>2. StateFine'
    BY <1>1, <1>2, <1>4, SameStored, SameRest
  <2>3. QED
    BY <1>1, <1>2, <1>3, <1>4, <2>1, <2>2, RequestStep
<1>5. ASSUME Accepts(req[r].expected), stored' = Written(req[r].fresh), NEW q \in Request,
             Put(r, q), q.pc \in Writers => UnderWay(q.expected, q.fresh),
             KnownBy(q, stored.rev + 1, login)
      PROVE  RefreshInv'
  <2>1. Fewer
    BY <1>1, <1>2, <1>5, QuietRequest
  <2>2. PICK c \in Credential : c = req[r].fresh /\ c.grant <= login
    BY RequestFacts DEF KnownBy
  <2>3. UnderWay(stored.rev, c)
    BY <1>2, <1>5, <2>2 DEF Accepts
  <2>4. FreshInv' /\ Counted' /\ stored' \in Versioned /\ stored'.rev = stored.rev + 1
    BY <1>1, <1>5, <2>1, <2>2, <2>3, WriteStep
  <2>5. Later
    <3>1. stored'.cred = c /\ login \in Nat /\ login \in 0..MaxGrant /\ stored.rev \in Nat
      BY <1>5, <2>2, RequestFacts DEF Written, TypeOK
    <3>2. QED
      BY <1>1, <2>2, <2>4, <3>1 DEF Later
  <2>6. RequestsFine' /\ RetriesFine' /\ SnapshotFine' /\ StateFine'
    BY <1>1, <1>2, <1>5, <2>4, <2>5, OneRequest, SameRetries, SameRest
  <2>7. QED
    BY <1>3, <2>4, <2>5, <2>6, AllFine DEF RefreshInv
<1>6. CASE /\ Accepts(req[r].expected) /\ stored' = Written(req[r].fresh)
           /\ Put(r, [req[r] EXCEPT !.pc = "saved", !.rev = stored.rev + 1])
  <2>1. stored.rev + 1 \in Revisions
    BY <1>2, <1>6, RequestFacts, NextRevision DEF Accepts
  <2>2. PICK q \in Request :
          /\ q = [req[r] EXCEPT !.pc = "saved", !.rev = stored.rev + 1] /\ q.pc = "saved"
          /\ q.rev = stored.rev + 1 /\ q.fresh = req[r].fresh
          /\ q.view = req[r].view /\ q.expected = req[r].expected
    <3> DEFINE q == [req[r] EXCEPT !.pc = "saved", !.rev = stored.rev + 1]
    <3>1. /\ q \in Request /\ q.pc = "saved" /\ q.rev = stored.rev + 1 /\ q.fresh = req[r].fresh
          /\ q.view = req[r].view /\ q.expected = req[r].expected
      BY <2>1, RequestFacts DEF Request
    <3>2. QED
      BY <3>1
  <2>3. KnownBy(q, stored.rev + 1, login)
    <3>1. /\ q.view.rev \in Nat /\ q.expected \in Nat /\ q.rev \in Nat /\ stored.rev \in Nat
      BY RequestFacts, Numbers DEF Request, Versioned, Revisions
    <3>2. QED
      BY <2>2, <3>1, RequestFacts DEF KnownBy
  <2>4. QED
    BY <1>5, <1>6, <2>2, <2>3 DEF Writers
<1>7. CASE /\ Accepts(req[r].expected) /\ stored' = Written(req[r].fresh)
           /\ Put(r, [req[r] EXCEPT !.pc = "degraded"])
  <2>1. PICK q \in Request :
          /\ q = [req[r] EXCEPT !.pc = "degraded"] /\ q.pc = "degraded"
          /\ q.expected = req[r].expected /\ q.fresh = req[r].fresh
          /\ KnownBy(q, stored.rev, login)
    BY MovesOn DEF Points
  <2>2. KnownBy(q, stored.rev + 1, login)
    <3>1. /\ q.view.rev \in Nat /\ q.expected \in Nat /\ q.rev \in Nat /\ stored.rev \in Nat
      BY RequestFacts, Numbers DEF Request, Versioned, Revisions
    <3>2. QED
      BY <2>1, <3>1 DEF KnownBy
  <2>3. QED
    BY <1>2, <1>5, <1>7, <2>1, <2>2
<1>8. QED
  BY <1>4, <1>6, <1>7 DEF Persist

LEMMA DegradeStep ==
    ASSUME RefreshInv, NEW r \in Requests, Degrade(r)
    PROVE  RefreshInv'
<1>1. PICK q \in Request : /\ q = [req[r] EXCEPT !.pc = "finish"] /\ q.pc = "finish"
                           /\ KnownBy(q, stored.rev, login)
  BY MovesOn DEF Points
<1>2. /\ issued' = issued /\ login' = login /\ stored' = stored /\ snapshot' = snapshot
      /\ calls' = calls /\ Put(r, q) /\ st' = [st EXCEPT !.degraded = TRUE]
      /\ req[r].pc = "degraded"
  BY <1>1 DEF Degrade
<1>3. PICK v \in Revisions : v = req[r].expected /\ v <= stored.rev
  BY RequestFacts DEF KnownBy
<1>4. PICK c \in Credential : c = req[r].fresh /\ c.grant <= login
  BY RequestFacts DEF KnownBy
<1>5. TypeOK /\ KnownOK /\ UnderWay(v, c) /\ st \in State /\ stored.rev \in Nat
  BY <1>2, <1>3, <1>4, AlreadyUnderWay, RequestFacts DEF Writers, TypeOK
<1>6. Later /\ IssuedGrows /\ calls' \in [Revisions -> Requests \cup {NoRequest}]
  BY <1>2, <1>5, SameStored, SameIssued DEF TypeOK
<1>7. StateFine'
  <2>1. st' \in State /\ st'.rev = st.rev /\ st'.cred = st.cred
    BY <1>2, <1>5 DEF State
  <2>2. QED
    BY <1>2, <1>5, <2>1 DEF StateFine, KnownOK
<1>8. /\ RequestsFine' /\ SnapshotFine' /\ req'[r] = q
      /\ \A s \in Requests \ {r} : req'[s] = req[s]
  BY <1>1, <1>2, <1>5, <1>6, OneRequest, SameRest
<1>9. RetriesFine' /\ \A w \in Revisions : retries'[w].left > 0 /\ ~retries'[w].saved
                                           => UnderWay(w, retries'[w].fresh)
  <2>1. CASE retries' = retries
    BY <1>5, <1>6, <2>1, SameRetries, AlreadyUnderWay
  <2>2. CASE retries' = [retries EXCEPT ![v] = [left |-> MaxRetries, fresh |-> c, saved |-> FALSE]]
    <3>1. PICK t \in Retry : /\ t = [left |-> MaxRetries, fresh |-> c, saved |-> FALSE]
                             /\ t.left = MaxRetries /\ t.fresh = c /\ t.saved = FALSE
      <4> DEFINE t == [left |-> MaxRetries, fresh |-> c, saved |-> FALSE]
      <4>1. t \in Retry /\ t.left = MaxRetries /\ t.fresh = c /\ t.saved = FALSE
        BY Numbers DEF Retry
      <4>2. QED
        BY <4>1
    <3>2. /\ RetriesFine' /\ retries'[v] = t
          /\ \A w \in Revisions \ {v} : retries'[w] = retries[w]
      BY <1>2, <1>3, <1>4, <1>5, <1>6, <2>2, <3>1, OneRetry
    <3>3. QED
      BY <1>5, <3>1, <3>2, AlreadyUnderWay
  <2>3. QED
    BY <1>3, <1>4, <2>1, <2>2 DEF Degrade
<1>10. Fewer
  <2>1. \A s \in Requests : req'[s].pc \in Writers => UnderWay(req'[s].expected, req'[s].fresh)
    BY <1>1, <1>8, AlreadyUnderWay DEF Writers
  <2>2. QED
    BY <1>9, <2>1, FewerStep
<1>11. QED
  BY <1>2, <1>6, <1>7, <1>8, <1>9, <1>10, AllFine, CalmStep DEF RefreshInv

LEMMA FinishStep ==
    ASSUME RefreshInv, NEW r \in Requests, Finish(r)
    PROVE  RefreshInv'
<1>1. /\ issued' = issued /\ login' = login /\ stored' = stored /\ snapshot' = snapshot
      /\ st' = st /\ retries' = retries
      /\ calls' = [calls EXCEPT ![req[r].expected] = NoRequest]
      /\ req' = [s \in Requests |->
                   IF s = r \/ (req[s].pc = "waiting" /\ req[s].on = r) THEN Idle ELSE req[s]]
  BY DEF Finish
<1>2. TypeOK /\ KnownOK /\ KnownBy(Idle, stored.rev, login)
  BY RequestFacts
<1>3. Later /\ IssuedGrows
  BY <1>1, <1>2, SameStored, SameIssued
<1>4. RetriesFine' /\ StateFine' /\ SnapshotFine'
  BY <1>1, <1>2, <1>3, SameRetries, SameRest
<1>5. \A s \in Requests : req'[s] = Idle \/ req'[s] = req[s]
  BY <1>1
<1>6. RequestsFine'
  <2>1. req' \in [Requests -> Request]
    <3>1. \A s \in Requests : req[s] \in Request
      BY <1>2 DEF TypeOK
    <3>2. QED
      BY <1>1, <3>1, IdleType
  <2>2. \A s \in Requests : KnownBy(req'[s], stored.rev, login)
    BY <1>2, <1>5 DEF KnownOK, RequestKnows
  <2>3. QED
    BY <1>1, <2>1, <2>2 DEF RequestsFine, RequestKnows
<1>7. calls' \in [Revisions -> Requests \cup {NoRequest}]
  BY <1>1, <1>2 DEF TypeOK
<1>8. Fewer
  <2>1. Idle.pc \notin Writers
    BY DEF Idle, Writers
  <2>2. QED
    BY <1>1, <1>5, <2>1, AlreadyUnderWay, FewerStep
<1>9. QED
  BY <1>1, <1>3, <1>4, <1>6, <1>7, <1>8, AllFine, CalmStep DEF RefreshInv

LEMMA NoRetryType ==
    NoRetry \in Retry /\ NoRetry.left = 0 /\ NoRetry.saved = FALSE /\ NoRetry.fresh.grant = 0
<1>1. First.grant = 0
  BY DEF First
<1>2. QED
  BY <1>1, FirstType, Numbers DEF NoRetry, Retry

LEMMA RetryFacts ==
    ASSUME RefreshInv, NEW v \in Revisions
    PROVE  /\ TypeOK /\ KnownOK /\ retries[v] \in Retry /\ retries[v].left \in 0..MaxRetries
           /\ retries[v].fresh \in Credential /\ retries[v].fresh.grant <= login
           /\ retries[v].left > 0 => v <= stored.rev
           /\ retries[v].saved => v < stored.rev
           /\ v \in Nat /\ stored.rev \in Nat /\ login \in Nat
<1>1. TypeOK /\ KnownOK /\ retries[v] \in Retry
  BY DEF RefreshInv, TypeOK
<1>2. RetryKnows(v)
  BY <1>1 DEF KnownOK
<1>3. v \in Nat /\ stored.rev \in Nat /\ login \in Nat
  BY <1>1, Numbers DEF TypeOK, Versioned, Revisions
<1>4. QED
  BY <1>1, <1>2, <1>3 DEF RetryKnows, Retry

\* The retry loop of one revision changes, and tries nothing new.
LEMMA QuietRetry ==
    ASSUME TypeOK, NEW v \in Revisions, NEW t \in Retry, req' = req,
           retries' = [retries EXCEPT ![v] = t],
           t.left > 0 /\ ~t.saved => UnderWay(v, t.fresh)
    PROVE  Fewer
<1>1. retries'[v] = t /\ \A w \in Revisions \ {v} : retries'[w] = retries[w]
  BY DEF TypeOK
<1>2. QED
  BY <1>1, AlreadyUnderWay, FewerStep

LEMMA RetryPersistStep ==
    ASSUME RefreshInv, NEW v \in Revisions, RetryPersist(v)
    PROVE  RefreshInv'
<1>1. /\ issued' = issued /\ login' = login /\ snapshot' = snapshot /\ st' = st
      /\ calls' = calls /\ req' = req /\ retries[v].left > 0 /\ ~retries[v].saved
  BY DEF RetryPersist
<1>2. PICK t \in Retry : t = retries[v] /\ t.left \in 0..MaxRetries /\ t.fresh \in Credential
                         /\ t.left > 0 /\ ~t.saved
  BY <1>1, RetryFacts
<1>3. TypeOK /\ KnownOK /\ UnderWay(v, t.fresh) /\ v <= stored.rev /\ t.fresh.grant <= login
      /\ v \in Nat /\ stored.rev \in Nat
  BY <1>1, <1>2, RetryFacts, AlreadyUnderWay
<1>4. IssuedGrows /\ calls' \in [Revisions -> Requests \cup {NoRequest}]
  BY <1>1, <1>3, SameIssued DEF TypeOK
<1>5. \E u \in Retry : /\ RetryAgain(v) = [retries EXCEPT ![v] = u]
                       /\ ~u.saved /\ (u = NoRetry \/ u.fresh = t.fresh)
  <2>1. CASE t.left > 1
    <3>1. /\ [t EXCEPT !.left = t.left - 1] \in Retry
          /\ [t EXCEPT !.left = t.left - 1].saved = t.saved
          /\ [t EXCEPT !.left = t.left - 1].fresh = t.fresh
      BY <1>2, <2>1, Numbers DEF Retry
    <3>2. QED
      BY <1>2, <2>1, <3>1 DEF RetryAgain
  <2>2. CASE ~(t.left > 1)
    BY <1>2, <2>2, NoRetryType DEF RetryAgain
  <2>3. QED
    BY <2>1, <2>2
<1>6. ASSUME NEW u \in Retry, retries' = [retries EXCEPT ![v] = u], stored' = stored,
             ~u.saved, u = NoRetry \/ u.fresh = t.fresh
      PROVE  RefreshInv'
  <2>1. u.left > 0 => u.fresh = t.fresh
    BY <1>6, NoRetryType
  <2>2. Fewer
    BY <1>1, <1>3, <1>6, <2>1, QuietRetry
  <2>3. Later
    BY <1>1, <1>3, <1>6, SameStored
  <2>4. u.fresh.grant <= login
    BY <1>3, <1>6, NoRetryType, RetryFacts
  <2>5. RetriesFine' /\ RequestsFine' /\ StateFine' /\ SnapshotFine'
    BY <1>1, <1>3, <1>6, <2>3, <2>4, OneRetry, SameRequests, SameRest
  <2>6. QED
    BY <1>1, <1>4, <1>6, <2>2, <2>3, <2>5, AllFine, CalmStep DEF RefreshInv
<1>7. ASSUME NEW u \in Retry, retries' = [retries EXCEPT ![v] = u], Accepts(v),
             stored' = Written(t.fresh), u = NoRetry \/ u.fresh = t.fresh
      PROVE  RefreshInv'
  <2>1. u.left > 0 => u.fresh = t.fresh
    BY <1>7, NoRetryType
  <2>2. Fewer
    BY <1>1, <1>3, <1>7, <2>1, QuietRetry
  <2>3. PICK c \in Credential : c = t.fresh
    BY <1>2
  <2>4. stored.rev = v /\ UnderWay(stored.rev, c) /\ stored' = Written(c)
    BY <1>3, <1>7, <2>3 DEF Accepts
  <2>5. FreshInv' /\ Counted' /\ stored' \in Versioned /\ stored'.rev = stored.rev + 1
    BY <1>1, <2>2, <2>4, WriteStep
  <2>6. Later
    <3>1. stored'.cred = c /\ login \in Nat /\ login \in 0..MaxGrant
      BY <1>3, <2>4, RetryFacts DEF Written, TypeOK
    <3>2. QED
      BY <1>1, <1>3, <2>3, <2>5, <3>1 DEF Later
  <2>7. u.fresh.grant <= login
    BY <1>3, <1>7, NoRetryType, RetryFacts
  <2>8. v <= stored'.rev /\ v < stored'.rev
    BY <1>3, <2>4, <2>5
  <2>9. RetriesFine' /\ RequestsFine' /\ StateFine' /\ SnapshotFine'
    BY <1>1, <1>3, <1>7, <2>6, <2>7, <2>8, OneRetry, SameRequests, SameRest
  <2>10. QED
    BY <1>4, <2>5, <2>6, <2>9, AllFine DEF RefreshInv
<1>8. CASE /\ Accepts(v) /\ stored' = Written(retries[v].fresh)
           /\ retries' = [retries EXCEPT ![v].saved = TRUE]
  <2>1. PICK u \in Retry : u = [t EXCEPT !.saved = TRUE] /\ u.fresh = t.fresh
    <3> DEFINE u == [t EXCEPT !.saved = TRUE]
    <3>1. u \in Retry /\ u.fresh = t.fresh
      BY DEF Retry
    <3>2. QED
      BY <3>1
  <2>2. retries' = [retries EXCEPT ![v] = u]
    BY <1>2, <1>8, <2>1
  <2>3. QED
    BY <1>2, <1>7, <1>8, <2>1, <2>2
<1>9. CASE stored' = stored /\ retries' = [retries EXCEPT ![v] = NoRetry]
  BY <1>6, <1>9, NoRetryType
<1>10. CASE stored' = stored /\ retries' = RetryAgain(v)
  BY <1>5, <1>6, <1>10
<1>11. CASE Accepts(v) /\ stored' = Written(retries[v].fresh) /\ retries' = RetryAgain(v)
  BY <1>2, <1>5, <1>7, <1>11
<1>12. QED
  BY <1>8, <1>9, <1>10, <1>11 DEF RetryPersist

LEMMA RetrySavedStep ==
    ASSUME RefreshInv, NEW v \in Revisions, RetrySaved(v)
    PROVE  RefreshInv'
<1>1. /\ issued' = issued /\ login' = login /\ snapshot' = snapshot /\ stored' = stored
      /\ calls' = calls /\ req' = req /\ retries[v].saved
      /\ retries' = [retries EXCEPT ![v] = NoRetry]
      /\ st' = st \/ st' = [st EXCEPT !.rev = v + 1, !.degraded = FALSE]
  BY DEF RetrySaved
<1>2. TypeOK /\ KnownOK /\ v < stored.rev /\ v \in Nat /\ stored.rev \in Nat /\ login \in Nat
  BY <1>1, RetryFacts
<1>3. Later /\ IssuedGrows /\ calls' \in [Revisions -> Requests \cup {NoRequest}]
  BY <1>1, <1>2, SameStored, SameIssued DEF TypeOK
<1>4. StateFine'
  <2>1. CASE st' = st
    BY <1>2, <1>3, <2>1, SameRest
  <2>2. CASE st' = [st EXCEPT !.rev = v + 1, !.degraded = FALSE]
    <3>1. v + 1 \in Revisions
      BY <1>2, Numbers DEF TypeOK, Versioned, Revisions
    <3>2. st' \in State /\ st'.rev = v + 1 /\ st'.cred = st.cred
      BY <1>2, <2>2, <3>1 DEF TypeOK, State
    <3>3. QED
      BY <1>1, <1>2, <3>2 DEF StateFine, KnownOK
  <2>3. QED
    BY <1>1, <2>1, <2>2
<1>5. PICK t \in Retry : t = NoRetry /\ t.left = 0 /\ ~t.saved /\ t.fresh.grant = 0
  BY NoRetryType
<1>6. RetriesFine' /\ RequestsFine' /\ SnapshotFine'
  <2>1. /\ (t.left > 0 => v <= stored'.rev) /\ (t.saved => v < stored'.rev)
        /\ t.fresh.grant <= login'
    BY <1>1, <1>2, <1>5
  <2>2. RetriesFine'
    BY <1>1, <1>2, <1>3, <1>5, <2>1, OneRetry
  <2>3. QED
    BY <1>1, <1>2, <1>3, <2>2, SameRequests, SameRest
<1>7. Fewer
  <2>1. ~(t.left > 0)
    BY <1>5
  <2>2. retries' = [retries EXCEPT ![v] = t]
    BY <1>1, <1>5
  <2>3. QED
    BY <1>1, <1>2, <2>1, <2>2, QuietRetry
<1>8. QED
  BY <1>1, <1>3, <1>4, <1>6, <1>7, AllFine, CalmStep DEF RefreshInv

\* The poll loop, a new login and a restart.
LEMMA FetchSnapshotStep ==
    ASSUME RefreshInv, FetchSnapshot
    PROVE  RefreshInv'
<1>1. /\ issued' = issued /\ login' = login /\ stored' = stored /\ snapshot' = stored
      /\ st' = st /\ calls' = calls /\ retries' = retries /\ req' = req
  BY DEF FetchSnapshot
<1>2. TypeOK /\ KnownOK
  BY DEF RefreshInv
<1>3. Later /\ IssuedGrows /\ calls' \in [Revisions -> Requests \cup {NoRequest}]
  BY <1>1, <1>2, SameStored, SameIssued DEF TypeOK
<1>4. RequestsFine' /\ RetriesFine' /\ StateFine'
  BY <1>1, <1>2, <1>3, SameRequests, SameRetries, SameRest
<1>5. SnapshotFine'
  BY <1>1, <1>2, Numbers DEF TypeOK, KnownOK, Versioned, Revisions, SnapshotFine
<1>6. Fewer
  BY <1>1, AlreadyUnderWay, FewerStep
<1>7. QED
  BY <1>1, <1>3, <1>4, <1>5, <1>6, AllFine, CalmStep DEF RefreshInv

LEMMA ReauthorizeStepOf ==
    ASSUME RefreshInv, Reauthorize
    PROVE  RefreshInv'
<1>1. /\ issued' = issued /\ login' = login + 1 /\ snapshot' = snapshot
      /\ st' = st /\ calls' = calls /\ retries' = retries /\ req' = req
  BY DEF Reauthorize
<1>2. TypeOK /\ KnownOK /\ stored.rev \in Nat /\ login \in Nat
  BY Numbers DEF RefreshInv, TypeOK, Versioned, Revisions
<1>3. Fewer
  BY <1>1, AlreadyUnderWay, FewerStep
<1>4. /\ FreshInv' /\ Counted' /\ stored' \in Versioned /\ stored'.rev = stored.rev + 1
      /\ stored'.cred.grant = login + 1 /\ login' \in 0..MaxGrant
  BY <1>3, ReauthorizeStep
<1>5. Later
  BY <1>1, <1>2, <1>4 DEF Later
<1>6. IssuedGrows /\ calls' \in [Revisions -> Requests \cup {NoRequest}]
  <2>1. \A g \in 0..MaxGrant : issued[g] \in Nat
    BY <1>2, Numbers DEF TypeOK
  <2>2. QED
    BY <1>1, <1>2, <1>4, <2>1 DEF IssuedGrows, TypeOK
<1>7. RequestsFine' /\ RetriesFine' /\ StateFine' /\ SnapshotFine'
  BY <1>1, <1>2, <1>5, SameRequests, SameRetries, SameRest
<1>8. QED
  BY <1>4, <1>5, <1>6, <1>7, AllFine DEF RefreshInv

\* A gateway that starts knows nothing but the snapshot.
Started ==
    /\ stored \in Versioned /\ login \in 0..MaxGrant /\ st = NoState
    /\ calls = [v \in Revisions |-> NoRequest] /\ retries = [v \in Revisions |-> NoRetry]
    /\ req = [r \in Requests |-> Idle]
StartedFine ==
    /\ RequestsFine /\ RetriesFine /\ StateFine
    /\ calls \in [Revisions -> Requests \cup {NoRequest}]
    /\ \A v \in Revisions, c \in Credential : ~UnderWay(v, c)

LEMMA FreshStart == Started => StartedFine
<1> SUFFICES ASSUME Started PROVE StartedFine
  OBVIOUS
<1> USE DEF Started
<1>1. stored.rev \in Nat /\ stored.rev >= 1 /\ login \in Nat
  BY Numbers DEF Versioned, Revisions
<1>2. RequestsFine
  <2>1. \A r \in Requests : req[r] = Idle
    OBVIOUS
  <2>2. KnownBy(Idle, stored.rev, login)
    BY <1>1, IdleType
  <2>3. QED
    BY <2>1, <2>2, IdleType DEF RequestsFine, RequestKnows
<1>3. RetriesFine
  <2>1. \A v \in Revisions : retries[v] = NoRetry
    OBVIOUS
  <2>2. QED
    BY <1>1, <2>1, NoRetryType DEF RetriesFine, RetryKnows
<1>4. StateFine
  <2>1. NoState \in State /\ NoState.rev = 1 /\ NoState.cred = First
    BY FirstType, Numbers DEF NoState, State
  <2>2. First.grant = 0
    BY DEF First
  <2>3. QED
    BY <1>1, <2>1, <2>2 DEF StateFine
<1>5. \A v \in Revisions, c \in Credential : ~UnderWay(v, c)
  <2>1. \A r \in Requests : req[r].pc = "idle"
    BY DEF Idle
  <2>2. \A v \in Revisions : retries[v].left = 0
    BY NoRetryType
  <2>3. QED
    BY <2>1, <2>2 DEF UnderWay, Leads, Retries
<1>6. QED
  BY <1>2, <1>3, <1>4, <1>5 DEF StartedFine

LEMMA RestartStep ==
    ASSUME RefreshInv, Restart
    PROVE  RefreshInv'
<1>1. /\ issued' = issued /\ login' = login /\ stored' = stored /\ snapshot' = stored
      /\ st' = NoState /\ calls' = [v \in Revisions |-> NoRequest]
      /\ retries' = [v \in Revisions |-> NoRetry] /\ req' = [r \in Requests |-> Idle]
  BY DEF Restart
<1>2. TypeOK /\ KnownOK
  BY DEF RefreshInv
<1>3. Later /\ IssuedGrows
  BY <1>1, <1>2, SameStored, SameIssued
<1>4. SnapshotFine'
  BY <1>1, <1>2, Numbers DEF TypeOK, KnownOK, Versioned, Revisions, SnapshotFine
<1>5. stored' \in Versioned /\ login' \in 0..MaxGrant
  BY <1>3 DEF Later
<1>6. /\ RequestsFine' /\ RetriesFine' /\ StateFine'
      /\ calls' \in [Revisions -> Requests \cup {NoRequest}]
      /\ \A v \in Revisions, c \in Credential : ~UnderWay(v, c)'
  <2>1. Started'
    BY <1>1, <1>5 DEF Started
  <2>2. StartedFine'
    BY <2>1, FreshStart, PTL
  <2>3. QED
    BY <2>2 DEF StartedFine
<1>7. Fewer
  BY <1>6 DEF Fewer
<1>8. QED
  BY <1>1, <1>3, <1>4, <1>6, <1>7, AllFine, CalmStep DEF RefreshInv

LEMMA RefreshInit == Init => RefreshInv
<1> SUFFICES ASSUME Init PROVE RefreshInv
  OBVIOUS
<1>1. /\ issued = [g \in 0..MaxGrant |-> 0] /\ login = 0 /\ snapshot = stored
      /\ stored = [cred |-> First, rev |-> 1] /\ st = NoState
      /\ calls = [v \in Revisions |-> NoRequest] /\ retries = [v \in Revisions |-> NoRetry]
      /\ req = [r \in Requests |-> Idle]
  BY DEF Init
<1>2. /\ stored \in Versioned /\ stored.rev = 1 /\ stored.cred = First /\ login \in 0..MaxGrant
      /\ First.grant = 0 /\ First.gen = 0
  BY <1>1, FirstType, Numbers DEF Versioned, First
<1>3. /\ RequestsFine /\ RetriesFine /\ StateFine
      /\ calls \in [Revisions -> Requests \cup {NoRequest}]
      /\ \A v \in Revisions, c \in Credential : ~UnderWay(v, c)
  BY <1>1, <1>2, FreshStart DEF Started, StartedFine
<1>4. issued \in [0..MaxGrant -> 0..MaxGen] /\ issued[0] = 0
  BY <1>1, Numbers
<1>5. TypeOK /\ KnownOK
  BY <1>1, <1>2, <1>3, <1>4
     DEF TypeOK, KnownOK, RequestsFine, RetriesFine, StateFine
<1>6. FreshInv
  BY <1>2, <1>3, <1>4 DEF FreshInv
<1>7. Counted
  <2>1. IsFiniteSet({}) /\ Cardinality({}) = 0
    BY FS_EmptySet
  <2>2. Counts({})
    BY <1>2, <1>3, <2>1 DEF Counts
  <2>3. QED
    BY <2>2 DEF Counted
<1>8. QED
  BY <1>5, <1>6, <1>7 DEF RefreshInv

LEMMA RefreshNext == RefreshInv /\ [Next]_vars => RefreshInv'
<1> SUFFICES ASSUME RefreshInv, [Next]_vars PROVE RefreshInv'
  OBVIOUS
<1>1. CASE UNCHANGED vars
  <2>1. /\ issued' = issued /\ login' = login /\ stored' = stored /\ snapshot' = snapshot
        /\ st' = st /\ calls' = calls /\ retries' = retries /\ req' = req
    BY <1>1 DEF vars
  <2>2. TypeOK /\ KnownOK
    BY DEF RefreshInv
  <2>3. Later /\ IssuedGrows /\ calls' \in [Revisions -> Requests \cup {NoRequest}]
    BY <2>1, <2>2, SameStored, SameIssued DEF TypeOK
  <2>4. RequestsFine' /\ RetriesFine' /\ StateFine' /\ SnapshotFine'
    BY <2>1, <2>2, <2>3, SameRequests, SameRetries, SameRest
  <2>5. Fewer
    BY <2>1, AlreadyUnderWay, FewerStep
  <2>6. QED
    BY <2>1, <2>3, <2>4, <2>5, AllFine, CalmStep DEF RefreshInv
<1>2. ASSUME NEW r \in Requests, Call(r) \/ Step(r) PROVE RefreshInv'
  BY <1>2, CallStep, LookupStep, ExchangeStepOf, StoreStep, PersistStep, SavedStep,
     DegradeStep, FinishStep DEF Step
<1>3. ASSUME NEW v \in Revisions, RetryStep(v) PROVE RefreshInv'
  BY <1>3, RetryPersistStep, RetrySavedStep DEF RetryStep
<1>4. QED
  BY <1>1, <1>2, <1>3, FetchSnapshotStep, ReauthorizeStepOf, RestartStep DEF Next

LEMMA RefreshAlways == Spec => []RefreshInv
<1>1. QED
  BY RefreshInit, RefreshNext, PTL DEF Spec

\* Every variable of the refresh keeps its type, however many requests, retry
\* loops, lost answers, restarts and logins interleave: in particular the
\* revisions never outnumber the credentials the provider issued and the
\* operator's logins, because every accepted write stores a credential that
\* was not stored before (manager.go, AccessToken and persistRetryLoop;
\* credentials/route.ts).
THEOREM TypeCorrect == Spec => []TypeOK
<1>1. RefreshInv => TypeOK
  BY DEF RefreshInv
<1>2. QED
  BY <1>1, RefreshAlways, PTL

-----------------------------------------------------------------------------
(* The credential never goes back. *)

LEMMA WriteIsNewer ==
    ASSUME RefreshInv, NEW c \in Credential, UnderWay(stored.rev, c), stored' = Written(c),
           stored'.cred.grant = stored.cred.grant
    PROVE  stored'.cred.gen >= stored.cred.gen
<1>1. stored.rev \in Revisions /\ stored.cred \in Credential /\ stored'.cred = c
  BY DEF RefreshInv, TypeOK, Versioned, Written
<1>2. c.gen > stored.cred.gen
  BY <1>1 DEF RefreshInv, FreshInv
<1>3. QED
  BY <1>1, <1>2 DEF Credential

\* The control plane never replaces a generation of a grant by an older one,
\* whichever of the slow leaders and the retry loops of any revision reach it,
\* in whatever order: the revision they expect stops all of them but the ones
\* that carry a newer generation (manager.go, persistRetryLoop;
\* credentials/route.ts).
THEOREM StoredNeverGoesBack == Spec => NeverOlder
<1>1. ASSUME RefreshInv, [Next]_vars
      PROVE  [stored'.cred.grant = stored.cred.grant
                => stored'.cred.gen >= stored.cred.gen]_vars
  <2>1. stored.cred.gen \in Nat /\ stored.cred.grant \in Nat /\ login \in Nat
        /\ stored.cred.grant <= login
    <3>1. stored \in Versioned /\ login \in 0..MaxGrant /\ stored.cred.grant <= login
      BY <1>1 DEF RefreshInv, TypeOK, KnownOK
    <3>2. QED
      BY <3>1, Numbers DEF Versioned, Credential
  <2>2. CASE stored' = stored
    BY <2>1, <2>2
  <2>3. ASSUME NEW r \in Requests, Persist(r), stored' # stored
        PROVE  stored'.cred.grant = stored.cred.grant => stored'.cred.gen >= stored.cred.gen
    <3>1. Accepts(req[r].expected) /\ stored' = Written(req[r].fresh) /\ req[r].pc = "persist"
      BY <2>3 DEF Persist
    <3>2. UnderWay(stored.rev, req[r].fresh)
      BY <3>1, AlreadyUnderWay DEF Accepts, Writers
    <3>3. QED
      BY <1>1, <3>1, <3>2, RequestFacts, WriteIsNewer
  <2>4. ASSUME NEW v \in Revisions, RetryPersist(v), stored' # stored
        PROVE  stored'.cred.grant = stored.cred.grant => stored'.cred.gen >= stored.cred.gen
    <3>1. /\ Accepts(v) /\ stored' = Written(retries[v].fresh)
          /\ retries[v].left > 0 /\ ~retries[v].saved
      BY <2>4 DEF RetryPersist
    <3>2. UnderWay(stored.rev, retries[v].fresh)
      BY <3>1, AlreadyUnderWay DEF Accepts
    <3>3. QED
      BY <1>1, <3>1, <3>2, RetryFacts, WriteIsNewer
  <2>5. CASE Reauthorize
    <3>1. stored'.cred.grant = login + 1
      BY <2>5 DEF Reauthorize
    <3>2. QED
      BY <2>1, <3>1
  <2>6. CASE UNCHANGED vars
    BY <2>6
  <2>7. ASSUME NEW r \in Requests, Call(r) \/ Step(r), stored' # stored
        PROVE  Persist(r)
    BY <2>7 DEF Step, Call, Lookup, Exchange, Store, Saved, Degrade, Finish
  <2>8. ASSUME NEW v \in Revisions, RetryStep(v), stored' # stored
        PROVE  RetryPersist(v)
    BY <2>8 DEF RetryStep, RetrySaved
  <2>9. CASE FetchSnapshot \/ Restart
    BY <2>2, <2>9 DEF FetchSnapshot, Restart
  <2>10. QED
    BY <1>1, <2>2, <2>3, <2>4, <2>5, <2>6, <2>7, <2>8, <2>9 DEF Next
<1>2. QED
  BY <1>1, RefreshAlways, PTL DEF Spec, NeverOlder

-----------------------------------------------------------------------------
(* One leader at a time. *)

LeaderInv == TypeOK /\ LeadInv

\* One request moves on and the calls map stays.
LEMMA LeaderMoves ==
    ASSUME LeaderInv, NEW r \in Requests, NEW q, Put(r, q), calls' = calls,
           q.pc \in Leading => req[r].pc \in Leading /\ q.expected = req[r].expected
    PROVE  LeadInv'
<1>1. req'[r] = q /\ \A s \in Requests \ {r} : req'[s] = req[s]
  BY DEF LeaderInv, TypeOK, Put
<1>2. QED
  BY <1>1 DEF LeaderInv, LeadInv

LEMMA LeaderLookup ==
    ASSUME LeaderInv, NEW r \in Requests, NEW need \in BOOLEAN, Lookup(r, need)
    PROVE  LeadInv'
<1>1. PICK s : s = Seen(req[r].view)
  OBVIOUS
<1>2. CASE Put(r, Idle) /\ calls' = calls
  <2>1. Idle.pc \notin Leading
    BY DEF Idle, Leading
  <2>2. QED
    BY <1>2, <2>1, LeaderMoves
<1>3. CASE Put(r, [Idle EXCEPT !.pc = "waiting", !.on = calls[s.rev]]) /\ calls' = calls
  <2>1. PICK q : q = [Idle EXCEPT !.pc = "waiting", !.on = calls[s.rev]]
    OBVIOUS
  <2>2. q.pc = "waiting"
    BY <2>1 DEF Idle
  <2>3. QED
    BY <1>3, <2>1, <2>2, LeaderMoves DEF Leading
<1>4. CASE /\ calls[s.rev] = NoRequest /\ calls' = [calls EXCEPT ![s.rev] = r]
           /\ Put(r, [req[r] EXCEPT !.pc = "exchange", !.expected = s.rev,
                                    !.fresh = s.cred, !.view = Idle.view])
  <2>1. req[r] \in Request /\ s.rev \in Revisions /\ calls \in [Revisions -> Requests \cup {NoRequest}]
    <3>1. req[r] \in Request /\ st \in State /\ calls \in [Revisions -> Requests \cup {NoRequest}]
      BY DEF LeaderInv, TypeOK
    <3>2. req[r].view.rev \in Revisions
      BY <3>1 DEF Request, Versioned
    <3>3. QED
      BY <1>1, <3>1, <3>2 DEF Seen, State
  <2>2. PICK q : q = [req[r] EXCEPT !.pc = "exchange", !.expected = s.rev,
                                    !.fresh = s.cred, !.view = Idle.view]
    OBVIOUS
  <2>3. q.pc = "exchange" /\ q.expected = s.rev
    BY <2>1, <2>2 DEF Request
  <2>4. req'[r] = q /\ \A x \in Requests \ {r} : req'[x] = req[x]
    BY <1>4, <2>2 DEF LeaderInv, TypeOK, Put
  <2>5. calls'[s.rev] = r /\ \A v \in Revisions \ {s.rev} : calls'[v] = calls[v]
    BY <1>4, <2>1
  <2>6. ASSUME NEW x \in Requests, req'[x].pc \in Leading
        PROVE  calls'[req'[x].expected] = x
    <3>1. CASE x = r
      BY <2>3, <2>4, <2>5, <3>1
    <3>2. CASE x # r
      <4>1. req'[x] = req[x] /\ calls[req[x].expected] = x /\ req[x].expected \in Revisions
        BY <2>4, <2>6, <3>2 DEF LeaderInv, LeadInv, TypeOK, Request
      <4>2. req[x].expected # s.rev
        BY <1>4, <4>1, BoundAssumption
      <4>3. QED
        BY <2>5, <4>1, <4>2
    <3>3. QED
      BY <3>1, <3>2
  <2>7. QED
    BY <2>6 DEF LeadInv
<1>5. QED
  BY <1>1, <1>2, <1>3, <1>4 DEF Lookup

LEMMA LeaderPoints ==
    ASSUME LeaderInv, NEW r \in Requests, NEW p
    PROVE  /\ [req[r] EXCEPT !.pc = p].expected = req[r].expected
           /\ \A c : [req[r] EXCEPT !.pc = p, !.fresh = c].expected = req[r].expected
           /\ \A v : [req[r] EXCEPT !.pc = p, !.rev = v].expected = req[r].expected
<1>1. req[r] \in Request
  BY DEF LeaderInv, TypeOK
<1>2. QED
  BY <1>1 DEF Request

\* From the exchange to the end a leader keeps its revision.
LEMMA LeaderProceeds ==
    ASSUME LeaderInv, NEW r \in Requests,
           Exchange(r) \/ Store(r) \/ Persist(r) \/ Saved(r) \/ Degrade(r)
    PROVE  LeadInv'
<1>1. calls' = calls /\ req[r].pc \in Leading
  BY DEF Exchange, Store, Persist, Saved, Degrade, Leading
<1>2. \E q : Put(r, q) /\ q.expected = req[r].expected
  <2>1. ASSUME NEW p, Put(r, [req[r] EXCEPT !.pc = p])
        PROVE  \E q : Put(r, q) /\ q.expected = req[r].expected
    BY <2>1, LeaderPoints
  <2>2. CASE Exchange(r)
    <3>1. \/ Put(r, [req[r] EXCEPT !.pc = "store", !.fresh = NextGen(req[r].fresh)])
          \/ Put(r, [req[r] EXCEPT !.pc = "finish"])
      BY <2>2 DEF Exchange
    <3>2. PICK q : q = [req[r] EXCEPT !.pc = "store", !.fresh = NextGen(req[r].fresh)]
      OBVIOUS
    <3>3. q.expected = req[r].expected
      BY <3>2, LeaderPoints
    <3>4. QED
      BY <2>1, <3>1, <3>2, <3>3
  <2>3. CASE Persist(r)
    <3>1. \/ Put(r, [req[r] EXCEPT !.pc = "saved", !.rev = stored.rev + 1])
          \/ Put(r, [req[r] EXCEPT !.pc = "finish"])
          \/ Put(r, [req[r] EXCEPT !.pc = "degraded"])
      BY <2>3 DEF Persist
    <3>2. PICK q : q = [req[r] EXCEPT !.pc = "saved", !.rev = stored.rev + 1]
      OBVIOUS
    <3>3. q.expected = req[r].expected
      BY <3>2, LeaderPoints
    <3>4. QED
      BY <2>1, <3>1, <3>2, <3>3
  <2>4. CASE Store(r) \/ Saved(r) \/ Degrade(r)
    BY <2>1, <2>4 DEF Store, Saved, Degrade
  <2>5. QED
    BY <2>2, <2>3, <2>4
<1>3. QED
  BY <1>1, <1>2, LeaderMoves

LEMMA LeaderFinish ==
    ASSUME LeaderInv, NEW r \in Requests, Finish(r)
    PROVE  LeadInv'
<1>1. /\ req[r].pc = "finish" /\ calls' = [calls EXCEPT ![req[r].expected] = NoRequest]
      /\ calls \in [Revisions -> Requests \cup {NoRequest}]
      /\ \A s \in Requests : (s # r /\ req'[s] = req[s]) \/ req'[s] = Idle
  BY DEF Finish, LeaderInv, TypeOK
<1>2. calls[req[r].expected] = r
  BY <1>1 DEF LeaderInv, LeadInv, Leading
<1>3. Idle.pc \notin Leading
  BY DEF Idle, Leading
<1>4. ASSUME NEW s \in Requests, req'[s].pc \in Leading
      PROVE  calls'[req'[s].expected] = s
  <2>1. s # r /\ req'[s] = req[s]
    BY <1>1, <1>3, <1>4
  <2>2. calls[req[s].expected] = s /\ req[s].expected \in Revisions
    BY <1>4, <2>1 DEF LeaderInv, LeadInv, TypeOK, Request
  <2>3. req[s].expected # req[r].expected
    BY <1>2, <2>1, <2>2
  <2>4. QED
    BY <1>1, <2>1, <2>2, <2>3
<1>5. QED
  BY <1>4 DEF LeadInv

LEMMA LeadInit == Init => LeadInv
<1>1. Idle.pc \notin Leading
  BY DEF Idle, Leading
<1>2. QED
  BY <1>1 DEF Init, LeadInv

LEMMA LeadNext == LeaderInv /\ [Next]_vars => LeadInv'
<1> SUFFICES ASSUME LeaderInv, [Next]_vars PROVE LeadInv'
  OBVIOUS
<1>1. CASE UNCHANGED <<calls, req>>
  BY <1>1 DEF LeaderInv, LeadInv
<1>2. ASSUME NEW r \in Requests, Call(r) PROVE LeadInv'
  <2>1. PICK q : q = [Idle EXCEPT !.pc = "lookup", !.view = snapshot]
    OBVIOUS
  <2>2. q.pc \notin Leading
    BY <2>1 DEF Idle, Leading
  <2>3. Put(r, q) /\ calls' = calls
    BY <1>2, <2>1 DEF Call
  <2>4. QED
    BY <2>2, <2>3, LeaderMoves
<1>3. ASSUME NEW r \in Requests, Step(r) PROVE LeadInv'
  BY <1>3, LeaderLookup, LeaderProceeds, LeaderFinish DEF Step
<1>4. CASE Restart
  <2>1. Idle.pc \notin Leading
    BY DEF Idle, Leading
  <2>2. QED
    BY <1>4, <2>1 DEF Restart, LeadInv
<1>5. ASSUME NEW v \in Revisions, RetryStep(v) PROVE UNCHANGED <<calls, req>>
  BY <1>5 DEF RetryStep, RetryPersist, RetrySaved
<1>6. CASE FetchSnapshot \/ Reauthorize \/ UNCHANGED vars
  BY <1>1, <1>6 DEF FetchSnapshot, Reauthorize, vars
<1>7. QED
  BY <1>1, <1>2, <1>3, <1>4, <1>5, <1>6 DEF Next

\* At most one refresh of a revision runs at a time, for any number of
\* requests and over every fault: the entry of the calls map that a leader
\* takes under the lock is its own until it closes the channel (manager.go,
\* AccessToken).
THEOREM LeadersAreOne == Spec => []OneLeader
<1>1. Init => LeadInv
  BY LeadInit
<1>2. TypeOK /\ LeadInv /\ [Next]_vars => LeadInv'
  BY LeadNext DEF LeaderInv
<1>3. LeadInv => OneLeader
  BY DEF LeadInv, OneLeader
<1>4. QED
  BY <1>1, <1>2, <1>3, TypeCorrect, PTL DEF Spec
=============================================================================
