------------------------------ MODULE MCSignIn ------------------------------
EXTENDS SignIn, TLC

CONSTANTS l1, l2, h1, h2, p1, p2, n1

File(o, id, access, refresh, hint, n) ==
  [id |-> [st |-> id, owner |-> o], access |-> [st |-> access, owner |-> o],
   refresh |-> IF refresh THEN o ELSE None, hint |-> hint, name |-> n]
Good(o) == File(o, "good", "good", FALSE, None, None)

\* A file that names an account for one person and holds the access token of
\* another, and a batch whose first entry is refreshed and whose second, claimed
\* for somebody else's account, is refused.
SomeFiles ==
  {<<[Good(p1) EXCEPT !.access.owner = p2]>>,
   <<File(p2, "stale", "stale", TRUE, p2, None), File(p1, "none", "good", TRUE, p2, n1)>>}
ApiKey == {[id |-> None, of |-> {}]}
=============================================================================
