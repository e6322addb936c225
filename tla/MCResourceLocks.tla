--------------------------- MODULE MCResourceLocks ---------------------------
(* Three runs over two domains: r1 and r2 ask for both, r3 for one.          *)
EXTENDS ResourceLocks, TLC

CONSTANTS r1, r2, r3, a, b

MCRuns    == {r1, r2, r3}
MCLockIds == {a, b}
MCIdsOf   == (r1 :> {a, b}) @@ (r2 :> {a, b}) @@ (r3 :> {b})
=============================================================================
