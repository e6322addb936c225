------------------------------- MODULE MCRenewal -------------------------------
(* Weeks of windows shrink to two or three, ten renewals per scan to two.    *)
EXTENDS Renewal, TLC

CONSTANTS a, b, d

ThreeCerts == {a, b, d}
OneStuck   == {d}
Sym        == Permutations({a, b})
=============================================================================
