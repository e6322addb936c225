----------------------- MODULE MCCertificateReconciler -----------------------
(* Two objects, two secret names, two sets of names, one renewal.            *)
EXTENDS CertificateReconciler

CONSTANTS a, b, s1, s2, n1, n2, nobody

MCCrs         == {a, b}
MCPresent     == {a}
MCSecretNames == {s1, s2}
MCNameSets    == {n1, n2}
=============================================================================
