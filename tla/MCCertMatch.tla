----------------------------- MODULE MCCertMatch -----------------------------
(* A zone "e" with its wildcard, two hosts and a name two labels down.      *)
EXTENDS CertMatch, TLC

CONSTANTS c1, c2

N(s, l) == [star |-> s, labels |-> l]
e    == N(FALSE, <<"e">>)
w    == N(TRUE,  <<"e">>)
h    == N(FALSE, <<"h", "e">>)
wh   == N(TRUE,  <<"h", "e">>)
deep == N(FALSE, <<"d", "h", "e">>)

MCNames == {e, w, h, wh, deep}
MCLabel == {"e", "h", "d", "other"}
MCHosts == {N(FALSE, l) : l \in UNION {[1..k -> MCLabel] : k \in 1..3}}

All    == [type |-> "suffix", pattern |-> e]
OnlyH  == [type |-> "suffix", pattern |-> h]

TwoConsumers == {c1, c2}
TwoAllow == (c1 :> {All}) @@ (c2 :> {OnlyH})
MCAsks   == {{e, w}, {e}, {h}, {deep}, {wh}}
=============================================================================
