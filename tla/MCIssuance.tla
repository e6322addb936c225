----------------------------- MODULE MCIssuance -----------------------------
(* One zone e: the wildcard w = *.e, the apex e, and a host h = h.e.         *)
EXTENDS Issuance, TLC

CONSTANTS w, e, h, q1, q2, s1

MCNames      == {w, e, h}
MCWildcards  == {w}

NameOf == (w :> [star |-> TRUE,  labels |-> <<"e">>])
       @@ (e :> [star |-> FALSE, labels |-> <<"e">>])
       @@ (h :> [star |-> FALSE, labels |-> <<"h", "e">>])
Coverage == INSTANCE CertCoverage WITH Label <- {"e", "h"}
MCCoverPairs ==
  {p \in MCNames \X MCNames : Coverage!CoversDomain({NameOf[p[1]]}, NameOf[p[2]])}

(* Two clients of the same host, the second with SSE. *)
SameReqs    == {q1, q2}
SameSse     == {q2}
SameDomains == (q1 :> {h}) @@ (q2 :> {h})

(* A client of the wildcard and a client of the apex. *)
SplitDomains == (q1 :> {w}) @@ (q2 :> {e})

(* A client of the wildcard, next to a scan of the cron trigger. *)
OneReq     == {q1}
OneDomains == (q1 :> {w})
OneScan    == {s1}

Nobody   == {}
PastNone == {{}}
PastHost == {{}, {h}}
PastBoth == {{w, e}}
PastSplit == {{e}, {w, e}}
PastAny  == {{e}, {w}, {w, e}, {w, h}}
=============================================================================
