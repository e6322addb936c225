----------------------------- MODULE CertCoverage -----------------------------
(***************************************************************************)
(* Which names a certificate serves and which a consumer may have          *)
(* (server/core/pki/coverage.ts, match.ts and utils/domain.ts).  A name is *)
(* a sequence of labels, most specific first, with or without "*." before  *)
(* it: *.a.b is [star |-> TRUE, labels |-> <<"a", "b">>].  Lists of names  *)
(* are sets.                                                               *)
(***************************************************************************)
EXTENDS Integers, Sequences, FiniteSets

CONSTANT Label

Name == [star : BOOLEAN, labels : Seq(Label)]
Host == {n \in Name : ~n.star}

IsWildcard(n) == n.star
WildcardToBare(n) == [n EXCEPT !.star = FALSE]

(* A slip: endsWith alone, so that a wildcard reaches several labels down. *)
UnderAnyDepth(s, n) ==
  /\ IsWildcard(s)
  /\ Len(n.labels) > Len(s.labels)
  /\ SubSeq(n.labels, Len(n.labels) - Len(s.labels) + 1, Len(n.labels)) = s.labels

(* requested.endsWith("." + parent), with one label in front. *)
Under(s, n) ==
  /\ IsWildcard(s)
  /\ n.labels # <<>>
  /\ Tail(n.labels) = s.labels

(* A slip: *.a.b is taken to serve a.b as well. *)
CoversApexToo(san, requested) ==
  \/ requested \in san
  \/ ~IsWildcard(requested) /\ \E s \in san :
       Under(s, requested) \/ WildcardToBare(s) = requested

CoversDomain(san, requested) ==
  \/ requested \in san
  \/ ~IsWildcard(requested) /\ \E s \in san : Under(s, requested)

CertCoversAll(san, requested) == \A d \in requested : CoversDomain(san, d)

ScoreCert(san, requested) ==
  LET wild == {s \in san : IsWildcard(s)}
      hit  == {s \in wild : \E d \in requested :
                 d = s \/ (~IsWildcard(d) /\ Under(s, d))}
  IN  1000 * Cardinality(hit)
      + 100 * Cardinality((san \ wild) \cap requested)
      + Cardinality((san \ wild) \ requested)

PickPrimaryDomain(first) == WildcardToBare(first)
-----------------------------------------------------------------------------
(* Allow rules: [type, pattern] with type "fulltext" or "suffix".          *)

EndsWith(t, s) ==
  Len(s) <= Len(t) /\ SubSeq(t, Len(t) - Len(s) + 1, Len(t)) = s

AllowMatch(d, rules) ==
  \E rule \in rules :
    \/ rule.type = "fulltext" /\ d = rule.pattern
    \/ rule.type = "suffix" /\ ~IsWildcard(rule.pattern)
         /\ EndsWith(d.labels, rule.pattern.labels)

CertAllowed(primary, alt, rules) == \A d \in alt \cup {primary} : AllowMatch(d, rules)
-----------------------------------------------------------------------------
(* What coverage is for: a TLS client accepts a certificate for a host     *)
(* that is one of its names, or that a wildcard name has one label below.  *)
Serves(n, host) ==
  IF IsWildcard(n) THEN host.labels # <<>> /\ Tail(host.labels) = n.labels
                   ELSE host = n
=============================================================================
