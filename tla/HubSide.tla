------------------------------- MODULE HubSide -------------------------------
(***************************************************************************)
(* The hub as its clients see it over the PKI API: it has one certificate  *)
(* for the names a client asks for, replaces it when it likes, and says in *)
(* Cache-Control how long an answer may be kept (server/core/pki/decide.ts *)
(* and routes.ts).  Instants and ages are counted in one unit.             *)
(***************************************************************************)
EXTENDS Integers

CONSTANTS
  Lifetime,  \* of a certificate
  RenewAge,  \* age at which the hub renews: lifetime * ratio
  Margin,    \* what cacheControl takes off that age: one day
  Timeout,   \* of a client's HTTP request
  Horizon    \* bound on the clock

ASSUME AgesAssumption ==
  /\ {Lifetime, RenewAge, Margin, Timeout, Horizon} \subseteq Nat
  /\ RenewAge < Lifetime
ASSUME TimeoutAssumption == Timeout < Margin

VARIABLES
  now,   \* the clock
  cur    \* notBefore of the hub's certificate

hubVars == <<now, cur>>

Positive(n) == IF n > 0 THEN n ELSE 0

(* A slip: without the day's margin. *)
CacheControlToTheEnd(nb, t) == Positive(nb + RenewAge - t)

CacheControl(nb, t) == Positive(nb + RenewAge - Margin - t)

Answer == [nb |-> cur, maxAge |-> CacheControl(cur, now)]

HubInit == now = 0 /\ cur = 0

(* At its slot, late, or because someone deleted the old one. *)
Renew == cur' = now /\ UNCHANGED now

Advance == now < Horizon /\ now' = now + 1 /\ UNCHANGED cur
=============================================================================
