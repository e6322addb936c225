--------------------------- MODULE CertificateHub ---------------------------
(***************************************************************************)
(* What the hub promises, without locks, runs, events or deadlines: there  *)
(* is a table of certificates, and a client is given one that is in the    *)
(* table at one instant between the request and the answer and covers all  *)
(* it wants, or it is refused, or its Worker is gone.  A certificate may   *)
(* be replaced, or withdrawn for good, but it never just disappears.       *)
(* Issuance implements this.                                               *)
(***************************************************************************)
CONSTANTS
  Names,       \* domain names
  CoverPairs,  \* <<s, n>>: a certificate for s serves n
  Clients,
  Wants,       \* the names each client asks for
  Places       \* places in the table

VARIABLES
  shelf,       \* the certificate in each place, a set of names, or none: {}
  withdrawn,   \* the places that are closed for good
  outcome,     \* how far each request is
  given        \* the certificate each client is given, or {}

table   == <<shelf, withdrawn>>
replies == <<outcome, given>>

Covers(S, D) == \A d \in D : \E s \in S : <<s, d>> \in CoverPairs

Init ==
  /\ shelf \in [Places -> SUBSET Names]
  /\ withdrawn = {}
  /\ outcome = [c \in Clients |-> "asked"]
  /\ given = [c \in Clients |-> {}]

Issue(p) ==
  /\ p \notin withdrawn
  /\ \E S \in SUBSET Names : S # {} /\ shelf' = [shelf EXCEPT ![p] = S]
  /\ UNCHANGED <<withdrawn, replies>>

Withdraw(p) ==
  /\ p \notin withdrawn
  /\ withdrawn' = withdrawn \cup {p}
  /\ shelf' = [shelf EXCEPT ![p] = {}]
  /\ UNCHANGED replies

(* The client is given the certificate now, or when its run has started. *)
Take(c, p) ==
  /\ outcome[c] = "asked"
  /\ shelf[p] # {} /\ Covers(shelf[p], Wants[c])
  /\ given' = [given EXCEPT ![c] = shelf[p]]
  /\ outcome' \in {[outcome EXCEPT ![c] = to] : to \in {"taken", "given"}}
  /\ UNCHANGED table

Give(c) ==
  /\ outcome[c] = "taken"
  /\ outcome' = [outcome EXCEPT ![c] = "given"]
  /\ UNCHANGED <<table, given>>

(* Refused with an error, or the Worker is gone and nobody answers. *)
Fail(c) ==
  /\ outcome[c] \in {"asked", "taken"}
  /\ outcome' \in {[outcome EXCEPT ![c] = to] : to \in {"refused", "gone"}}
  /\ given' = [given EXCEPT ![c] = {}]
  /\ UNCHANGED table

Next ==
  \/ \E p \in Places : Issue(p) \/ Withdraw(p)
  \/ \E c \in Clients : Give(c) \/ Fail(c) \/ \E p \in Places : Take(c, p)

Spec == Init /\ [][Next]_<<table, replies>>
=============================================================================
