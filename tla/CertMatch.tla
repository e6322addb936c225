------------------------------- MODULE CertMatch -------------------------------
(***************************************************************************)
(* The certificates of one ACME account, as requestCert chooses among and  *)
(* rewrites them (server/core/pki/core.ts), seen one request at a time:    *)
(* what Issuance leaves out, real names and the consumers' allow rules,    *)
(* at the price of leaving out the interleavings that Issuance is about.   *)
(***************************************************************************)
EXTENDS CertCoverage

CONSTANTS
  Names,    \* the names there are
  Hosts,    \* hosts that TLS clients connect to
  Consumers,
  Allow,    \* the allow rules of each consumer
  Asks,     \* the domains that may be asked for
  AnyOutcome, \* whether an order may fail, or need no challenge, for no reason seen here
  MaxRows     \* bound: rows ever inserted

ASSUME NamesAssumption == Names \subseteq Name /\ Hosts \subseteq Host
ASSUME AsksAssumption == Asks \subseteq (SUBSET Names) \ {{}}
ASSUME BoundAssumption == MaxRows \in Nat /\ AnyOutcome \in BOOLEAN
ASSUME ConsumersAssumption == Consumers # {}
(* Every name stands for a host that no other wildcard name serves.        *)
ASSUME HostsAssumption ==
  \A n \in Names : \E h \in Hosts : Serves(n, h) /\
    \A m \in Names \ {n} : IsWildcard(n) => ~Serves(m, h)

VARIABLES
  rows,  \* the Certificate table, by createdAt; certHash stands for sans
  last   \* the request answered last

vars == <<rows, last>>

Modes == {"none", "reuse", "renew", "issue"}
Nothing == [mode |-> "none", consumer |-> CHOOSE c \in Consumers : TRUE,
            domains |-> {}, ok |-> TRUE, names |-> {}]

RowType == [cn : Host, sans : SUBSET Names, csr : SUBSET Names, cert : SUBSET Names,
            age : {"fresh", "due", "expired"}]

TypeOK ==
  /\ rows \in Seq(RowType) /\ Len(rows) <= MaxRows
  /\ last \in [mode : Modes, consumer : Consumers, domains : SUBSET Names,
               ok : BOOLEAN, names : SUBSET Names]
-----------------------------------------------------------------------------
MatchCert(c, D) ==
  LET eligible == {i \in DOMAIN rows :
                     /\ CertAllowed(rows[i].cn, rows[i].sans, Allow[c])
                     /\ CertCoversAll(rows[i].sans, D)}
      score(i) == ScoreCert(rows[i].sans, D)
      top == {i \in eligible : \A j \in eligible : score(j) <= score(i)}
  IN  {i \in top : \A j \in top : j <= i}

Decide(i) ==
  IF rows[i].cert = {} THEN "issue"
  ELSE IF rows[i].age = "fresh" THEN "cache" ELSE "renew"

Permitted(c, D) == \A d \in D : AllowMatch(d, Allow[c])
ByHash(D) == {i \in DOMAIN rows : rows[i].sans = D}

(* getDns finds a zone only for names that are asked for, with or without  *)
(* "*.".  Besides, the CA and the DNS provider may fail, and the CA may    *)
(* ask no challenge for a name that it authorised before.                  *)
Resolves(csr, D) == \A n \in csr : \E d \in D : WildcardToBare(d) = WildcardToBare(n)
Outcomes(csr, D) == IF AnyOutcome THEN BOOLEAN ELSE {Resolves(csr, D)}

CsrFor(m, D) == IF \E i \in m : rows[i].csr # {} THEN rows[CHOOSE i \in m : TRUE].csr ELSE D
IssuedRow(first, D, csr) ==
  [cn |-> PickPrimaryDomain(first), sans |-> D, csr |-> csr, cert |-> csr, age |-> "fresh"]
NewRow(first, D) ==
  [cn |-> PickPrimaryDomain(first), sans |-> D, csr |-> {}, cert |-> {}, age |-> "fresh"]

Answer(mode, c, D, ok, names) ==
  last' = [mode |-> mode, consumer |-> c, domains |-> D, ok |-> ok, names |-> names]

Init == rows = <<>> /\ last = Nothing

Reuse(c, D) ==
  /\ Permitted(c, D)
  /\ \E i \in MatchCert(c, D) :
       Decide(i) = "cache" /\ Answer("reuse", c, D, TRUE, rows[i].cert)
  /\ UNCHANGED rows

(* The answer is the old certificate; the row is rewritten for the names   *)
(* asked for, unless the order fails or another row has their certHash.    *)
Renew(c, D) ==
  /\ Permitted(c, D)
  /\ \E i \in MatchCert(c, D), first \in D :
       /\ Decide(i) = "renew" /\ rows[i].age = "due"
       /\ Answer("renew", c, D, TRUE, rows[i].cert)
       /\ \E ok \in Outcomes(rows[i].csr, D) :
            rows' = IF ok /\ ByHash(D) \subseteq {i}
                    THEN [rows EXCEPT ![i] = IssuedRow(first, D, rows[i].csr)]
                    ELSE rows

(* No match, or one that is expired or was never issued: the run is for    *)
(* the row of these very names, with the key and the CSR of the match.     *)
Issue(c, D) ==
  /\ Permitted(c, D)
  /\ LET m == MatchCert(c, D)
         csr == CsrFor(m, D)
     IN  /\ \A i \in m : rows[i].cert = {} \/ rows[i].age = "expired"
         /\ ByHash(D) = {} => Len(rows) < MaxRows
         /\ \E ok \in Outcomes(csr, D), first \in D :
              LET old == IF ByHash(D) = {} THEN Append(rows, NewRow(first, D)) ELSE rows
                  i   == CHOOSE j \in DOMAIN old : old[j].sans = D
              IN  /\ rows' = IF ok THEN [old EXCEPT ![i] = IssuedRow(first, D, csr)] ELSE old
                  /\ Answer("issue", c, D, ok, IF ok THEN csr ELSE {})

(* The cron trigger renews a row whose slot has come, as it is.            *)
Scan(i) ==
  /\ rows[i].cert # {}
  /\ \E ok \in Outcomes(rows[i].csr, rows[i].sans), first \in rows[i].sans :
       rows' = IF ok THEN [rows EXCEPT ![i] = IssuedRow(first, rows[i].sans, rows[i].csr)]
                     ELSE rows
  /\ last' = Nothing

(* Time passes. *)
Age(i) ==
  /\ rows[i].cert # {}
  /\ \/ rows[i].age = "fresh" /\ rows' = [rows EXCEPT ![i].age = "due"]
     \/ rows[i].age = "due" /\ rows' = [rows EXCEPT ![i].age = "expired"]
  /\ last' = Nothing

Next ==
  \/ \E c \in Consumers, D \in Asks : Reuse(c, D) \/ Renew(c, D) \/ Issue(c, D)
  \/ \E i \in DOMAIN rows : Scan(i) \/ Age(i)

Spec == Init /\ [][Next]_vars
-----------------------------------------------------------------------------
(* Whatever was asked before and by whom, a successful answer serves every *)
(* host that the names asked for stand for, as a TLS client sees it, and   *)
(* not only as the sans column claims.                                     *)
AnswersServeHosts ==
  last.mode # "none" /\ last.ok =>
    \A d \in last.domains : \A h \in Hosts :
      Serves(d, h) => \E n \in last.names : Serves(n, h)

(* coversDomain decides by comparing names what a TLS client decides by    *)
(* hosts: it accepts a row exactly when no host asked for is left out.     *)
CoverageIsSemantic ==
  \A i \in DOMAIN rows : \A d \in Names :
    CoversDomain(rows[i].sans, d) <=>
      \A h \in Hosts : Serves(d, h) => \E s \in rows[i].sans : Serves(s, h)
=============================================================================
