---------------------------- MODULE CertMatchProofs ----------------------------
(***************************************************************************)
(* Proofs about CertCoverage and CertMatch: coverage is a preorder (what   *)
(* Issuance assumes of it) and means what a TLS client takes it to mean,   *)
(* and every answer serves the hosts that were asked for.                  *)
(***************************************************************************)
EXTENDS CertMatch, TLAPS

(* coversDomain is reflexive and transitive, list by list.                 *)
THEOREM CoverageOrder ==
  /\ \A D : CertCoversAll(D, D)
  /\ \A A, B, D : CertCoversAll(A, B) /\ CertCoversAll(B, D) => CertCoversAll(A, D)
<1>1. \A D : CertCoversAll(D, D)
  BY DEF CertCoversAll, CoversDomain
<1>2. ASSUME NEW A, NEW B, NEW D, CertCoversAll(A, B), CertCoversAll(B, D), NEW d \in D
      PROVE  CoversDomain(A, d)
  <2>1. CASE d \in B
    BY <1>2, <2>1 DEF CertCoversAll
  <2>2. CASE ~IsWildcard(d) /\ \E s \in B : Under(s, d)
    <3>1. PICK s \in B : Under(s, d)
      BY <2>2
    <3>2. s \in A
      BY <1>2, <3>1 DEF CertCoversAll, CoversDomain, Under
    <3> QED
      BY <2>2, <3>1, <3>2 DEF CoversDomain
  <2> QED
    BY <1>2, <2>1, <2>2 DEF CertCoversAll, CoversDomain
<1> QED
  BY <1>1, <1>2 DEF CertCoversAll

(* What covers a name serves every host that the name stands for.          *)
LEMMA CoveringServes ==
  ASSUME NEW S, NEW d \in Name, CoversDomain(S, d), NEW h, Serves(d, h)
  PROVE  \E s \in S : Serves(s, h)
<1>1. CASE d \in S
  BY <1>1
<1>2. CASE ~IsWildcard(d) /\ \E s \in S : Under(s, d)
  BY <1>2 DEF Under, Serves
<1> QED
  BY <1>1, <1>2 DEF CoversDomain

(* What serves every host that a name stands for covers the name.          *)
LEMMA ServingCovers ==
  ASSUME NEW S \in SUBSET Names, NEW d \in Names,
         \A h \in Hosts : Serves(d, h) => \E s \in S : Serves(s, h)
  PROVE  CoversDomain(S, d)
<1>1. PICK h \in Hosts : Serves(d, h) /\ \A m \in Names \ {d} : IsWildcard(d) => ~Serves(m, h)
  BY HostsAssumption
<1>2. PICK s \in S : Serves(s, h)
  BY <1>1
<1>3. CASE IsWildcard(d)
  BY <1>1, <1>2, <1>3 DEF CoversDomain
<1>4. CASE ~IsWildcard(d)
  <2>1. h = d
    BY <1>1, <1>4 DEF Serves
  <2>2. CASE IsWildcard(s)
    BY <1>2, <1>4, <2>1, <2>2 DEF Serves, Under, CoversDomain
  <2>3. CASE ~IsWildcard(s)
    BY <1>2, <2>1, <2>3 DEF Serves, CoversDomain
  <2> QED
    BY <2>2, <2>3
<1> QED
  BY <1>3, <1>4
-----------------------------------------------------------------------------
(* Asks are sets of names, and stripping "*." from a name gives a host.    *)
LEMMA AskedNames ==
  /\ Nothing \in [mode : Modes, consumer : Consumers, domains : SUBSET Names,
                  ok : BOOLEAN, names : SUBSET Names]
  /\ \A D \in Asks : D \in SUBSET Names
  /\ \A n \in Names : n \in Name /\ PickPrimaryDomain(n) \in Host
<1>1. (CHOOSE c \in Consumers : TRUE) \in Consumers
  BY ConsumersAssumption
<1>2. \A n \in Names : n \in Name /\ [n EXCEPT !.star = FALSE] \in Name
  BY NamesAssumption DEF Name
<1> QED
  BY <1>1, <1>2, AsksAssumption DEF Nothing, Modes, PickPrimaryDomain, WildcardToBare, Host, Name

(* Rows made for names are rows.                                           *)
LEMMA MadeRows ==
  ASSUME NEW D \in SUBSET Names, NEW first \in D, NEW csr \in SUBSET Names
  PROVE  IssuedRow(first, D, csr) \in RowType /\ NewRow(first, D) \in RowType
BY AskedNames DEF IssuedRow, NewRow, RowType
-----------------------------------------------------------------------------
(* The certificate and the CSR of a row are for the same names, and those  *)
(* cover the names that the row claims.  A renewal that takes its names    *)
(* from the request and its CSR from the row keeps this, because coverage  *)
(* is transitive.                                                          *)
RowCovers(row) ==
  /\ row.cert = row.csr
  /\ row.csr # {} => CertCoversAll(row.csr, row.sans)
RowsCover == \A i \in DOMAIN rows : RowCovers(rows[i])

AnswerCovers == last.mode # "none" /\ last.ok => CertCoversAll(last.names, last.domains)

MatchInv == TypeOK /\ RowsCover /\ AnswerCovers

(* Every entry of the table is a row.                                      *)
LEMMA RowsAreRows ==
  ASSUME TypeOK, NEW i \in DOMAIN rows
  PROVE  rows[i] \in RowType
BY DEF TypeOK

(* A match is a row whose names cover the request.                         *)
LEMMA MatchesCover ==
  ASSUME NEW c, NEW D, NEW i \in MatchCert(c, D)
  PROVE  i \in DOMAIN rows /\ CertCoversAll(rows[i].sans, D)
BY DEF MatchCert

(* The CSR of a matched row, when it has one, covers the request too.      *)
LEMMA MatchedCsrCovers ==
  ASSUME RowsCover, NEW c, NEW D, NEW i \in MatchCert(c, D), rows[i].csr # {}
  PROVE  CertCoversAll(rows[i].csr, D)
<1>1. i \in DOMAIN rows /\ CertCoversAll(rows[i].sans, D)
  BY MatchesCover
<1>2. CertCoversAll(rows[i].csr, rows[i].sans)
  BY <1>1 DEF RowsCover, RowCovers
<1> QED
  BY <1>1, <1>2, CoverageOrder

(* The CSR that an issuing run sends covers the request.                   *)
LEMMA IssuedCsrCovers ==
  ASSUME TypeOK, RowsCover, NEW c, NEW D \in Asks
  PROVE  LET csr == CsrFor(MatchCert(c, D), D)
         IN  csr \in SUBSET Names /\ CertCoversAll(csr, D)
<1> DEFINE m == MatchCert(c, D)
<1>1. CASE \A i \in m : rows[i].csr = {}
  BY <1>1, AskedNames, CoverageOrder DEF CsrFor
<1>2. CASE \E i \in m : rows[i].csr # {}
  <2> DEFINE k == CHOOSE i \in m : TRUE
  <2>1. k \in m /\ m = {k}
    <3>1. k \in m
      BY <1>2
    <3>2. \A i, j \in m : i = j
      <4> SUFFICES ASSUME NEW i \in m, NEW j \in m PROVE i = j
        OBVIOUS
      <4>1. i \in DOMAIN rows /\ j \in DOMAIN rows /\ i <= j /\ j <= i
        BY DEF MatchCert
      <4>2. i \in Int /\ j \in Int
        BY <4>1 DEF TypeOK
      <4> QED
        BY <4>1, <4>2
    <3> QED
      BY <3>1, <3>2
  <2>2. rows[k].csr # {}
    BY <1>2, <2>1
  <2>3. CertCoversAll(rows[k].csr, D)
    BY <2>1, <2>2, MatchedCsrCovers
  <2>4. rows[k].csr \in SUBSET Names
    BY <2>1, MatchesCover, RowsAreRows DEF RowType
  <2>5. CsrFor(m, D) = rows[k].csr
    BY <1>2 DEF CsrFor
  <2> QED
    BY <2>3, <2>4, <2>5
<1> QED
  BY <1>1, <1>2

(* A table all of whose rows are rows that cover their names.              *)
GoodTable(t) == t \in Seq(RowType) /\ \A j \in DOMAIN t : RowCovers(t[j])

(* Rewriting one row of a good table leaves a good table of that length.   *)
LEMMA RowRewritten ==
  ASSUME NEW t, GoodTable(t), NEW i \in DOMAIN t, NEW row \in RowType, RowCovers(row)
  PROVE  /\ GoodTable([t EXCEPT ![i] = row])
         /\ Len([t EXCEPT ![i] = row]) = Len(t)
<1>1. t \in Seq(RowType) /\ i \in 1..Len(t)
  BY DEF GoodTable
<1>2. \A j \in DOMAIN t : [t EXCEPT ![i] = row][j] = IF j = i THEN row ELSE t[j]
  BY <1>1
<1>3. [t EXCEPT ![i] = row] \in Seq(RowType) /\ Len([t EXCEPT ![i] = row]) = Len(t)
      /\ DOMAIN [t EXCEPT ![i] = row] = DOMAIN t
  BY <1>1
<1> QED
  BY <1>2, <1>3 DEF GoodTable

(* So does adding a row to it.                                             *)
LEMMA RowInserted ==
  ASSUME NEW t, GoodTable(t), NEW row \in RowType, RowCovers(row)
  PROVE  /\ GoodTable(Append(t, row))
         /\ DOMAIN Append(t, row) = 1..(Len(t) + 1)
         /\ Len(Append(t, row)) = Len(t) + 1
         /\ Append(t, row)[Len(t) + 1] = row
<1>1. t \in Seq(RowType)
  BY DEF GoodTable
<1>2. /\ Append(t, row) \in Seq(RowType)
      /\ Len(Append(t, row)) = Len(t) + 1
      /\ DOMAIN Append(t, row) = 1..(Len(t) + 1)
      /\ \A j \in 1..(Len(t) + 1) :
           Append(t, row)[j] = IF j = Len(t) + 1 THEN row ELSE t[j]
  BY <1>1
<1>3. \A j \in 1..Len(t) : RowCovers(t[j])
  BY <1>1 DEF GoodTable
<1>4. Len(t) + 1 \in 1..(Len(t) + 1)
  BY <1>1
<1> QED
  BY <1>2, <1>3, <1>4 DEF GoodTable

(* What every step has to show of the table and of the answer it gives.    *)
LEMMA AnswerKeepsType ==
  ASSUME NEW mode \in Modes, NEW c \in Consumers, NEW D \in Asks, NEW ok \in BOOLEAN,
         NEW S \in SUBSET Names, Answer(mode, c, D, ok, S),
         ok => CertCoversAll(S, D)
  PROVE  /\ last' \in [mode : Modes, consumer : Consumers, domains : SUBSET Names,
                       ok : BOOLEAN, names : SUBSET Names]
         /\ AnswerCovers'
BY AskedNames DEF Answer, AnswerCovers

(* A step without an answer.                                               *)
LEMMA NothingKeepsType ==
  ASSUME last' = Nothing
  PROVE  /\ last' \in [mode : Modes, consumer : Consumers, domains : SUBSET Names,
                       ok : BOOLEAN, names : SUBSET Names]
         /\ AnswerCovers'
<1>1. Nothing.mode = "none"
  BY DEF Nothing
<1> QED
  BY <1>1, AskedNames DEF AnswerCovers

(* A certificate that a row has covers what the row is matched for.        *)
LEMMA MatchedCertCovers ==
  ASSUME TypeOK, RowsCover, NEW c, NEW D, NEW i \in MatchCert(c, D), rows[i].cert # {}
  PROVE  /\ i \in DOMAIN rows
         /\ rows[i].cert \in SUBSET Names /\ rows[i].csr \in SUBSET Names
         /\ CertCoversAll(rows[i].cert, D) /\ CertCoversAll(rows[i].csr, D)
<1>1. i \in DOMAIN rows
  BY MatchesCover
<1>2. rows[i].cert = rows[i].csr /\ rows[i].csr # {}
  BY <1>1 DEF RowsCover, RowCovers
<1>3. CertCoversAll(rows[i].csr, D)
  BY <1>2, MatchedCsrCovers
<1>4. rows[i] \in RowType
  BY <1>1, RowsAreRows
<1> QED
  BY <1>1, <1>2, <1>3, <1>4 DEF RowType

(* A row is made of the names asked for and of a CSR that covers them.     *)
LEMMA MadeRowsCover ==
  ASSUME NEW D \in SUBSET Names, NEW first \in D, NEW csr \in SUBSET Names,
         CertCoversAll(csr, D)
  PROVE  /\ IssuedRow(first, D, csr) \in RowType /\ RowCovers(IssuedRow(first, D, csr))
         /\ NewRow(first, D) \in RowType /\ RowCovers(NewRow(first, D))
<1>1. IssuedRow(first, D, csr) \in RowType /\ NewRow(first, D) \in RowType
  BY MadeRows
<1>2. RowCovers(IssuedRow(first, D, csr)) /\ RowCovers(NewRow(first, D))
  BY DEF RowCovers, IssuedRow, NewRow
<1> QED
  BY <1>1, <1>2

(* Reuse answers with the certificate of the match.                        *)
LEMMA ReuseKeeps ==
  ASSUME MatchInv, NEW c \in Consumers, NEW D \in Asks, Reuse(c, D)
  PROVE  MatchInv'
<1> USE DEF MatchInv
<1>1. PICK i \in MatchCert(c, D) :
        Decide(i) = "cache" /\ Answer("reuse", c, D, TRUE, rows[i].cert)
  BY DEF Reuse
<1>2. rows[i].cert # {}
  BY <1>1 DEF Decide
<1>3. rows[i].cert \in SUBSET Names /\ CertCoversAll(rows[i].cert, D)
  BY <1>2, MatchedCertCovers
<1>4. TypeOK' /\ AnswerCovers'
  BY <1>1, <1>3, AnswerKeepsType DEF Reuse, TypeOK, Modes
<1>5. RowsCover'
  BY DEF Reuse, RowsCover
<1> QED
  BY <1>4, <1>5

(* Renew answers with it too, and may rewrite the row for the request.     *)
LEMMA RenewKeeps ==
  ASSUME MatchInv, NEW c \in Consumers, NEW D \in Asks, Renew(c, D)
  PROVE  MatchInv'
<1> USE DEF MatchInv
<1>1. PICK i \in MatchCert(c, D), first \in D :
        /\ Decide(i) = "renew"
        /\ Answer("renew", c, D, TRUE, rows[i].cert)
        /\ \/ rows' = [rows EXCEPT ![i] = IssuedRow(first, D, rows[i].csr)]
           \/ rows' = rows
  BY DEF Renew
<1>2. rows[i].cert # {}
  BY <1>1 DEF Decide
<1>3. /\ i \in DOMAIN rows
      /\ rows[i].cert \in SUBSET Names /\ rows[i].csr \in SUBSET Names
      /\ CertCoversAll(rows[i].cert, D) /\ CertCoversAll(rows[i].csr, D)
  BY <1>2, MatchedCertCovers
<1>4. /\ IssuedRow(first, D, rows[i].csr) \in RowType
      /\ RowCovers(IssuedRow(first, D, rows[i].csr))
  BY <1>3, AskedNames, MadeRowsCover
<1>5. rows' \in Seq(RowType) /\ Len(rows') <= MaxRows /\ RowsCover'
  <2>1. CASE rows' = [rows EXCEPT ![i] = IssuedRow(first, D, rows[i].csr)]
    BY <1>3, <1>4, <2>1, RowRewritten DEF TypeOK, RowsCover, GoodTable
  <2>2. CASE rows' = rows
    BY <2>2 DEF TypeOK, RowsCover
  <2> QED
    BY <1>1, <2>1, <2>2
<1>6. /\ last' \in [mode : Modes, consumer : Consumers, domains : SUBSET Names,
                    ok : BOOLEAN, names : SUBSET Names]
      /\ AnswerCovers'
  BY <1>1, <1>3, AnswerKeepsType DEF Modes
<1> QED
  BY <1>5, <1>6 DEF TypeOK

(* Issue writes a row for exactly the names asked for, with a CSR that     *)
(* covers them, and answers with the certificate for that CSR.             *)
LEMMA IssueKeeps ==
  ASSUME MatchInv, NEW c \in Consumers, NEW D \in Asks, Issue(c, D)
  PROVE  MatchInv'
<1> USE DEF MatchInv
<1> DEFINE csr == CsrFor(MatchCert(c, D), D)
<1> HIDE DEF csr
<1>1. csr \in SUBSET Names /\ CertCoversAll(csr, D)
  BY IssuedCsrCovers DEF csr
<1>2. PICK ok \in BOOLEAN, first \in D :
        LET old == IF ByHash(D) = {} THEN Append(rows, NewRow(first, D)) ELSE rows
            i   == CHOOSE j \in DOMAIN old : old[j].sans = D
        IN  /\ rows' = IF ok THEN [old EXCEPT ![i] = IssuedRow(first, D, csr)] ELSE old
            /\ Answer("issue", c, D, ok, IF ok THEN csr ELSE {})
  BY DEF Issue, Outcomes, Resolves, csr
<1> DEFINE old == IF ByHash(D) = {} THEN Append(rows, NewRow(first, D)) ELSE rows
           i   == CHOOSE j \in DOMAIN old : old[j].sans = D
<1>3. /\ IssuedRow(first, D, csr) \in RowType /\ RowCovers(IssuedRow(first, D, csr))
      /\ NewRow(first, D) \in RowType /\ RowCovers(NewRow(first, D))
  BY <1>1, AskedNames, MadeRowsCover
<1>4. GoodTable(old) /\ Len(old) <= MaxRows /\ \E j \in DOMAIN old : old[j].sans = D
  <2>1. GoodTable(rows) /\ Len(rows) \in Nat
    BY DEF TypeOK, RowsCover, GoodTable
  <2>2. CASE ByHash(D) = {}
    <3>1. Len(rows) < MaxRows
      BY <2>2 DEF Issue
    <3>2. /\ GoodTable(Append(rows, NewRow(first, D)))
          /\ Len(Append(rows, NewRow(first, D))) = Len(rows) + 1
          /\ Len(rows) + 1 \in DOMAIN Append(rows, NewRow(first, D))
          /\ Append(rows, NewRow(first, D))[Len(rows) + 1] = NewRow(first, D)
      BY <1>3, <2>1, RowInserted
    <3>3. NewRow(first, D).sans = D
      BY DEF NewRow
    <3>4. Len(rows) + 1 <= MaxRows
      BY <2>1, <3>1, BoundAssumption
    <3> QED
      BY <2>2, <3>2, <3>3, <3>4
  <2>3. CASE ByHash(D) # {}
    BY <2>1, <2>3 DEF ByHash, TypeOK
  <2> QED
    BY <2>2, <2>3
<1>5. i \in DOMAIN old
  BY <1>4
<1> HIDE DEF old, i
<1>6. GoodTable(rows') /\ Len(rows') <= MaxRows
  <2>1. rows' = [old EXCEPT ![i] = IssuedRow(first, D, csr)] \/ rows' = old
    BY <1>2 DEF old, i
  <2>2. GoodTable([old EXCEPT ![i] = IssuedRow(first, D, csr)])
        /\ Len([old EXCEPT ![i] = IssuedRow(first, D, csr)]) = Len(old)
    BY <1>3, <1>4, <1>5, RowRewritten
  <2> QED
    BY <1>4, <2>1, <2>2
<1>7. /\ last' \in [mode : Modes, consumer : Consumers, domains : SUBSET Names,
                    ok : BOOLEAN, names : SUBSET Names]
      /\ AnswerCovers'
  <2> DEFINE S == IF ok THEN csr ELSE {}
  <2>1. S \in SUBSET Names /\ (ok => CertCoversAll(S, D)) /\ "issue" \in Modes
    BY <1>1 DEF Modes
  <2>2. Answer("issue", c, D, ok, S)
    BY <1>2
  <2> HIDE DEF S
  <2> QED
    BY <2>1, <2>2, AnswerKeepsType
<1> QED
  BY <1>6, <1>7 DEF TypeOK, RowsCover, GoodTable

(* The cron trigger rewrites a row for its own names, with its own CSR.    *)
LEMMA ScanKeeps ==
  ASSUME MatchInv, NEW i \in DOMAIN rows, Scan(i)
  PROVE  MatchInv'
<1> USE DEF MatchInv
<1>1. PICK first \in rows[i].sans :
        \/ rows' = [rows EXCEPT ![i] = IssuedRow(first, rows[i].sans, rows[i].csr)]
        \/ rows' = rows
  BY DEF Scan
<1>2. rows[i] \in RowType /\ rows[i].sans \in SUBSET Names /\ rows[i].csr \in SUBSET Names
  BY RowsAreRows DEF RowType
<1>3. CertCoversAll(rows[i].csr, rows[i].sans)
  BY DEF Scan, RowsCover, RowCovers
<1>4. /\ IssuedRow(first, rows[i].sans, rows[i].csr) \in RowType
      /\ RowCovers(IssuedRow(first, rows[i].sans, rows[i].csr))
  BY <1>2, <1>3, MadeRowsCover
<1>5. GoodTable(rows)
  BY DEF TypeOK, RowsCover, GoodTable
<1>6. GoodTable(rows') /\ Len(rows') <= MaxRows
  <2>1. CASE rows' = [rows EXCEPT ![i] = IssuedRow(first, rows[i].sans, rows[i].csr)]
    BY <1>4, <1>5, <2>1, RowRewritten DEF TypeOK
  <2>2. CASE rows' = rows
    BY <1>5, <2>2 DEF TypeOK
  <2> QED
    BY <1>1, <2>1, <2>2
<1> QED
  BY <1>6, NothingKeepsType DEF Scan, TypeOK, RowsCover, GoodTable

(* Time changes no names.                                                  *)
LEMMA AgeKeeps ==
  ASSUME MatchInv, NEW i \in DOMAIN rows, Age(i)
  PROVE  MatchInv'
<1> USE DEF MatchInv
<1>1. PICK a \in {"due", "expired"} : rows' = [rows EXCEPT ![i] = [rows[i] EXCEPT !.age = a]]
  BY DEF Age
<1>2. rows[i] \in RowType /\ RowCovers(rows[i])
  BY RowsAreRows DEF RowsCover
<1>3. [rows[i] EXCEPT !.age = a] \in RowType /\ RowCovers([rows[i] EXCEPT !.age = a])
  BY <1>2 DEF RowType, RowCovers
<1>4. GoodTable(rows)
  BY DEF TypeOK, RowsCover, GoodTable
<1>5. GoodTable(rows') /\ Len(rows') <= MaxRows
  BY <1>1, <1>3, <1>4, RowRewritten DEF TypeOK
<1> QED
  BY <1>5, NothingKeepsType DEF Age, TypeOK, RowsCover, GoodTable

(* MatchInv is an invariant.                                               *)
THEOREM MatchInvariant == Spec => []MatchInv
<1>1. Init => MatchInv
  <2> SUFFICES ASSUME Init PROVE MatchInv
    OBVIOUS
  <2>1. rows = <<>> /\ last = Nothing /\ Nothing.mode = "none"
    BY DEF Init, Nothing
  <2>2. rows \in Seq(RowType) /\ Len(rows) <= MaxRows /\ DOMAIN rows = {}
    BY <2>1, BoundAssumption
  <2> QED
    BY <2>1, <2>2, AskedNames DEF MatchInv, TypeOK, RowsCover, AnswerCovers
<1>2. MatchInv /\ [Next]_vars => MatchInv'
  <2> SUFFICES ASSUME MatchInv, [Next]_vars PROVE MatchInv'
    OBVIOUS
  <2>1. CASE UNCHANGED vars
    BY <2>1 DEF vars, MatchInv, TypeOK, RowsCover, AnswerCovers
  <2>2. CASE Next
    BY <2>2, ReuseKeeps, RenewKeeps, IssueKeeps, ScanKeeps, AgeKeeps DEF Next
  <2> QED
    BY <2>1, <2>2
<1> QED
  BY <1>1, <1>2, PTL DEF Spec

(* Every row and every answer keeps its type.                              *)
THEOREM TypeCorrect == Spec => []TypeOK
<1>1. MatchInv => TypeOK
  BY DEF MatchInv
<1> QED
  BY <1>1, MatchInvariant, PTL

(* coversDomain accepts a row for a name exactly when every host that the  *)
(* name stands for is served by a name of the row.                         *)
THEOREM SemanticCoverage == Spec => []CoverageIsSemantic
<1>1. TypeOK => CoverageIsSemantic
  <2> SUFFICES ASSUME TypeOK, NEW i \in DOMAIN rows, NEW d \in Names
               PROVE  CoversDomain(rows[i].sans, d) <=>
                        \A h \in Hosts : Serves(d, h) => \E s \in rows[i].sans : Serves(s, h)
    BY DEF CoverageIsSemantic
  <2>1. rows[i].sans \in SUBSET Names /\ d \in Name
    BY RowsAreRows, NamesAssumption DEF RowType
  <2> QED
    BY <2>1, CoveringServes, ServingCovers
<1> QED
  BY <1>1, TypeCorrect, PTL

(* Every successful answer serves every host that was asked for.           *)
THEOREM AnswersServe == Spec => []AnswersServeHosts
<1>1. MatchInv => AnswersServeHosts
  <2> SUFFICES ASSUME MatchInv, last.mode # "none", last.ok,
                      NEW d \in last.domains, NEW h \in Hosts, Serves(d, h)
               PROVE  \E n \in last.names : Serves(n, h)
    BY DEF AnswersServeHosts
  <2>1. CoversDomain(last.names, d)
    BY DEF MatchInv, AnswerCovers, CertCoversAll
  <2>2. d \in Name
    BY NamesAssumption DEF MatchInv, TypeOK
  <2> QED
    BY <2>1, <2>2, CoveringServes
<1> QED
  BY <1>1, MatchInvariant, PTL
=============================================================================
