---------------------------- MODULE ConsoleProofs ----------------------------
(* Proofs about the console side's parts, for any rows, admins, accounts,  *)
(* keys, tabs, consumers, pages of log lines and pages of a row.           *)
EXTENDS MCConsole, FiniteSetTheorems, WellFoundedInduction, TLAPS

(* The least and the greatest number of a set: the library's well-founded  *)
(* order of the naturals, used on a set of numbers.                        *)
LEMMA LeastExists ==
  ASSUME NEW T \in SUBSET Nat, T # {}
  PROVE  \E x \in T : \A y \in T : x <= y
<1> DEFINE R == OpToRel(<, Nat)
<1>1. IsWellFoundedOn(R, Nat)
  BY NatLessThanWellFounded
<1>2. \A x, y \in Nat : x < y => <<x, y>> \in R
  BY DEF OpToRel
<1> HIDE DEF R
<1>3. PICK x \in T : \A y \in T : ~ (<<y, x>> \in R)
  BY <1>1, WFMin
<1>4. \A y \in T : ~(y < x)
  BY <1>2, <1>3
<1> QED
  BY <1>4

LEMMA GreatestExists ==
  ASSUME NEW T \in SUBSET Nat, T # {}, NEW b \in Nat, \A y \in T : y <= b
  PROVE  \E x \in T : \A y \in T : y <= x
<1> DEFINE U == {b - y : y \in T}
<1>1. U \in SUBSET Nat /\ U # {}
  <2>1. \A y \in T : b - y \in Nat
    OBVIOUS
  <2>2. PICK t \in T : TRUE
    OBVIOUS
  <2>3. b - t \in U
    OBVIOUS
  <2> QED
    BY <2>1, <2>3
<1>2. PICK u \in U : \A y \in U : u <= y
  <2> HIDE DEF U
  <2> QED
    BY <1>1, LeastExists
<1>3. PICK x \in T : u = b - x
  OBVIOUS
<1>4. \A y \in T : y <= x
  BY <1>2, <1>3
<1> QED
  BY <1>4

-----------------------------------------------------------------------------
(* The store (AdminStore). *)
Known == rows \cup gone

(* A removed parent, and one about to be removed, has had every table that *)
(* may refer to it nulled.                                                 *)
RemovedAreSwept == \A p \in Parents \cap gone : Referring(p) \subseteq swept[p]
RemovalsSweep ==
  \A t \in Admins :
    /\ work[t].op \in {"found", "sweeping", "swept"} => work[t].id \in Parents
    /\ work[t].op = "sweeping" => work[t].id \in Accounts /\ "Consumer" \in swept[work[t].id]
    /\ work[t].op = "swept" => Referring(work[t].id) \subseteq swept[work[t].id]

(* References, written or about to be, name parents that exist or existed. *)
ReferencesKnown ==
  /\ \A c \in Children : ref[c] # None => ref[c] \in ParentsOf(c) /\ ref[c] \in Known
  /\ \A t \in Admins : work[t].op \in {"form", "new"} =>
       /\ work[t].id \in Consumers \cup Domains
       /\ work[t].ref # None => work[t].ref \in ParentsOf(work[t].id) /\ work[t].ref \in Known
       /\ work[t].choice \subseteq ParentsOf(work[t].id) \cap Known
  /\ \A c \in Consumers : run[c] # None => run[c] \in Accounts /\ run[c] \in Known

(* A row that refers to a parent whose table was nulled took it later. *)
SweptAreLate ==
  \A c \in Children \cap rows : ref[c] # None /\ TableOf(c) \in swept[ref[c]] => c \in late

ReferenceInv == StoreTypeOK /\ RemovedAreSwept /\ RemovalsSweep /\ ReferencesKnown /\ SweptAreLate

(* Tokens come from the counter. *)
TokensCounted ==
  /\ \A c \in Consumers : token[c] <= last /\ \A n \in retired[c] : n <= last
  /\ \A t \in Admins : work[t].token <= last

TokenInv == StoreTypeOK /\ ReferencesKnown /\ TokensCounted /\ RevokedStaysRevoked

-----------------------------------------------------------------------------
LEMMA ParentTypes ==
  ASSUME NEW c \in Children
  PROVE  /\ ParentsOf(c) \subseteq Parents /\ None \notin ParentsOf(c)
         /\ TableOf(c) \in Tables
         /\ \A p \in ParentsOf(c) : TableOf(c) \in Referring(p)
         /\ c \in Consumers \/ c \in Certificates => ParentsOf(c) = Accounts
  BY RowAssumption DEF ParentsOf, Parents, TableOf, Tables, Referring, Children

LEMMA StoreInitInv == StoreInit => ReferenceInv /\ TokenInv
<1> SUFFICES ASSUME StoreInit PROVE ReferenceInv /\ TokenInv
  OBVIOUS
<1>1. StoreTypeOK
  <2>1. /\ rows \subseteq Parents \cup Children
        /\ gone \subseteq Parents \cup Children /\ rows \cap gone = {}
        /\ ref \in [Children -> Parents \cup {None}]
        /\ \A c \in Children : ref[c] # None => ref[c] \in ParentsOf(c)
    BY DEF StoreInit, Children
  <2>2. /\ token \in [Consumers -> Nat] /\ allow \in [Consumers -> Nat] /\ last \in Nat
        /\ run \in [Consumers -> Parents \cup {None}]
        /\ swept \in [Parents -> SUBSET Tables] /\ late \subseteq Children
        /\ retired \in [Consumers -> SUBSET Nat] /\ undone \subseteq Consumers
    BY DEF StoreInit, Referring, Tables
  <2>3. work \in [Admins -> Works]
    BY DEF StoreInit, Idle, Ops, Works
  <2>4. QED
    BY <2>1, <2>2, <2>3 DEF StoreTypeOK
<1>2. RemovedAreSwept /\ RemovalsSweep /\ SweptAreLate
  BY RowAssumption DEF StoreInit, RemovedAreSwept, RemovalsSweep, SweptAreLate, Idle, Parents, Children, StoreTypeOK, ParentsOf
<1>3. ReferencesKnown
  BY DEF StoreInit, ReferencesKnown, Idle, Known
<1>4. TokensCounted /\ RevokedStaysRevoked
  BY DEF StoreInit, TokensCounted, RevokedStaysRevoked, Idle
<1>5. QED
  BY <1>1, <1>2, <1>3, <1>4 DEF ReferenceInv, TokenInv
(* One step of each kind keeps both invariants. *)
LEMMA OpensForm ==
  ASSUME ReferenceInv, TokenInv, NEW t \in Admins, NEW c \in Consumers \cup Domains, OpenForm(t, c)
  PROVE  ReferenceInv' /\ TokenInv'
<1>1. StoreTypeOK'
  BY ParentTypes DEF ReferenceInv, StoreTypeOK, ReferencesKnown, OpenForm, history, Children, Parents, Tables, Idle, Works, Ops
<1>2. RemovedAreSwept' /\ RemovalsSweep'
  BY DEF ReferenceInv, StoreTypeOK, RemovedAreSwept, RemovalsSweep, OpenForm, history, Referring, Parents, Idle, Works, Ops
<1>3. ReferencesKnown'
  BY ParentTypes DEF ReferenceInv, StoreTypeOK, ReferencesKnown, Known, OpenForm, history, Children, Idle, Works, Ops
<1>4. SweptAreLate'
  BY ParentTypes DEF ReferenceInv, StoreTypeOK, ReferencesKnown, SweptAreLate, OpenForm, history, Children, Idle, Works, Ops
<1>5. TokensCounted' /\ RevokedStaysRevoked'
  BY DEF TokenInv, StoreTypeOK, TokensCounted, RevokedStaysRevoked, OpenForm, history, Idle, Works, Ops
<1>6. QED
  BY <1>1, <1>2, <1>3, <1>4, <1>5 DEF ReferenceInv, TokenInv

LEMMA ClosesForm ==
  ASSUME ReferenceInv, TokenInv, NEW t \in Admins, CloseForm(t)
  PROVE  ReferenceInv' /\ TokenInv'
<1>1. StoreTypeOK'
  BY ParentTypes DEF ReferenceInv, StoreTypeOK, ReferencesKnown, CloseForm, history, Children, Parents, Tables, Idle, Works, Ops
<1>2. RemovedAreSwept' /\ RemovalsSweep'
  BY DEF ReferenceInv, StoreTypeOK, RemovedAreSwept, RemovalsSweep, CloseForm, history, Referring, Parents, Idle, Works, Ops
<1>3. ReferencesKnown'
  BY ParentTypes DEF ReferenceInv, StoreTypeOK, ReferencesKnown, Known, CloseForm, history, Children, Idle, Works, Ops
<1>4. SweptAreLate'
  BY ParentTypes DEF ReferenceInv, StoreTypeOK, ReferencesKnown, SweptAreLate, CloseForm, history, Children, Idle, Works, Ops
<1>5. TokensCounted' /\ RevokedStaysRevoked'
  BY DEF TokenInv, StoreTypeOK, TokensCounted, RevokedStaysRevoked, CloseForm, history, Idle, Works, Ops
<1>6. QED
  BY <1>1, <1>2, <1>3, <1>4, <1>5 DEF ReferenceInv, TokenInv

LEMMA RemovesChild ==
  ASSUME ReferenceInv, TokenInv, NEW t \in Admins, NEW c \in Children, RemoveChild(t, c)
  PROVE  ReferenceInv' /\ TokenInv'
<1>1. StoreTypeOK'
  BY ParentTypes DEF ReferenceInv, StoreTypeOK, ReferencesKnown, RemoveChild, history, Children, Parents, Tables
<1>2. RemovedAreSwept' /\ RemovalsSweep'
  BY RowAssumption DEF ReferenceInv, RemovedAreSwept, RemovalsSweep, RemoveChild, history
<1>3. ReferencesKnown'
  BY ParentTypes DEF ReferenceInv, StoreTypeOK, ReferencesKnown, Known, RemoveChild, history, Children
<1>4. SweptAreLate'
  BY ParentTypes DEF ReferenceInv, StoreTypeOK, ReferencesKnown, SweptAreLate, RemoveChild, history, Children
<1>5. TokensCounted' /\ RevokedStaysRevoked'
  BY DEF TokenInv, StoreTypeOK, TokensCounted, RevokedStaysRevoked, RemoveChild, history
<1>6. QED
  BY <1>1, <1>2, <1>3, <1>4, <1>5 DEF ReferenceInv, TokenInv

LEMMA Saves ==
  ASSUME ReferenceInv, TokenInv, NEW t \in Admins, NEW r \in Parents \cup {None}, NEW a \in 0..MaxEdit, Save(t, r, a)
  PROVE  ReferenceInv' /\ TokenInv'
<1>1. StoreTypeOK'
  <2> DEFINE c == work[t].id
  <2>1. work[t] \in Works /\ Idle \in Works
    BY DEF ReferenceInv, StoreTypeOK, Idle, Works, Ops
  <2>2. c \in Consumers \cup Domains
    BY DEF Save, ReferenceInv, ReferencesKnown
  <2>3. ref' = [ref EXCEPT ![c] = r] /\ (r # None => r \in ParentsOf(c))
    BY <2>2 DEF Save, ReferenceInv, ReferencesKnown
  <2>4. ref' \in [Children -> Parents \cup {None}] /\ \A x \in Children : ref'[x] # None => ref'[x] \in ParentsOf(x)
    BY <2>3 DEF ReferenceInv, StoreTypeOK
  <2>5. /\ token' \in [Consumers -> Nat] /\ allow' \in [Consumers -> Nat]
        /\ undone' \subseteq Consumers /\ retired' \in [Consumers -> SUBSET Nat]
    <3>1. CASE c \in Consumers
      <4>1. \A x \in Consumers : token[x] \in Nat
        BY DEF ReferenceInv, StoreTypeOK
      <4>2. work[t].token \in Nat /\ a \in Nat
        BY <2>1 DEF Works
      <4> QED
        BY <3>1, <4>1, <4>2 DEF Save, ReferenceInv, StoreTypeOK
    <3>2. CASE c \notin Consumers
      BY <3>2 DEF Save, ReferenceInv, StoreTypeOK
    <3> QED
      BY <3>1, <3>2
  <2>6. late' \subseteq Children
    BY <2>2 DEF Save, TakesReference, ReferenceInv, StoreTypeOK, Children
  <2>7. work' \in [Admins -> Works]
    BY <2>1 DEF Save, ReferenceInv, StoreTypeOK
  <2> QED
    BY <2>4, <2>5, <2>6, <2>7 DEF Save, ReferenceInv, StoreTypeOK
<1>2. RemovedAreSwept' /\ RemovalsSweep'
  BY DEF ReferenceInv, StoreTypeOK, RemovedAreSwept, RemovalsSweep, Save, TakesReference, history, Referring, Parents, Idle, Works, Ops
<1>3. ReferencesKnown'
  BY ParentTypes DEF ReferenceInv, StoreTypeOK, ReferencesKnown, Known, Save, TakesReference, history, Children, Idle, Works, Ops
<1>4. SweptAreLate'
  BY ParentTypes DEF ReferenceInv, StoreTypeOK, ReferencesKnown, SweptAreLate, Save, TakesReference, history, Children, Idle, Works, Ops
<1>5. TokensCounted' /\ RevokedStaysRevoked'
  <2> DEFINE d == work[t].id
             n == work[t].token
  <2>1. last' = last /\ last \in Nat /\ n \in Nat /\ n <= last
    BY DEF Save, TokenInv, StoreTypeOK, TokensCounted, Works
  <2>2. work' = [work EXCEPT ![t] = Idle]
    BY DEF Save
  <2>3. \A u \in Admins : work'[u].token <= last'
    BY <2>1, <2>2 DEF TokenInv, StoreTypeOK, TokensCounted, Works, Idle
  <2>4. CASE d \notin Consumers
    <3>1. UNCHANGED <<token, retired, undone>>
      BY <2>4 DEF Save
    <3>2. QED
      BY <2>1, <2>3, <3>1 DEF TokenInv, TokensCounted, RevokedStaysRevoked
  <2>5. CASE d \in Consumers
    <3>1. /\ token' = [token EXCEPT ![d] = n]
          /\ undone' = IF n \in retired[d] THEN undone \cup {d} ELSE undone
          /\ retired' = [retired EXCEPT ![d] = IF n = token[d] THEN @ ELSE @ \cup {token[d]}]
      BY <2>5 DEF Save
    <3>2. \A c \in Consumers : token[c] <= last /\ \A m \in retired[c] : m <= last
      BY DEF TokenInv, TokensCounted
    <3>3. ASSUME NEW c \in Consumers
          PROVE  /\ token'[c] <= last' /\ \A m \in retired'[c] : m <= last'
                 /\ token'[c] \in retired'[c] => c \in undone'
      <4>1. CASE c = d
        <5>1. token'[c] = n /\ retired'[c] = IF n = token[c] THEN retired[c] ELSE retired[c] \cup {token[c]}
          BY <3>1, <4>1 DEF TokenInv, StoreTypeOK
        <5>2. n \in retired'[c] => n \in retired[c]
          BY <5>1
        <5>3. QED
          BY <2>1, <3>1, <3>2, <4>1, <5>1, <5>2
      <4>2. CASE c # d
        <5>1. token'[c] = token[c] /\ retired'[c] = retired[c] /\ (c \in undone => c \in undone')
          BY <3>1, <4>2 DEF TokenInv, StoreTypeOK
        <5>2. token[c] \in retired[c] => c \in undone
          BY DEF TokenInv, RevokedStaysRevoked
        <5>3. QED
          BY <2>1, <3>2, <5>1, <5>2
      <4>3. QED
        BY <4>1, <4>2
    <3>4. QED
      BY <2>3, <3>3 DEF TokensCounted, RevokedStaysRevoked
  <2>6. QED
    BY <2>4, <2>5
<1>6. QED
  BY <1>1, <1>2, <1>3, <1>4, <1>5 DEF ReferenceInv, TokenInv

LEMMA OpensNew ==
  ASSUME ReferenceInv, TokenInv, NEW t \in Admins, NEW c \in Consumers \cup Domains, OpenNew(t, c)
  PROVE  ReferenceInv' /\ TokenInv'
<1>1. StoreTypeOK'
  BY ParentTypes DEF ReferenceInv, StoreTypeOK, ReferencesKnown, OpenNew, history, Children, Parents, Tables, Idle, Works, Ops
<1>2. RemovedAreSwept' /\ RemovalsSweep'
  BY DEF ReferenceInv, StoreTypeOK, RemovedAreSwept, RemovalsSweep, OpenNew, history, Referring, Parents, Idle, Works, Ops
<1>3. ReferencesKnown'
  BY ParentTypes DEF ReferenceInv, StoreTypeOK, ReferencesKnown, Known, OpenNew, history, Children, Idle, Works, Ops
<1>4. SweptAreLate'
  BY ParentTypes DEF ReferenceInv, StoreTypeOK, ReferencesKnown, SweptAreLate, OpenNew, history, Children, Idle, Works, Ops
<1>5. TokensCounted' /\ RevokedStaysRevoked'
  BY DEF TokenInv, StoreTypeOK, TokensCounted, RevokedStaysRevoked, OpenNew, history, Idle, Works, Ops
<1>6. QED
  BY <1>1, <1>2, <1>3, <1>4, <1>5 DEF ReferenceInv, TokenInv

LEMMA Creates ==
  ASSUME ReferenceInv, TokenInv, NEW t \in Admins, NEW r \in Parents \cup {None}, Create(t, r)
  PROVE  ReferenceInv' /\ TokenInv'
<1>1. StoreTypeOK'
  <2> DEFINE c == work[t].id
  <2>1. work[t] \in Works /\ Idle \in Works
    BY DEF ReferenceInv, StoreTypeOK, Idle, Works, Ops
  <2>2. c \in Consumers \cup Domains
    BY DEF Create, ReferenceInv, ReferencesKnown
  <2>3. ref' = [ref EXCEPT ![c] = r] /\ (r # None => r \in ParentsOf(c))
    BY <2>2 DEF Create, ReferenceInv, ReferencesKnown
  <2>4. ref' \in [Children -> Parents \cup {None}] /\ \A x \in Children : ref'[x] # None => ref'[x] \in ParentsOf(x)
    BY <2>3 DEF ReferenceInv, StoreTypeOK
  <2>5. rows' \subseteq Parents \cup Children /\ rows' \cap gone' = {}
    BY <2>2 DEF Create, ReferenceInv, StoreTypeOK, Children
  <2>6. token' \in [Consumers -> Nat] /\ last' \in Nat
    BY DEF Create, GenToken, ReferenceInv, StoreTypeOK
  <2>7. late' \subseteq Children
    BY <2>2 DEF Create, TakesReference, ReferenceInv, StoreTypeOK, Children
  <2>8. work' \in [Admins -> Works]
    BY <2>1 DEF Create, ReferenceInv, StoreTypeOK
  <2> QED
    BY <2>4, <2>5, <2>6, <2>7, <2>8 DEF Create, ReferenceInv, StoreTypeOK
<1>2. RemovedAreSwept' /\ RemovalsSweep'
  BY DEF ReferenceInv, StoreTypeOK, RemovedAreSwept, RemovalsSweep, Create, GenToken, TakesReference, history, Referring, Parents, Idle, Works, Ops
<1>3. ReferencesKnown'
  BY ParentTypes DEF ReferenceInv, StoreTypeOK, ReferencesKnown, Known, Create, GenToken, TakesReference, history, Children, Idle, Works, Ops
<1>4. SweptAreLate'
  BY ParentTypes DEF ReferenceInv, StoreTypeOK, ReferencesKnown, SweptAreLate, Create, GenToken, TakesReference, history, Children, Idle, Works, Ops
<1>5. TokensCounted' /\ RevokedStaysRevoked'
  <2> DEFINE d == work[t].id
  <2>1. last \in Nat /\ last' \in {last, last + 1}
    BY DEF Create, TokenInv, StoreTypeOK
  <2>2. work' = [work EXCEPT ![t] = Idle] /\ retired' = retired /\ undone' = undone
    BY DEF Create
  <2>3. \A u \in Admins : work'[u].token <= last'
    BY <2>1, <2>2 DEF TokenInv, StoreTypeOK, TokensCounted, Works, Idle
  <2>4. \A c \in Consumers : /\ token[c] \in Nat /\ token[c] <= last
                             /\ \A n \in retired[c] : n \in Nat /\ n <= last
    BY DEF TokenInv, StoreTypeOK, TokensCounted
  <2>5. CASE d \notin Consumers
    <3>1. token' = token
      BY <2>5 DEF Create
    <3>2. QED
      BY <2>1, <2>2, <2>3, <2>4, <3>1 DEF TokenInv, TokensCounted, RevokedStaysRevoked
  <2>6. CASE d \in Consumers
    <3>1. last' = last + 1 /\ token' = [token EXCEPT ![d] = last + 1]
      BY <2>6 DEF Create, GenToken
    <3>2. \A c \in Consumers : token'[c] = IF c = d THEN last + 1 ELSE token[c]
      BY <3>1 DEF TokenInv, StoreTypeOK
    <3>3. \A c \in Consumers : token'[c] <= last' /\ \A n \in retired'[c] : n <= last'
      BY <2>1, <2>2, <2>4, <3>1, <3>2
    <3>4. \A c \in Consumers : token'[c] \in retired'[c] => c \in undone'
      BY <2>1, <2>2, <2>4, <3>2 DEF TokenInv, RevokedStaysRevoked
    <3>5. QED
      BY <2>3, <3>3, <3>4 DEF TokensCounted, RevokedStaysRevoked
  <2>7. QED
    BY <2>5, <2>6
<1>6. QED
  BY <1>1, <1>2, <1>3, <1>4, <1>5 DEF ReferenceInv, TokenInv

LEMMA CreatesParent ==
  ASSUME ReferenceInv, TokenInv, NEW t \in Admins, NEW p \in Parents, CreateParent(t, p)
  PROVE  ReferenceInv' /\ TokenInv'
<1>1. StoreTypeOK'
  BY ParentTypes DEF ReferenceInv, StoreTypeOK, ReferencesKnown, CreateParent, history, Children, Parents, Tables, Idle, Works, Ops
<1>2. RemovedAreSwept' /\ RemovalsSweep'
  BY DEF ReferenceInv, StoreTypeOK, RemovedAreSwept, RemovalsSweep, CreateParent, history, Referring, Parents, Idle, Works, Ops
<1>3. ReferencesKnown'
  BY ParentTypes DEF ReferenceInv, StoreTypeOK, ReferencesKnown, Known, CreateParent, history, Children, Idle, Works, Ops
<1>4. SweptAreLate'
  BY RowAssumption DEF ReferenceInv, SweptAreLate, CreateParent, history
<1>5. TokensCounted' /\ RevokedStaysRevoked'
  BY DEF TokenInv, StoreTypeOK, TokensCounted, RevokedStaysRevoked, CreateParent, history, Idle, Works, Ops
<1>6. QED
  BY <1>1, <1>2, <1>3, <1>4, <1>5 DEF ReferenceInv, TokenInv

LEMMA FindsParent ==
  ASSUME ReferenceInv, TokenInv, NEW t \in Admins, NEW p \in Parents, FindParent(t, p)
  PROVE  ReferenceInv' /\ TokenInv'
<1>1. StoreTypeOK'
  BY ParentTypes DEF ReferenceInv, StoreTypeOK, ReferencesKnown, FindParent, history, Children, Parents, Tables, Idle, Works, Ops
<1>2. RemovedAreSwept' /\ RemovalsSweep'
  BY DEF ReferenceInv, StoreTypeOK, RemovedAreSwept, RemovalsSweep, FindParent, history, Referring, Parents, Idle, Works, Ops
<1>3. ReferencesKnown'
  BY ParentTypes DEF ReferenceInv, StoreTypeOK, ReferencesKnown, Known, FindParent, history, Children, Idle, Works, Ops
<1>4. SweptAreLate'
  BY ParentTypes DEF ReferenceInv, StoreTypeOK, ReferencesKnown, SweptAreLate, FindParent, history, Children, Idle, Works, Ops
<1>5. TokensCounted' /\ RevokedStaysRevoked'
  BY DEF TokenInv, StoreTypeOK, TokensCounted, RevokedStaysRevoked, FindParent, history, Idle, Works, Ops
<1>6. QED
  BY <1>1, <1>2, <1>3, <1>4, <1>5 DEF ReferenceInv, TokenInv

LEMMA NullsConsumers ==
  ASSUME ReferenceInv, TokenInv, NEW t \in Admins, NullConsumers(t)
  PROVE  ReferenceInv' /\ TokenInv'
<1>1. StoreTypeOK'
  <2>1. work[t].id \in Parents
    BY DEF ReferenceInv, RemovalsSweep, NullConsumers, Parents
  <2>2. /\ ref' = [c \in Children |-> IF c \in rows /\ TableOf(c) = "Consumer" /\ ref[c] = work[t].id
                                     THEN None ELSE ref[c]]
        /\ late' \subseteq late
        /\ swept' = [swept EXCEPT ![work[t].id] = @ \cup {"Consumer"}]
        /\ UNCHANGED <<rows, gone, token, allow, last, run, retired, undone>>
    BY DEF NullConsumers, NullTable
  <2>3. /\ ref' \in [Children -> Parents \cup {None}]
        /\ \A c \in Children : ref'[c] # None => ref'[c] \in ParentsOf(c)
    BY <2>2 DEF ReferenceInv, StoreTypeOK
  <2>4. swept' \in [Parents -> SUBSET Tables]
    BY <2>1, <2>2 DEF ReferenceInv, StoreTypeOK, Tables
  <2>5. work' \in [Admins -> Works]
    <3>1. work' = [work EXCEPT ![t].op = "sweeping"]
      BY DEF NullConsumers
    <3>2. work \in [Admins -> Works] /\ "sweeping" \in Ops
      BY DEF ReferenceInv, StoreTypeOK, Ops
    <3>3. QED
      BY <3>1, <3>2 DEF Works
  <2>6. QED
    BY <2>2, <2>3, <2>4, <2>5 DEF ReferenceInv, StoreTypeOK
<1>2. RemovedAreSwept' /\ RemovalsSweep'
  BY DEF ReferenceInv, StoreTypeOK, RemovedAreSwept, RemovalsSweep, NullConsumers, NullTable, history, Referring, Parents, Works, Ops
<1>3. ReferencesKnown'
  BY ParentTypes DEF ReferenceInv, StoreTypeOK, ReferencesKnown, Known, NullConsumers, NullTable, history, Children, Works, Ops
<1>4. SweptAreLate'
  BY ParentTypes DEF ReferenceInv, StoreTypeOK, ReferencesKnown, SweptAreLate, NullConsumers, NullTable, history, Children, Works, Ops
<1>5. TokensCounted' /\ RevokedStaysRevoked'
  BY DEF TokenInv, StoreTypeOK, TokensCounted, RevokedStaysRevoked, NullConsumers, NullTable, history, Works, Ops
<1>6. QED
  BY <1>1, <1>2, <1>3, <1>4, <1>5 DEF ReferenceInv, TokenInv

LEMMA NullsCertificates ==
  ASSUME ReferenceInv, TokenInv, NEW t \in Admins, NullCertificates(t)
  PROVE  ReferenceInv' /\ TokenInv'
<1>1. StoreTypeOK'
  <2>1. work[t].id \in Parents
    BY DEF ReferenceInv, RemovalsSweep, NullCertificates, Parents
  <2>2. /\ ref' = [c \in Children |-> IF c \in rows /\ TableOf(c) = "Certificate" /\ ref[c] = work[t].id
                                     THEN None ELSE ref[c]]
        /\ late' \subseteq late
        /\ swept' = [swept EXCEPT ![work[t].id] = @ \cup {"Certificate"}]
        /\ UNCHANGED <<rows, gone, token, allow, last, run, retired, undone>>
    BY DEF NullCertificates, NullTable
  <2>3. /\ ref' \in [Children -> Parents \cup {None}]
        /\ \A c \in Children : ref'[c] # None => ref'[c] \in ParentsOf(c)
    BY <2>2 DEF ReferenceInv, StoreTypeOK
  <2>4. swept' \in [Parents -> SUBSET Tables]
    BY <2>1, <2>2 DEF ReferenceInv, StoreTypeOK, Tables
  <2>5. work' \in [Admins -> Works]
    <3>1. work' = [work EXCEPT ![t].op = "swept"]
      BY DEF NullCertificates
    <3>2. work \in [Admins -> Works] /\ "swept" \in Ops
      BY DEF ReferenceInv, StoreTypeOK, Ops
    <3>3. QED
      BY <3>1, <3>2 DEF Works
  <2>6. QED
    BY <2>2, <2>3, <2>4, <2>5 DEF ReferenceInv, StoreTypeOK
<1>2. RemovedAreSwept' /\ RemovalsSweep'
  BY DEF ReferenceInv, StoreTypeOK, RemovedAreSwept, RemovalsSweep, NullCertificates, NullTable, history, Referring, Parents, Works, Ops
<1>3. ReferencesKnown'
  BY ParentTypes DEF ReferenceInv, StoreTypeOK, ReferencesKnown, Known, NullCertificates, NullTable, history, Children, Works, Ops
<1>4. SweptAreLate'
  BY ParentTypes DEF ReferenceInv, StoreTypeOK, ReferencesKnown, SweptAreLate, NullCertificates, NullTable, history, Children, Works, Ops
<1>5. TokensCounted' /\ RevokedStaysRevoked'
  BY DEF TokenInv, StoreTypeOK, TokensCounted, RevokedStaysRevoked, NullCertificates, NullTable, history, Works, Ops
<1>6. QED
  BY <1>1, <1>2, <1>3, <1>4, <1>5 DEF ReferenceInv, TokenInv

LEMMA NullsDomains ==
  ASSUME ReferenceInv, TokenInv, NEW t \in Admins, NullDomains(t)
  PROVE  ReferenceInv' /\ TokenInv'
<1>1. StoreTypeOK'
  <2>1. work[t].id \in Parents
    BY DEF ReferenceInv, RemovalsSweep, NullDomains, Parents
  <2>2. /\ ref' = [c \in Children |-> IF c \in rows /\ TableOf(c) = "Domain" /\ ref[c] = work[t].id
                                     THEN None ELSE ref[c]]
        /\ late' \subseteq late
        /\ swept' = [swept EXCEPT ![work[t].id] = @ \cup {"Domain"}]
        /\ UNCHANGED <<rows, gone, token, allow, last, run, retired, undone>>
    BY DEF NullDomains, NullTable
  <2>3. /\ ref' \in [Children -> Parents \cup {None}]
        /\ \A c \in Children : ref'[c] # None => ref'[c] \in ParentsOf(c)
    BY <2>2 DEF ReferenceInv, StoreTypeOK
  <2>4. swept' \in [Parents -> SUBSET Tables]
    BY <2>1, <2>2 DEF ReferenceInv, StoreTypeOK, Tables
  <2>5. work' \in [Admins -> Works]
    <3>1. work' = [work EXCEPT ![t].op = "swept"]
      BY DEF NullDomains
    <3>2. work \in [Admins -> Works] /\ "swept" \in Ops
      BY DEF ReferenceInv, StoreTypeOK, Ops
    <3>3. QED
      BY <3>1, <3>2 DEF Works
  <2>6. QED
    BY <2>2, <2>3, <2>4, <2>5 DEF ReferenceInv, StoreTypeOK
<1>2. RemovedAreSwept' /\ RemovalsSweep'
  <2>1. work[t].op = "found" /\ work[t].id \in Credentials /\ work[t].id \in Parents
    BY DEF NullDomains, Parents
  <2>2. swept' = [swept EXCEPT ![work[t].id] = @ \cup {"Domain"}] /\ gone' = gone
    BY DEF NullDomains, NullTable
  <2>3. \A p \in Parents : swept[p] \subseteq swept'[p]
    BY <2>2 DEF ReferenceInv, StoreTypeOK
  <2>4. RemovedAreSwept'
    BY <2>2, <2>3 DEF ReferenceInv, RemovedAreSwept
  <2>5. Referring(work[t].id) \subseteq swept'[work[t].id]
    BY <2>1, <2>2, RowAssumption DEF ReferenceInv, StoreTypeOK, Referring
  <2>6. work' = [work EXCEPT ![t].op = "swept"]
    BY DEF NullDomains
  <2>7. RemovalsSweep'
    BY <2>1, <2>3, <2>5, <2>6 DEF ReferenceInv, StoreTypeOK, Works, RemovalsSweep, Parents
  <2>8. QED
    BY <2>4, <2>7
<1>3. ReferencesKnown'
  BY ParentTypes DEF ReferenceInv, StoreTypeOK, ReferencesKnown, Known, NullDomains, NullTable, history, Children, Works, Ops
<1>4. SweptAreLate'
  BY ParentTypes DEF ReferenceInv, StoreTypeOK, ReferencesKnown, SweptAreLate, NullDomains, NullTable, history, Children, Works, Ops
<1>5. TokensCounted' /\ RevokedStaysRevoked'
  BY DEF TokenInv, StoreTypeOK, TokensCounted, RevokedStaysRevoked, NullDomains, NullTable, history, Works, Ops
<1>6. QED
  BY <1>1, <1>2, <1>3, <1>4, <1>5 DEF ReferenceInv, TokenInv

LEMMA RemovesParent ==
  ASSUME ReferenceInv, TokenInv, NEW t \in Admins, RemoveParent(t)
  PROVE  ReferenceInv' /\ TokenInv'
<1>1. StoreTypeOK'
  <2>1. work[t].id \in Parents
    BY DEF ReferenceInv, RemovalsSweep, RemoveParent
  <2>2. /\ rows' = rows \ {work[t].id} /\ gone' = gone \cup {work[t].id}
        /\ UNCHANGED <<ref, token, allow, last, run, swept, late, retired, undone>>
    BY DEF RemoveParent, history
  <2>3. work' \in [Admins -> Works]
    BY DEF RemoveParent, ReferenceInv, StoreTypeOK, Idle, Works, Ops
  <2>4. QED
    BY <2>1, <2>2, <2>3 DEF ReferenceInv, StoreTypeOK
<1>2. RemovedAreSwept' /\ RemovalsSweep'
  BY DEF ReferenceInv, StoreTypeOK, RemovedAreSwept, RemovalsSweep, RemoveParent, history, Referring, Parents, Idle, Works, Ops
<1>3. ReferencesKnown'
  BY ParentTypes DEF ReferenceInv, StoreTypeOK, ReferencesKnown, Known, RemoveParent, history, Children, Idle, Works, Ops
<1>4. SweptAreLate'
  BY ParentTypes DEF ReferenceInv, StoreTypeOK, ReferencesKnown, SweptAreLate, RemoveParent, history, Children, Idle, Works, Ops
<1>5. TokensCounted' /\ RevokedStaysRevoked'
  BY DEF TokenInv, StoreTypeOK, TokensCounted, RevokedStaysRevoked, RemoveParent, history, Idle, Works, Ops
<1>6. QED
  BY <1>1, <1>2, <1>3, <1>4, <1>5 DEF ReferenceInv, TokenInv

LEMMA FindsRotation ==
  ASSUME ReferenceInv, TokenInv, NEW t \in Admins, NEW c \in Consumers, RotateFind(t, c)
  PROVE  ReferenceInv' /\ TokenInv'
<1>1. StoreTypeOK'
  BY ParentTypes DEF ReferenceInv, StoreTypeOK, ReferencesKnown, RotateFind, history, Children, Parents, Tables, Idle, Works, Ops
<1>2. RemovedAreSwept' /\ RemovalsSweep'
  BY DEF ReferenceInv, StoreTypeOK, RemovedAreSwept, RemovalsSweep, RotateFind, history, Referring, Parents, Idle, Works, Ops
<1>3. ReferencesKnown'
  BY ParentTypes DEF ReferenceInv, StoreTypeOK, ReferencesKnown, Known, RotateFind, history, Children, Idle, Works, Ops
<1>4. SweptAreLate'
  BY ParentTypes DEF ReferenceInv, StoreTypeOK, ReferencesKnown, SweptAreLate, RotateFind, history, Children, Idle, Works, Ops
<1>5. TokensCounted' /\ RevokedStaysRevoked'
  BY DEF TokenInv, StoreTypeOK, TokensCounted, RevokedStaysRevoked, RotateFind, history, Idle, Works, Ops
<1>6. QED
  BY <1>1, <1>2, <1>3, <1>4, <1>5 DEF ReferenceInv, TokenInv

LEMMA WritesRotation ==
  ASSUME ReferenceInv, TokenInv, NEW t \in Admins, RotateWrite(t)
  PROVE  ReferenceInv' /\ TokenInv'
<1>1. StoreTypeOK'
  BY ParentTypes DEF ReferenceInv, StoreTypeOK, ReferencesKnown, RotateWrite, GenToken, history, Children, Parents, Tables, Idle, Works, Ops
<1>2. RemovedAreSwept' /\ RemovalsSweep'
  BY DEF ReferenceInv, StoreTypeOK, RemovedAreSwept, RemovalsSweep, RotateWrite, GenToken, history, Referring, Parents, Idle, Works, Ops
<1>3. ReferencesKnown'
  BY ParentTypes DEF ReferenceInv, StoreTypeOK, ReferencesKnown, Known, RotateWrite, GenToken, history, Children, Idle, Works, Ops
<1>4. SweptAreLate'
  BY ParentTypes DEF ReferenceInv, StoreTypeOK, ReferencesKnown, SweptAreLate, RotateWrite, GenToken, history, Children, Idle, Works, Ops
<1>5. TokensCounted' /\ RevokedStaysRevoked'
  <2>1. last' = last + 1 /\ last \in Nat
    BY DEF RotateWrite, TokenInv, StoreTypeOK
  <2>2. work' = [work EXCEPT ![t] = Idle]
    BY DEF RotateWrite
  <2>3. \A u \in Admins : work'[u].token \in Nat /\ work'[u].token <= last'
    BY <2>1, <2>2 DEF TokenInv, StoreTypeOK, TokensCounted, Works, Idle
  <2>4. CASE work[t].id \notin rows
    <3>1. UNCHANGED <<token, retired, undone>>
      BY <2>4 DEF RotateWrite
    <3>2. \A c \in Consumers : token[c] \in Nat /\ \A n \in retired[c] : n \in Nat
      BY DEF TokenInv, StoreTypeOK
    <3>3. QED
      BY <2>1, <2>3, <3>1, <3>2 DEF TokenInv, TokensCounted, RevokedStaysRevoked
  <2>5. CASE work[t].id \in rows
    <3> DEFINE d == work[t].id
    <3>1. /\ token' = [token EXCEPT ![d] = last + 1]
          /\ retired' = [retired EXCEPT ![d] = @ \cup {token[d]}]
          /\ undone' = undone \ {d}
      BY <2>5 DEF RotateWrite, GenToken
    <3>2. \A c \in Consumers : /\ token[c] \in Nat /\ token[c] <= last
                               /\ \A n \in retired[c] : n \in Nat /\ n <= last
      BY DEF TokenInv, StoreTypeOK, TokensCounted
    <3>3. ASSUME NEW c \in Consumers
          PROVE  /\ token'[c] <= last' /\ \A n \in retired'[c] : n <= last'
                 /\ token'[c] \in retired'[c] => c \in undone'
      <4>1. CASE c = d
        <5>1. token'[c] = last + 1 /\ retired'[c] = retired[c] \cup {token[c]}
          BY <3>1, <4>1 DEF TokenInv, StoreTypeOK
        <5>2. QED
          BY <2>1, <3>2, <5>1
      <4>2. CASE c # d
        <5>1. token'[c] = token[c] /\ retired'[c] = retired[c] /\ (c \in undone => c \in undone')
          BY <3>1, <4>2 DEF TokenInv, StoreTypeOK
        <5>2. token[c] \in retired[c] => c \in undone
          BY DEF TokenInv, RevokedStaysRevoked
        <5>3. QED
          BY <2>1, <3>2, <5>1, <5>2
      <4>3. QED
        BY <4>1, <4>2
    <3>4. QED
      BY <2>3, <3>3 DEF TokensCounted, RevokedStaysRevoked
  <2>6. QED
    BY <2>4, <2>5
<1>6. QED
  BY <1>1, <1>2, <1>3, <1>4, <1>5 DEF ReferenceInv, TokenInv

LEMMA RunsRead ==
  ASSUME ReferenceInv, TokenInv, NEW c \in Consumers, RunReads(c)
  PROVE  ReferenceInv' /\ TokenInv'
<1>1. StoreTypeOK'
  BY ParentTypes DEF ReferenceInv, StoreTypeOK, ReferencesKnown, RunReads, history, Children, Parents, Tables
<1>2. RemovedAreSwept' /\ RemovalsSweep'
  BY DEF ReferenceInv, StoreTypeOK, RemovedAreSwept, RemovalsSweep, RunReads, history, Referring, Parents
<1>3. ReferencesKnown'
  BY ParentTypes DEF ReferenceInv, StoreTypeOK, ReferencesKnown, Known, RunReads, history, Children
<1>4. SweptAreLate'
  BY ParentTypes DEF ReferenceInv, StoreTypeOK, ReferencesKnown, SweptAreLate, RunReads, history, Children
<1>5. TokensCounted' /\ RevokedStaysRevoked'
  BY DEF TokenInv, StoreTypeOK, TokensCounted, RevokedStaysRevoked, RunReads, history
<1>6. QED
  BY <1>1, <1>2, <1>3, <1>4, <1>5 DEF ReferenceInv, TokenInv

LEMMA RunsInsert ==
  ASSUME ReferenceInv, TokenInv, NEW c \in Consumers, NEW x \in Certificates, RunInserts(c, x)
  PROVE  ReferenceInv' /\ TokenInv'
<1>1. StoreTypeOK'
  BY ParentTypes DEF ReferenceInv, StoreTypeOK, ReferencesKnown, RunInserts, TakesReference, NewIds, history, Children, Parents, Tables
<1>2. RemovedAreSwept' /\ RemovalsSweep'
  BY DEF ReferenceInv, StoreTypeOK, RemovedAreSwept, RemovalsSweep, RunInserts, TakesReference, NewIds, history, Referring, Parents
<1>3. ReferencesKnown'
  BY ParentTypes DEF ReferenceInv, StoreTypeOK, ReferencesKnown, Known, RunInserts, TakesReference, NewIds, history, Children
<1>4. SweptAreLate'
  BY ParentTypes DEF ReferenceInv, StoreTypeOK, ReferencesKnown, SweptAreLate, RunInserts, TakesReference, NewIds, history, Children
<1>5. TokensCounted' /\ RevokedStaysRevoked'
  BY DEF TokenInv, StoreTypeOK, TokensCounted, RevokedStaysRevoked, RunInserts, TakesReference, NewIds, history
<1>6. QED
  BY <1>1, <1>2, <1>3, <1>4, <1>5 DEF ReferenceInv, TokenInv

LEMMA RunsEnd ==
  ASSUME ReferenceInv, TokenInv, NEW c \in Consumers, RunEnds(c)
  PROVE  ReferenceInv' /\ TokenInv'
<1>1. StoreTypeOK'
  BY ParentTypes DEF ReferenceInv, StoreTypeOK, ReferencesKnown, RunEnds, history, Children, Parents, Tables
<1>2. RemovedAreSwept' /\ RemovalsSweep'
  BY DEF ReferenceInv, StoreTypeOK, RemovedAreSwept, RemovalsSweep, RunEnds, history, Referring, Parents
<1>3. ReferencesKnown'
  BY ParentTypes DEF ReferenceInv, StoreTypeOK, ReferencesKnown, Known, RunEnds, history, Children
<1>4. SweptAreLate'
  BY ParentTypes DEF ReferenceInv, StoreTypeOK, ReferencesKnown, SweptAreLate, RunEnds, history, Children
<1>5. TokensCounted' /\ RevokedStaysRevoked'
  BY DEF TokenInv, StoreTypeOK, TokensCounted, RevokedStaysRevoked, RunEnds, history
<1>6. QED
  BY <1>1, <1>2, <1>3, <1>4, <1>5 DEF ReferenceInv, TokenInv

LEMMA Stops ==
  ASSUME ReferenceInv, TokenInv, NEW t \in Admins, Stop(t)
  PROVE  ReferenceInv' /\ TokenInv'
<1>1. StoreTypeOK'
  BY ParentTypes DEF ReferenceInv, StoreTypeOK, ReferencesKnown, Stop, history, Children, Parents, Tables, Idle, Works, Ops
<1>2. RemovedAreSwept' /\ RemovalsSweep'
  BY DEF ReferenceInv, StoreTypeOK, RemovedAreSwept, RemovalsSweep, Stop, history, Referring, Parents, Idle, Works, Ops
<1>3. ReferencesKnown'
  BY ParentTypes DEF ReferenceInv, StoreTypeOK, ReferencesKnown, Known, Stop, history, Children, Idle, Works, Ops
<1>4. SweptAreLate'
  BY ParentTypes DEF ReferenceInv, StoreTypeOK, ReferencesKnown, SweptAreLate, Stop, history, Children, Idle, Works, Ops
<1>5. TokensCounted' /\ RevokedStaysRevoked'
  BY DEF TokenInv, StoreTypeOK, TokensCounted, RevokedStaysRevoked, Stop, history, Idle, Works, Ops
<1>6. QED
  BY <1>1, <1>2, <1>3, <1>4, <1>5 DEF ReferenceInv, TokenInv

LEMMA StoreStep ==
  ASSUME ReferenceInv, TokenInv, [StoreNext]_storeVars
  PROVE  ReferenceInv' /\ TokenInv'
<1>1. CASE UNCHANGED storeVars
  BY <1>1 DEF storeVars, ReferenceInv, TokenInv, StoreTypeOK, RemovedAreSwept, RemovalsSweep,
              ReferencesKnown, Known, SweptAreLate, TokensCounted, RevokedStaysRevoked
<1>2. CASE StoreNext
  <2>1. ASSUME NEW t \in Admins, NEW c \in Consumers \cup Domains, OpenForm(t, c)
        PROVE  ReferenceInv' /\ TokenInv'
    BY <2>1, OpensForm
  <2>2. ASSUME NEW t \in Admins, NEW c \in Consumers \cup Domains, OpenNew(t, c)
        PROVE  ReferenceInv' /\ TokenInv'
    BY <2>2, OpensNew
  <2>3. ASSUME NEW t \in Admins, NEW r \in Parents \cup {None}, Create(t, r)
        PROVE  ReferenceInv' /\ TokenInv'
    BY <2>3, Creates
  <2>4. ASSUME NEW t \in Admins, NEW p \in Parents, CreateParent(t, p)
        PROVE  ReferenceInv' /\ TokenInv'
    BY <2>4, CreatesParent
  <2>5. ASSUME NEW t \in Admins, NEW c \in Children, RemoveChild(t, c)
        PROVE  ReferenceInv' /\ TokenInv'
    BY <2>5, RemovesChild
  <2>6. ASSUME NEW t \in Admins, NEW r \in Parents \cup {None}, NEW a \in 0..MaxEdit, Save(t, r, a)
        PROVE  ReferenceInv' /\ TokenInv'
    BY <2>6, Saves
  <2>7. ASSUME NEW t \in Admins, NEW p \in Parents, FindParent(t, p)
        PROVE  ReferenceInv' /\ TokenInv'
    BY <2>7, FindsParent
  <2>8. ASSUME NEW t \in Admins, NEW c \in Consumers, RotateFind(t, c)
        PROVE  ReferenceInv' /\ TokenInv'
    BY <2>8, FindsRotation
  <2>9. ASSUME NEW t \in Admins,
               CloseForm(t) \/ NullConsumers(t) \/ NullCertificates(t) \/ NullDomains(t)
               \/ RemoveParent(t) \/ RotateWrite(t) \/ Stop(t)
        PROVE  ReferenceInv' /\ TokenInv'
    BY <2>9, ClosesForm, NullsConsumers, NullsCertificates, NullsDomains, RemovesParent,
       WritesRotation, Stops
  <2>10. ASSUME NEW c \in Consumers, RunReads(c) \/ RunEnds(c)
        PROVE  ReferenceInv' /\ TokenInv'
    BY <2>10, RunsRead, RunsEnd
  <2>11. ASSUME NEW c \in Consumers, NEW x \in Certificates, RunInserts(c, x)
        PROVE  ReferenceInv' /\ TokenInv'
    BY <2>11, RunsInsert
  <2>12. QED
    BY <1>2, <2>1, <2>2, <2>3, <2>4, <2>5, <2>6, <2>7, <2>8, <2>9, <2>10, <2>11 DEF StoreNext
<1>3. QED
  BY <1>1, <1>2

LEMMA StoreInvariance == StoreSpec => [](ReferenceInv /\ TokenInv)
  BY StoreInitInv, StoreStep, PTL DEF StoreSpec

-----------------------------------------------------------------------------
(* Every reachable store is well typed: a reference names a parent of the   *)
(* kind its column is for, and a removed row never comes back.              *)
THEOREM StoreTypes == StoreSpec => []StoreTypeOK
<1>1. ReferenceInv /\ TokenInv => StoreTypeOK
  BY DEF ReferenceInv
<1>2. QED
  BY <1>1, StoreInvariance, PTL

(* The deletion of an account or a credential (acme-accounts/routes.ts:19)  *)
(* leaves no reference behind but those written after its table was nulled. *)
THEOREM DeletionsClean == StoreSpec => []DanglingNeedsALateWrite
<1>1. ReferenceInv => DanglingNeedsALateWrite
  <2> SUFFICES ASSUME ReferenceInv, NEW c \in Children \cap rows, ref[c] # None, ref[c] \notin rows
               PROVE  c \in late
    BY DEF DanglingNeedsALateWrite
  <2>1. ref[c] \in ParentsOf(c) /\ ref[c] \in gone
    BY DEF ReferenceInv, ReferencesKnown, Known
  <2>2. ref[c] \in Parents /\ TableOf(c) \in Referring(ref[c])
    BY <2>1, ParentTypes
  <2>3. TableOf(c) \in swept[ref[c]]
    BY <2>1, <2>2 DEF ReferenceInv, RemovedAreSwept
  <2>4. QED
    BY <2>3 DEF ReferenceInv, SweptAreLate
<1>2. QED
  BY <1>1, StoreInvariance, PTL

(* A rotated token (consumers/routes.ts:19) serves again only if a form     *)
(* that was opened before the rotation is saved after it.                   *)
THEOREM RevocationHolds == StoreSpec => []RevokedStaysRevoked
<1>1. ReferenceInv /\ TokenInv => RevokedStaysRevoked
  BY DEF TokenInv
<1>2. QED
  BY <1>1, StoreInvariance, PTL

-----------------------------------------------------------------------------
(* The account registry (AccountRegistry). *)
(* The URL is the one the directory gave to this key, by what the CAs know. *)
UrlOfKey(c, given) == c.url = Url(c.key, c.dir) /\ <<c.key, c.dir>> \in given

(* A pair in a form is that of a CA or the admin's own; what is about to be *)
(* written is a pair.  A registration is only asked for half a pair.        *)
FormRight(f, given) ==
  /\ f.at \in {"editing", "writing"} /\ IsRegistered(f.data) /\ ~f.byHand => UrlOfKey(f.data, given)
  /\ f.at = "registering" => ~IsRegistered(f.data)
  /\ f.at = "writing" => /\ IsRegistered(f.result)
                         /\ ~f.byHand => UrlOfKey(f.result, given)

FormsAreOwnOrGiven == \A e \in Editors : FormRight(form[e], ca)

RegistryInv == RegistryTypeOK /\ FormsAreOwnOrGiven /\ AccountsCanSign

FormShape == [at : {"closed", "editing", "registering", "writing"},
              id : Ids \cup {Nothing}, data : Creds, byHand : BOOLEAN, result : Creds]

LEMMA CredFacts ==
  /\ AnyDir \in Dirs /\ NoUrl \in Urls /\ 0 \in 0..MaxKey
  /\ \A d \in Dirs : Fresh(d) \in Creds /\ ~IsRegistered(Fresh(d))
  /\ Closed \in FormShape
<1>1. AnyDir \in Dirs
  BY EabAssumption DEF AnyDir
<1>2. 0 \in 0..MaxKey
  BY KeyAssumption
<1>3. NoUrl \in Urls
  BY <1>2 DEF NoUrl, Url, Urls, Nothing
<1>4. \A d \in Dirs : Fresh(d) \in Creds /\ ~IsRegistered(Fresh(d))
  BY <1>2, <1>3 DEF Fresh, Creds, Eabs, IsRegistered, Nothing
<1>5. Closed \in FormShape
  BY <1>1, <1>4 DEF Closed, FormShape
<1> QED
  BY <1>1, <1>2, <1>3, <1>4, <1>5

LEMMA RegistryInitInv == RegistryInit => RegistryInv
<1> SUFFICES ASSUME RegistryInit PROVE RegistryInv
  OBVIOUS
<1>1. RegistryTypeOK
  BY CredFacts, KeyAssumption DEF RegistryInit, RegistryTypeOK, FormShape
<1>2. FormsAreOwnOrGiven
  BY DEF RegistryInit, FormsAreOwnOrGiven, FormRight, Closed
<1>3. AccountsCanSign
  BY DEF RegistryInit, AccountsCanSign, Stored
<1> QED
  BY <1>1, <1>2, <1>3 DEF RegistryInv

(* A step of one editor that leaves the rows alone, the CAs knowing no less. *)
LEMMA EditorStep ==
  ASSUME RegistryInv, NEW e \in Editors, NEW new \in FormShape,
         form' = [form EXCEPT ![e] = new], UNCHANGED <<accounts, unmatched>>,
         ca \subseteq ca', ca' \subseteq (1..MaxKey) \X Dirs, keys' \in 0..MaxKey,
         FormRight(new, ca')
  PROVE  RegistryInv'
<1>1. \A x \in Editors : form'[x] = IF x = e THEN new ELSE form[x]
  BY DEF RegistryInv, RegistryTypeOK
<1>2. RegistryTypeOK'
  BY DEF RegistryInv, RegistryTypeOK, FormShape
<1>3. FormsAreOwnOrGiven'
  BY <1>1 DEF RegistryInv, FormsAreOwnOrGiven, FormRight, UrlOfKey
<1>4. AccountsCanSign'
  BY DEF RegistryInv, AccountsCanSign, Stored
<1> QED
  BY <1>2, <1>3, <1>4 DEF RegistryInv

LEMMA RegistryNextInv == RegistryInv /\ [RegistryNext]_registryVars => RegistryInv'
<1> SUFFICES ASSUME RegistryInv, [RegistryNext]_registryVars
             PROVE  RegistryInv'
  OBVIOUS
<1>u. CASE UNCHANGED registryVars
  BY <1>u DEF registryVars, RegistryInv, RegistryTypeOK, FormsAreOwnOrGiven, AccountsCanSign,
     Stored
<1>t. /\ \A e \in Editors : form[e] \in FormShape /\ FormRight(form[e], ca)
      /\ accounts \in [Ids -> Creds \cup {NoAccount}]
      /\ ca \subseteq (1..MaxKey) \X Dirs /\ keys \in 0..MaxKey
      /\ form \in [Editors -> FormShape] /\ unmatched \subseteq Ids
  BY DEF RegistryInv, RegistryTypeOK, FormsAreOwnOrGiven, FormRight, FormShape
<1>1. ASSUME NEW e \in Editors, New(e)
      PROVE  RegistryInv'
  <2>1. PICK d \in Dirs : form' = [form EXCEPT ![e] = [Closed EXCEPT !.at = "editing", !.data = Fresh(d)]]
    BY <1>1 DEF New
  <2> DEFINE new == [Closed EXCEPT !.at = "editing", !.data = Fresh(d)]
  <2>2. new \in FormShape /\ new.at = "editing" /\ new.data = Fresh(d)
    BY CredFacts DEF FormShape, Closed
  <2>3. FormRight(new, ca')
    BY <2>2, CredFacts DEF FormRight
  <2> QED
    BY <1>1, <1>t, <2>1, <2>2, <2>3, EditorStep DEF New
<1>2. ASSUME NEW e \in Editors, NEW i \in Ids, Open(e, i)
      PROVE  RegistryInv'
  <2> DEFINE new == [Closed EXCEPT !.at = "editing", !.id = i,
                       !.data = accounts[i], !.byHand = i \in unmatched]
  <2>1. accounts[i] \in Creds /\ Stored(i)
    BY <1>2, <1>t DEF Open, Stored
  <2>2. /\ new \in FormShape /\ new.at = "editing" /\ new.data = accounts[i]
        /\ ~new.byHand => i \notin unmatched
    <3>1. (i \in unmatched) \in BOOLEAN
      OBVIOUS
    <3>2. Closed \in FormShape
      BY CredFacts
    <3> QED
      BY <2>1, <3>1, <3>2 DEF FormShape
  <2>3. FormRight(new, ca')
    <3>1. ca' = ca
      BY <1>2 DEF Open
    <3>2. i \notin unmatched => UrlOfKey(accounts[i], ca)
      BY <2>1 DEF RegistryInv, AccountsCanSign, UrlOfKey
    <3> HIDE DEF new
    <3> QED
      BY <2>2, <3>1, <3>2 DEF FormRight
  <2> QED
    BY <1>2, <1>t, <2>2, <2>3, EditorStep DEF Open
<1>3. ASSUME NEW e \in Editors, Close(e)
      PROVE  RegistryInv'
  <2>1. FormRight(Closed, ca')
    BY DEF FormRight, Closed
  <2> QED
    BY <1>3, <1>t, <2>1, CredFacts, EditorStep DEF Close
<1>4. ASSUME NEW e \in Editors, Edit(e)
      PROVE  RegistryInv'
  <2> DEFINE c == form[e].data
  <2>1. /\ form[e] \in FormShape /\ c \in Creds /\ form[e].at = "editing"
        /\ UNCHANGED <<accounts, ca, unmatched>>
        /\ IsRegistered(c) /\ ~form[e].byHand => UrlOfKey(c, ca)
    BY <1>4, <1>t DEF Edit, FormShape, FormRight
  <2>2. ASSUME NEW d \in Creds, NEW mixed \in BOOLEAN, Holds(e, d, mixed), keys' \in 0..MaxKey,
               IsRegistered(d) /\ ~mixed => UrlOfKey(d, ca)
        PROVE  RegistryInv'
    <3> DEFINE new == [form[e] EXCEPT !.data = d, !.byHand = mixed]
    <3>1. new \in FormShape /\ new.at = "editing" /\ new.data = d /\ new.byHand = mixed
          /\ form' = [form EXCEPT ![e] = new]
      BY <2>1, <2>2, <1>t DEF FormShape, Holds
    <3>2. FormRight(new, ca')
      BY <3>1, <2>1, <2>2 DEF FormRight, UrlOfKey
    <3> HIDE DEF new
    <3> QED
      BY <3>1, <3>2, <2>1, <2>2, <1>t, EditorStep
  <2> HIDE DEF c
  <2>3. ASSUME NEW d \in Dirs, UNCHANGED keys,
               Holds(e, [c EXCEPT !.dir = d], form[e].byHand \/ (c.url # NoUrl /\ d # c.dir))
        PROVE  RegistryInv'
    <3> DEFINE mixed == form[e].byHand \/ (c.url # NoUrl /\ d # c.dir)
    <3>1. form[e].byHand \in BOOLEAN
      BY <2>1 DEF FormShape
    <3>2. /\ [c EXCEPT !.dir = d] \in Creds /\ mixed \in BOOLEAN /\ [c EXCEPT !.dir = d].dir = d
          /\ [c EXCEPT !.dir = d].key = c.key /\ [c EXCEPT !.dir = d].url = c.url
      BY <2>1, <3>1 DEF Creds
    <3>3. IsRegistered([c EXCEPT !.dir = d]) /\ ~mixed => UrlOfKey([c EXCEPT !.dir = d], ca)
      <4>1. c.dir \in Dirs
        BY <2>1 DEF Creds
      <4> QED
        BY <4>1, <3>1, <3>2, <2>1 DEF IsRegistered, UrlOfKey
    <3>4. Holds(e, [c EXCEPT !.dir = d], mixed) /\ keys' \in 0..MaxKey
      BY <2>3, <1>t
    <3> HIDE DEF mixed
    <3> QED
      BY <3>2, <3>3, <3>4, <2>2
  <2>4. CASE \E b \in Eabs : Holds(e, [c EXCEPT !.eab = b], form[e].byHand) /\ UNCHANGED keys
    <3>1. PICK b \in Eabs : Holds(e, [c EXCEPT !.eab = b], form[e].byHand) /\ UNCHANGED keys
      BY <2>4
    <3>2. /\ [c EXCEPT !.eab = b] \in Creds /\ form[e].byHand \in BOOLEAN
          /\ [c EXCEPT !.eab = b].key = c.key /\ [c EXCEPT !.eab = b].url = c.url
          /\ [c EXCEPT !.eab = b].dir = c.dir
      BY <2>1 DEF Creds, FormShape
    <3> QED
      BY <3>1, <3>2, <2>1, <2>2, <1>t DEF IsRegistered, UrlOfKey
  <2>5. CASE Holds(e, [c EXCEPT !.key = Nothing], form[e].byHand) /\ UNCHANGED keys
    <3>1. /\ [c EXCEPT !.key = Nothing] \in Creds /\ form[e].byHand \in BOOLEAN
          /\ [c EXCEPT !.key = Nothing].key = Nothing
      BY <2>1, CredFacts DEF Creds, FormShape, Nothing
    <3> QED
      BY <3>1, <2>5, <2>2, <1>t DEF IsRegistered
  <2>6. CASE Holds(e, [c EXCEPT !.url = NoUrl], FALSE) /\ UNCHANGED keys
    <3>1. [c EXCEPT !.url = NoUrl] \in Creds /\ [c EXCEPT !.url = NoUrl].url = NoUrl
      BY <2>1, CredFacts DEF Creds
    <3> QED
      BY <3>1, <2>6, <2>2, <1>t DEF IsRegistered
  <2>7. CASE \E k \in 1..MaxKey : /\ k <= keys + 1 /\ Holds(e, [c EXCEPT !.key = k], c.url # NoUrl)
                                 /\ keys' = IF k > keys THEN k ELSE keys
    <3>1. PICK k \in 1..MaxKey : /\ Holds(e, [c EXCEPT !.key = k], c.url # NoUrl)
                                 /\ keys' = IF k > keys THEN k ELSE keys
      BY <2>7
    <3>2. [c EXCEPT !.key = k] \in Creds /\ [c EXCEPT !.key = k].url = c.url /\ keys' \in 0..MaxKey
      BY <3>1, <2>1, <1>t, KeyAssumption DEF Creds
    <3>3. (c.url # NoUrl) \in BOOLEAN
      OBVIOUS
    <3> QED
      BY <3>1, <3>2, <3>3, <2>2 DEF IsRegistered
  <2>8. CASE \E r \in ca : Holds(e, [c EXCEPT !.url = Url(r[1], r[2])], TRUE) /\ UNCHANGED keys
    <3>1. PICK r \in ca : Holds(e, [c EXCEPT !.url = Url(r[1], r[2])], TRUE) /\ UNCHANGED keys
      BY <2>8
    <3>2. r[1] \in 1..MaxKey /\ r[2] \in Dirs
      BY <1>t
    <3>3. Url(r[1], r[2]) \in Urls
      BY <3>2, KeyAssumption DEF Url, Urls
    <3>4. [c EXCEPT !.url = Url(r[1], r[2])] \in Creds
      BY <3>3, <2>1 DEF Creds
    <3> QED
      BY <3>1, <3>4, <2>2, <1>t
  <2> QED
    BY <1>4, <2>3, <2>4, <2>5, <2>6, <2>7, <2>8 DEF Edit, c
<1>5. ASSUME NEW e \in Editors, Submit(e)
      PROVE  RegistryInv'
  <2> DEFINE wr == [form[e] EXCEPT !.at = "writing", !.result = form[e].data]
             rg == [form[e] EXCEPT !.at = "registering"]
  <2>1. form[e] \in FormShape /\ form[e].at = "editing" /\ UNCHANGED ca
    BY <1>5, <1>t DEF Submit
  <2>2. /\ wr \in FormShape /\ wr.at = "writing" /\ wr.result = form[e].data /\ wr.data = form[e].data
        /\ wr.byHand = form[e].byHand
        /\ rg \in FormShape /\ rg.at = "registering" /\ rg.data = form[e].data
    BY <2>1 DEF FormShape
  <2>3. CASE IsRegistered(form[e].data)
    <3>1. form' = [form EXCEPT ![e] = wr]
      BY <1>5, <1>t, <2>3 DEF Submit
    <3>2. FormRight(wr, ca')
      <4> HIDE DEF wr
      <4> QED
        BY <2>1, <2>2, <2>3, <1>t DEF FormRight
    <3> HIDE DEF wr, rg
    <3> QED
      BY <3>1, <3>2, <2>2, <1>5, <1>t, EditorStep DEF Submit
  <2>4. CASE ~IsRegistered(form[e].data)
    <3>1. form' = [form EXCEPT ![e] = rg]
      BY <1>5, <1>t, <2>4 DEF Submit
    <3>2. FormRight(rg, ca')
      BY <2>1, <2>2, <2>4, <1>t DEF FormRight
    <3> HIDE DEF wr, rg
    <3> QED
      BY <3>1, <3>2, <2>2, <1>5, <1>t, EditorStep DEF Submit
  <2> QED
    BY <2>3, <2>4
<1>6. ASSUME NEW e \in Editors, Register(e)
      PROVE  RegistryInv'
  <2> DEFINE c   == form[e].data
             key == IF c.key # Nothing THEN c.key ELSE keys + 1
             eab == IF c.eab = "complete" THEN "complete" ELSE "none"
             res == [dir |-> c.dir, key |-> key, url |-> Url(key, c.dir), eab |-> eab]
             new == [form[e] EXCEPT !.at = "writing", !.byHand = FALSE, !.result = res]
  <2>1. /\ form[e] \in FormShape /\ c \in Creds /\ form[e].at = "registering" /\ ~IsRegistered(c)
    BY <1>6, <1>t DEF Register, FormShape, FormRight
  <2>2. c.key \in 0..MaxKey /\ c.dir \in Dirs /\ key \in 1..MaxKey
    BY <2>1, <1>t, <1>6, KeyAssumption DEF Creds, Register, Nothing
  <2>3. Url(key, c.dir) \in Urls /\ Url(key, c.dir) # NoUrl /\ Url(key, c.dir).key = key
        /\ Url(key, c.dir).dir = c.dir
    BY <2>2, KeyAssumption DEF Url, Urls, NoUrl, Nothing
  <2>4. res \in Creds /\ res.key = key /\ res.dir = c.dir /\ res.url = Url(key, c.dir)
    BY <2>2, <2>3, KeyAssumption DEF Creds, Eabs
  <2>5. /\ ca' = ca \cup {<<key, c.dir>>}
        /\ keys' = IF key > keys THEN key ELSE keys
        /\ form' = [form EXCEPT ![e] = new]
        /\ UNCHANGED <<accounts, unmatched>>
    BY <1>6, <1>t DEF Register
  <2>6. /\ new \in FormShape /\ new.at = "writing" /\ new.result = res /\ new.data = c /\ ~new.byHand
    BY <2>1, <2>4 DEF FormShape
  <2>7. keys' \in 0..MaxKey /\ ca \subseteq ca' /\ ca' \subseteq (1..MaxKey) \X Dirs
    <3> HIDE DEF key, c
    <3> QED
      BY <2>5, <2>2, <1>t, KeyAssumption
  <2>8. IsRegistered(res) /\ UrlOfKey(res, ca')
    <3>1. key # Nothing
      BY <2>2 DEF Nothing
    <3> HIDE DEF key, c, res
    <3> QED
      BY <3>1, <2>3, <2>4, <2>5 DEF IsRegistered, UrlOfKey
  <2>9. FormRight(new, ca')
    <3> HIDE DEF new, res, key, c
    <3> QED
      BY <2>6, <2>8, <2>1 DEF FormRight, UrlOfKey
  <2> HIDE DEF new, res, key, c
  <2> QED
    BY <2>5, <2>6, <2>7, <2>9, EditorStep
<1>7. ASSUME NEW e \in Editors, Fail(e)
      PROVE  RegistryInv'
  <2> DEFINE f   == form[e]
             new == [form[e] EXCEPT !.at = "editing", !.result = Fresh(AnyDir)]
  <2>1. f \in FormShape /\ FormRight(f, ca) /\ f.at \in {"registering", "writing"}
    BY <1>7, <1>t DEF Fail
  <2>2. /\ new \in FormShape /\ new.at = "editing" /\ new.data = f.data /\ new.byHand = f.byHand
        /\ form' = [form EXCEPT ![e] = new] /\ UNCHANGED <<accounts, keys, unmatched>>
    BY <2>1, <1>t, <1>7, CredFacts DEF FormShape, Fail
  <2>3. ca \subseteq ca' /\ ca' \subseteq (1..MaxKey) \X Dirs
    <3>1. f.data.key \in 0..MaxKey /\ f.data.dir \in Dirs
      BY <2>1 DEF FormShape, Creds
    <3>2. \/ ca' = ca
          \/ f.data.key # Nothing /\ ca' = ca \cup {<<f.data.key, f.data.dir>>}
      BY <1>7 DEF Fail
    <3> HIDE DEF f
    <3> QED
      BY <3>1, <3>2, <1>t, KeyAssumption DEF Nothing
  <2>4. FormRight(new, ca')
    <3> HIDE DEF f, new
    <3> QED
      BY <2>1, <2>2, <2>3 DEF FormRight, UrlOfKey
  <2> HIDE DEF f, new
  <2> QED
    BY <2>2, <2>3, <2>4, <1>t, EditorStep
<1>8. ASSUME NEW e \in Editors, Write(e)
      PROVE  RegistryInv'
  <2> DEFINE f == form[e]
  <2>1. f \in FormShape /\ FormRight(f, ca) /\ f.at = "writing" /\ UNCHANGED <<ca, keys>>
        /\ form' = [form EXCEPT ![e] = Closed]
    BY <1>8, <1>t DEF Write
  <2>2. PICK i \in Ids : /\ accounts' = [accounts EXCEPT ![i] = f.result]
                         /\ unmatched' = IF f.byHand THEN unmatched \cup {i} ELSE unmatched \ {i}
    BY <1>8 DEF Write
  <2>3. f.result \in Creds /\ IsRegistered(f.result) /\ (~f.byHand => UrlOfKey(f.result, ca))
    BY <2>1 DEF FormShape, FormRight
  <2>4. RegistryTypeOK'
    <3> HIDE DEF f
    <3> QED
      BY <2>1, <2>2, <2>3, <1>t, CredFacts DEF RegistryTypeOK, FormShape
  <2>5. FormsAreOwnOrGiven'
    <3>1. \A x \in Editors : form'[x] = IF x = e THEN Closed ELSE form[x]
      BY <2>1, <1>t
    <3> QED
      BY <3>1, <2>1 DEF RegistryInv, FormsAreOwnOrGiven, FormRight, Closed
  <2>6. AccountsCanSign'
    <3>1. \A j \in Ids : accounts'[j] = IF j = i THEN f.result ELSE accounts[j]
      BY <2>2, <1>t
    <3> HIDE DEF f
    <3> QED
      BY <3>1, <2>1, <2>2, <2>3 DEF RegistryInv, AccountsCanSign, Stored, IsRegistered, UrlOfKey
  <2> QED
    BY <2>4, <2>5, <2>6 DEF RegistryInv
<1>9. ASSUME NEW i \in Ids, Remove(i)
      PROVE  RegistryInv'
  <2>1. /\ accounts' = [accounts EXCEPT ![i] = NoAccount] /\ unmatched' = unmatched \ {i}
        /\ UNCHANGED <<ca, keys, form>>
    BY <1>9 DEF Remove
  <2>2. \A j \in Ids : accounts'[j] = IF j = i THEN NoAccount ELSE accounts[j]
    BY <2>1, <1>t
  <2> QED
    BY <2>1, <2>2 DEF RegistryInv, RegistryTypeOK, FormsAreOwnOrGiven, AccountsCanSign, Stored, UrlOfKey
<1> QED
  BY <1>u, <1>1, <1>2, <1>3, <1>4, <1>5, <1>6, <1>7, <1>8, <1>9 DEF RegistryNext

(* Whatever an editor empties, retries or loses (registrar.ts:14), a stored *)
(* account can sign: its URL is what its own directory gave to its key,     *)
(* unless the admin pasted one of the two or changed the directory over     *)
(* both.                                                                    *)
THEOREM AccountsSign == RegistrySpec => []AccountsCanSign
<1>1. RegistryInv => AccountsCanSign
  BY DEF RegistryInv
<1> QED
  BY RegistryInitInv, RegistryNextInv, <1>1, PTL DEF RegistrySpec

-----------------------------------------------------------------------------
(* The settings page (Settings). *)
(* A stored value is one its key has had; the fields of a loaded form that  *)
(* nobody typed into hold such values; a save keeps only those fields.      *)
StoredIsHad == \A k \in Keys : setting[k] \in was[k]

LoadedIsHad ==
  \A p \in Pages :
    page[p].at \in {"ready", "saving", "answering"} /\ ~page[p].failed
    => \A k \in Keys \ page[p].touched : page[p].form[k] \in was[k]

OnlySavesKeep ==
  \A p \in Pages : page[p].kept # {} => page[p].at = "saving"

SettingsInv ==
  SettingsTypeOK /\ StoredIsHad /\ LoadedIsHad /\ OnlySavesKeep /\ UntouchedFieldsKeepTheirValues

LEMMA FormFacts ==
  /\ BlankForm \in Forms
  /\ \A f \in Forms : f \in [Keys -> UNION {Values(k) : k \in Keys}]
  /\ \A f \in Forms, k \in Keys : \A v \in Values(k) : [f EXCEPT ![k] = v] \in Forms
  /\ \A f \in Forms, k \in Keys : f[k] \in Values(k)
<1>1. BlankForm \in Forms
  BY DEF BlankForm, Forms, Values
<1>2. \A f \in Forms, k \in Keys : f[k] \in Values(k)
  BY DEF Forms
<1>3. \A f \in Forms : f \in [Keys -> UNION {Values(k) : k \in Keys}]
  BY <1>2 DEF Forms
<1>4. ASSUME NEW f \in Forms, NEW k \in Keys, NEW v \in Values(k)
      PROVE  [f EXCEPT ![k] = v] \in Forms
  <2>1. v \in Values("admin_password") \cup Values("renew_window_ratio")
    BY DEF Values
  <2> QED
    BY <2>1 DEF Forms
<1> QED
  BY <1>1, <1>2, <1>3, <1>4

LEMMA KeyFacts ==
  /\ DOMAIN KEYS = {1, 2} /\ Len(KEYS) = 2
  /\ \A i \in DOMAIN KEYS : KEYS[i] \in Keys
  BY DEF KEYS, Keys

LEMMA SettingsInitInv == SettingsInit => SettingsInv
<1> SUFFICES ASSUME SettingsInit PROVE SettingsInv
  OBVIOUS
<1>1. NewPage \in [at : {"closed", "loading", "ready", "saving", "answering"},
                   form : Forms, touched : SUBSET Keys, failed : BOOLEAN,
                   kept : SUBSET Keys, next : DOMAIN KEYS]
  BY FormFacts, KeyFacts DEF NewPage
<1>2. SettingsTypeOK
  BY <1>1, FormFacts DEF SettingsInit, SettingsTypeOK
<1> QED
  BY <1>2 DEF SettingsInit, SettingsInv, StoredIsHad, LoadedIsHad, OnlySavesKeep,
     UntouchedFieldsKeepTheirValues, NewPage

(* A step that changes one page, not to a saving one with fields it might   *)
(* not keep, and that stores nothing.                                       *)
LEMMA PageStep ==
  ASSUME SettingsInv, NEW p \in Pages, NEW new,
         new \in [at : {"closed", "loading", "ready", "saving", "answering"},
                  form : Forms, touched : SUBSET Keys, failed : BOOLEAN,
                  kept : SUBSET Keys, next : DOMAIN KEYS],
         page' = [page EXCEPT ![p] = new], UNCHANGED <<setting, was>>,
         new.at \in {"ready", "saving", "answering"} /\ ~new.failed
           => \A k \in Keys \ new.touched : new.form[k] \in was[k],
         new.kept # {} => new.at = "saving",
         \A k \in new.kept : new.form[k] \in was[k]
  PROVE  SettingsInv'
<1>1. \A q \in Pages : page'[q] = IF q = p THEN new ELSE page[q]
  BY DEF SettingsInv, SettingsTypeOK
<1>2. SettingsTypeOK'
  BY DEF SettingsInv, SettingsTypeOK
<1> QED
  BY <1>1, <1>2 DEF SettingsInv, StoredIsHad, LoadedIsHad, OnlySavesKeep,
     UntouchedFieldsKeepTheirValues

LEMMA SettingsNextInv == SettingsInv /\ [SettingsNext]_settingVars => SettingsInv'
<1> SUFFICES ASSUME SettingsInv, [SettingsNext]_settingVars
             PROVE  SettingsInv'
  OBVIOUS
<1>u. CASE UNCHANGED settingVars
  BY <1>u DEF settingVars, SettingsInv, SettingsTypeOK, StoredIsHad, LoadedIsHad, OnlySavesKeep,
     UntouchedFieldsKeepTheirValues
<1> SUFFICES ASSUME NEW p \in Pages,
                    \/ Load(p) \/ Loaded(p) \/ LoadFails(p) \/ HandleSave(p) \/ SetSetting(p)
                    \/ Saved(p) \/ SaveFails(p) \/ Leave(p)
                    \/ \E k \in Keys : \E v \in Values(k) : Type(p, k, v)
             PROVE  SettingsInv'
  BY <1>u DEF SettingsNext
<1> DEFINE Shape == [at : {"closed", "loading", "ready", "saving", "answering"},
                     form : Forms, touched : SUBSET Keys, failed : BOOLEAN,
                     kept : SUBSET Keys, next : DOMAIN KEYS]
<1>t. /\ page[p] \in Shape /\ setting \in Forms /\ page \in [Pages -> Shape]
      /\ page[p].kept # {} => page[p].at = "saving"
      /\ \A k \in page[p].kept : page[p].form[k] \in was[k]
      /\ \A k \in Keys : setting[k] \in was[k]
      /\ page[p].at \in {"ready", "saving", "answering"} /\ ~page[p].failed
         => \A k \in Keys \ page[p].touched : page[p].form[k] \in was[k]
  BY DEF SettingsInv, SettingsTypeOK, OnlySavesKeep, UntouchedFieldsKeepTheirValues,
     StoredIsHad, LoadedIsHad
<1>n. NewPage \in Shape
  BY FormFacts, KeyFacts DEF NewPage
<1>1. CASE Load(p)
  <2> DEFINE new == [page[p] EXCEPT !.at = "loading"]
  <2>1. /\ new \in Shape /\ new.at = "loading" /\ new.kept = {}
        /\ page' = [page EXCEPT ![p] = new] /\ UNCHANGED <<setting, was>>
    BY <1>1, <1>t DEF Load
  <2> QED
    BY <2>1, PageStep
<1>2. CASE Loaded(p) \/ Saved(p)
  <2> DEFINE new == [NewPage EXCEPT !.at = "ready", !.form = setting]
  <2>1. /\ new \in Shape /\ new.at = "ready" /\ new.kept = {} /\ new.form = setting
        /\ page' = [page EXCEPT ![p] = new] /\ UNCHANGED <<setting, was>>
    BY <1>2, <1>t, <1>n DEF Loaded, Saved, NewPage
  <2> QED
    BY <2>1, <1>t, PageStep
<1>3. CASE LoadFails(p)
  <2> DEFINE new == [page[p] EXCEPT !.at = "ready", !.failed = TRUE, !.touched = {}]
  <2>1. /\ new \in Shape /\ new.failed /\ new.kept = {}
        /\ page' = [page EXCEPT ![p] = new] /\ UNCHANGED <<setting, was>>
    BY <1>3, <1>t DEF LoadFails
  <2> QED
    BY <2>1, PageStep
<1>4. CASE HandleSave(p)
  <2> DEFINE new == [page[p] EXCEPT !.at = "saving", !.next = 1,
                       !.kept = IF page[p].failed THEN {} ELSE Keys \ page[p].touched]
  <2>1. /\ new \in Shape /\ new.at = "saving" /\ new.form = page[p].form
        /\ new.touched = page[p].touched /\ new.failed = page[p].failed
        /\ new.kept = IF page[p].failed THEN {} ELSE Keys \ page[p].touched
        /\ page[p].at = "ready"
        /\ page' = [page EXCEPT ![p] = new] /\ UNCHANGED <<setting, was>>
    BY <1>4, <1>t, KeyFacts DEF HandleSave, CanSave
  <2> HIDE DEF new
  <2> QED
    BY <2>1, <1>t, PageStep
<1>5. CASE SetSetting(p)
  <2> DEFINE k == KEYS[page[p].next]
             v == page[p].form[k]
  <2>1. /\ k \in Keys /\ v \in Values(k)
    BY <1>t, KeyFacts, FormFacts
  <2>2. /\ setting' = [setting EXCEPT ![k] = v] /\ setting' \in Forms
        /\ was' = [was EXCEPT ![k] = @ \cup {v}]
    BY <2>1, <1>t, <1>5, FormFacts DEF SetSetting
  <2>3. /\ \A j \in Keys : was[j] \subseteq was'[j] /\ setting'[j] \in was'[j]
        /\ was' \in [Keys -> SUBSET UNION {Values(j) : j \in Keys}]
    <3>1. was \in [Keys -> SUBSET UNION {Values(j) : j \in Keys}] /\ setting \in [Keys -> UNION {Values(j) : j \in Keys}]
      BY <1>t, FormFacts DEF SettingsInv, SettingsTypeOK
    <3> HIDE DEF k, v
    <3> QED
      BY <3>1, <2>1, <2>2, <1>t
  <2>4. PICK new : /\ page' = [page EXCEPT ![p] = new] /\ new \in Shape
                   /\ new.at \in {"saving", "answering"} /\ page[p].at = "saving"
                   /\ new.form = page[p].form /\ new.touched = page[p].touched
                   /\ new.failed = page[p].failed
                   /\ new.kept # {} => new.at = "saving" /\ new.kept = page[p].kept
    <3>1. CASE page[p].next < Len(KEYS)
      <4> WITNESS [page[p] EXCEPT !.next = @ + 1]
      <4> QED
        BY <3>1, <1>5, <1>t, KeyFacts DEF SetSetting
    <3>2. CASE ~(page[p].next < Len(KEYS))
      <4> WITNESS [NewPage EXCEPT !.at = "answering", !.form = page[p].form,
                     !.touched = page[p].touched, !.failed = page[p].failed]
      <4> QED
        BY <3>2, <1>5, <1>t, <1>n DEF SetSetting, NewPage
    <3> QED
      BY <3>1, <3>2
  <2>5. \A q \in Pages : page'[q] = IF q = p THEN new ELSE page[q]
    BY <2>4, <1>t
  <2>6. SettingsTypeOK'
    BY <2>2, <2>3, <2>4, <1>t DEF SettingsTypeOK
  <2>7. /\ LoadedIsHad' /\ OnlySavesKeep' /\ StoredIsHad' /\ UntouchedFieldsKeepTheirValues'
    <3>1. \A q \in Pages : page[q].kept \subseteq Keys /\ page[q].touched \subseteq Keys
      BY DEF SettingsInv, SettingsTypeOK
    <3> HIDE DEF k, v
    <3> QED
      BY <3>1, <2>3, <2>4, <2>5, <1>t DEF SettingsInv, StoredIsHad, LoadedIsHad, OnlySavesKeep,
         UntouchedFieldsKeepTheirValues
  <2> QED
    BY <2>6, <2>7 DEF SettingsInv
<1>6. CASE SaveFails(p)
  <2> DEFINE new == [page[p] EXCEPT !.at = "ready", !.kept = {}, !.next = 1]
  <2>1. /\ new \in Shape /\ new.at = "ready" /\ new.kept = {} /\ new.form = page[p].form
        /\ new.touched = page[p].touched /\ new.failed = page[p].failed
        /\ page[p].at \in {"saving", "answering"}
        /\ page' = [page EXCEPT ![p] = new] /\ UNCHANGED <<setting, was>>
    BY <1>6, <1>t, KeyFacts DEF SaveFails
  <2> HIDE DEF new
  <2> QED
    BY <2>1, <1>t, PageStep
<1>7. CASE Leave(p)
  <2>1. /\ NewPage.at = "closed" /\ NewPage.kept = {}
        /\ page' = [page EXCEPT ![p] = NewPage] /\ UNCHANGED <<setting, was>>
    BY <1>7 DEF Leave, NewPage
  <2> QED
    BY <2>1, <1>n, PageStep
<1>8. ASSUME NEW k \in Keys, NEW v \in Values(k), Type(p, k, v)
      PROVE  SettingsInv'
  <2> DEFINE new == [page[p] EXCEPT !.form[k] = v,
                       !.touched = IF page[p].failed THEN @ ELSE @ \cup {k}]
  <2>1. /\ new \in Shape /\ new.at = page[p].at /\ new.failed = page[p].failed
        /\ new.kept = page[p].kept /\ new.form = [page[p].form EXCEPT ![k] = v]
        /\ new.touched = IF page[p].failed THEN page[p].touched ELSE page[p].touched \cup {k}
    BY <1>t, FormFacts
  <2>2. /\ page[p].at \in {"loading", "ready"} /\ page[p].kept = {}
        /\ page' = [page EXCEPT ![p] = new] /\ UNCHANGED <<setting, was>>
    BY <1>8, <1>t DEF Type
  <2>3. page[p].form \in [Keys -> UNION {Values(j) : j \in Keys}]
    BY <1>t, FormFacts
  <2> HIDE DEF new
  <2> QED
    BY <2>1, <2>2, <2>3, <1>t, PageStep
<1> QED
  BY <1>1, <1>2, <1>3, <1>4, <1>5, <1>6, <1>7, <1>8

(* Saving the whole form (SettingPage.vue:47) gives no setting a value it   *)
(* has not had, but those the admin typed.                                  *)
THEOREM UntouchedFieldsHold == SettingsSpec => []UntouchedFieldsKeepTheirValues
<1>1. SettingsInv => UntouchedFieldsKeepTheirValues
  BY DEF SettingsInv
<1> QED
  BY SettingsInitInv, SettingsNextInv, <1>1, PTL DEF SettingsSpec

-----------------------------------------------------------------------------
(* The tabs (ConsoleSession). *)
(* A tab at a page of the console is signed in or stranded; a tab that asks *)
(* /me has not asked before.  A wrong answer leaves a page only by way of   *)
(* the login.                                                               *)
SessionInv == SessionTypeOK /\ AppPagesAreSignedIn

LEMMA SessionInitInv == SessionInit => SessionInv
  BY DEF SessionInit, SessionInv, SessionTypeOK, AppPagesAreSignedIn

LEMMA SessionNextInv == SessionInv /\ [SessionNext]_sessionVars => SessionInv'
<1> SUFFICES ASSUME SessionInv, [SessionNext]_sessionVars
             PROVE  SessionInv'
  OBVIOUS
<1>u. CASE UNCHANGED sessionVars
  BY <1>u DEF sessionVars, SessionInv, SessionTypeOK, AppPagesAreSignedIn
<1> SUFFICES ASSUME NEW t \in Tabs,
                    \/ Answers(t) \/ Reload(t) \/ Check(t) \/ Login(t) \/ Logout(t)
                    \/ Fetch(t) \/ FollowLink(t)
             PROVE  SessionInv'
  BY <1>u DEF SessionNext
<1>1. CASE Checked(t)
  <2>1. SessionTypeOK'
    BY <1>1 DEF Checked, Answered, Show, SessionInv, SessionTypeOK
  <2>2. AppPagesAreSignedIn'
    BY <1>1 DEF Checked, Answered, Show, SessionInv, SessionTypeOK, AppPagesAreSignedIn
  <2> QED
    BY <2>1, <2>2 DEF SessionInv
<1>2. CASE LoggedIn(t)
  <2>1. SessionTypeOK'
    BY <1>2 DEF LoggedIn, Answered, SessionInv, SessionTypeOK
  <2>2. AppPagesAreSignedIn'
    BY <1>2 DEF LoggedIn, Answered, SessionInv, SessionTypeOK, AppPagesAreSignedIn
  <2> QED
    BY <2>1, <2>2 DEF SessionInv
<1>3. CASE LoginFails(t)
  <2>1. SessionTypeOK'
    BY <1>3 DEF LoginFails, Answered, SessionInv, SessionTypeOK
  <2>2. AppPagesAreSignedIn'
    BY <1>3 DEF LoginFails, Answered, SessionInv, SessionTypeOK, AppPagesAreSignedIn
  <2> QED
    BY <2>1, <2>2 DEF SessionInv
<1>4. CASE LoggedOut(t)
  <2>1. SessionTypeOK'
    <3>1. calls' \in [Tabs -> SUBSET [kind : Kinds, ok : BOOLEAN]]
      BY <1>4 DEF LoggedOut, Answered, SessionInv, SessionTypeOK
    <3>2. /\ authenticated' \in [Tabs -> BOOLEAN] /\ view' \in [Tabs -> {"loading", "login", "app"}]
          /\ cookie' \in BOOLEAN /\ strays' \subseteq Tabs
      BY <1>4 DEF LoggedOut, Show, SessionInv, SessionTypeOK
    <3> QED
      BY <1>4, <3>1, <3>2 DEF LoggedOut, SessionInv, SessionTypeOK
  <2>2. AppPagesAreSignedIn'
    BY <1>4 DEF LoggedOut, Answered, Show, SessionInv, SessionTypeOK, AppPagesAreSignedIn
  <2> QED
    BY <2>1, <2>2 DEF SessionInv
<1>5. CASE LogoutFails(t)
  <2>1. SessionTypeOK'
    BY <1>5 DEF LogoutFails, Answered, SessionInv, SessionTypeOK
  <2>2. AppPagesAreSignedIn'
    BY <1>5 DEF LogoutFails, Answered, SessionInv, SessionTypeOK, AppPagesAreSignedIn
  <2> QED
    BY <2>1, <2>2 DEF SessionInv
<1>6. CASE Fetched(t)
  <2>1. SessionTypeOK'
    BY <1>6 DEF Fetched, Answered, SessionInv, SessionTypeOK
  <2>2. AppPagesAreSignedIn'
    BY <1>6 DEF Fetched, Answered, SessionInv, SessionTypeOK, AppPagesAreSignedIn
  <2> QED
    BY <2>1, <2>2 DEF SessionInv
<1>7. CASE HandleUnauthorized(t)
  <2>1. SessionTypeOK'
    BY <1>7 DEF HandleUnauthorized, Show, SessionInv, SessionTypeOK
  <2>2. AppPagesAreSignedIn'
    BY <1>7 DEF HandleUnauthorized, Show, SessionInv, SessionTypeOK, AppPagesAreSignedIn
  <2> QED
    BY <2>1, <2>2 DEF SessionInv
<1>8. CASE Reload(t)
  <2>1. SessionTypeOK'
    BY <1>8 DEF Reload, SessionInv, SessionTypeOK
  <2>2. AppPagesAreSignedIn'
    BY <1>8 DEF Reload, SessionInv, SessionTypeOK, AppPagesAreSignedIn
  <2> QED
    BY <2>1, <2>2 DEF SessionInv
<1>9. ASSUME NEW kind \in Kinds, NEW ok \in BOOLEAN, Call(t, kind, ok),
             UNCHANGED <<cookie, authenticated, ready, view, redirects, strays>>
      PROVE  SessionInv'
  BY <1>9 DEF Call, SessionInv, SessionTypeOK, AppPagesAreSignedIn
<1>10. CASE FollowLink(t)
  <2>1. SessionTypeOK'
    BY <1>10 DEF FollowLink, Show, SessionInv, SessionTypeOK
  <2>2. AppPagesAreSignedIn'
    BY <1>10 DEF FollowLink, Show, SessionInv, SessionTypeOK, AppPagesAreSignedIn
  <2> QED
    BY <2>1, <2>2 DEF SessionInv
<1>11. CASE Check(t) \/ Login(t) \/ Logout(t) \/ Fetch(t)
  <2>1. cookie \in BOOLEAN
    BY DEF SessionInv, SessionTypeOK
  <2> QED
    BY <2>1, <1>9, <1>11 DEF Check, Login, Logout, Fetch, Kinds
<1> QED
  BY <1>1, <1>2, <1>3, <1>4, <1>5, <1>6, <1>7, <1>8, <1>10, <1>11 DEF Answers

(* In whatever order the answers to a tab's calls arrive (router, api.ts:12),*)
(* it is not left at a page of the console with nobody signed in.           *)
THEOREM TabsAreSignedIn == SessionSpec => []AppPagesAreSignedIn
<1>1. SessionInv => AppPagesAreSignedIn
  BY DEF SessionInv
<1> QED
  BY SessionInitInv, SessionNextInv, <1>1, PTL DEF SessionSpec

-----------------------------------------------------------------------------
(* The consumer page (ConsumerPage). *)
(* A consumer as some answer gave it: the one on the page, those that       *)
(* arrive.                                                                  *)
Seen == {r \in {f.row : f \in fetches} \cup {item} : r # NoItem}

(* A token has belonged to one consumer only, and a new one is above all    *)
(* there have been.                                                         *)
TokensNameOne ==
  /\ \A c, d \in Clients : tokens[c] = tokens[d] => c = d
  /\ \A r \in Seen : /\ \A c \in Clients : tokens[c] = r.token => c = r.id
                     /\ \E c \in Clients : r.token <= tokens[c]
                     /\ \A s \in Seen : r.token = s.token => r.id = s.id

(* What a list that was asked for with the page's token holds, all there is *)
(* unless something was added later.                                        *)
Right(res) ==
  res # Empty => res.owner = item.id /\ (~added => res.count = issued[item.id])

(* The load started last has the page's token; so has the list it became.   *)
LastLoadFollows ==
  /\ \A l \in loads : /\ l.n <= started
                      /\ l.n = started => l.token = item.token /\ (l.done => Right(l.res))
  /\ shownBy <= started
  /\ shownBy = started /\ item # NoItem => certs.token = item.token /\ Right(certs.res)

PageInv == PageTypeOK /\ TokensNameOne /\ LastLoadFollows

LoadShape == [n : 1..MaxLoads, token : 1..MaxPageToken, done : BOOLEAN, res : Results]
FetchShape == [kind : {"fetch", "rotate"}, id : Clients, row : Items \cup {NoItem}]
ModalShape == [at : {"closed", "open"}, client : Items \cup {NoItem}, running : BOOLEAN]

LEMMA PageFacts ==
  /\ Empty \in Results /\ NoItem \notin Items /\ NoItem.token = 0 /\ NoModal \in ModalShape
  /\ \A kind \in {"fetch", "rotate"}, c \in Clients : Request(kind, c) \in FetchShape
  /\ \A r \in Items : r.id \in Clients /\ r.token \in 1..MaxPageToken
<1>1. Empty \in Results
  BY PageAssumption DEF Empty, Results
<1>2. NoItem \notin Items /\ NoItem.token = 0
  BY PageAssumption DEF NoItem, Items
<1>3. \A r \in Items : r.id \in Clients /\ r.token \in 1..MaxPageToken
  BY DEF Items
<1>4. NoModal \in ModalShape
  BY DEF NoModal, ModalShape
<1>5. \A kind \in {"fetch", "rotate"}, c \in Clients : Request(kind, c) \in FetchShape
  BY DEF Request, FetchShape
<1> QED
  BY <1>1, <1>2, <1>3, <1>4, <1>5

LEMMA PageInitInv == PageInit => PageInv
<1> SUFFICES ASSUME PageInit PROVE PageInv
  OBVIOUS
<1>1. /\ tokens \in [Clients -> 1..Cardinality(Clients)]
      /\ \A c, d \in Clients : tokens[c] = tokens[d] => c = d
  BY DEF PageInit
<1>2. tokens \in [Clients -> 1..MaxPageToken]
  <2>1. Cardinality(Clients) \in Nat /\ Cardinality(Clients) <= MaxPageToken /\ MaxPageToken \in Nat
    BY PageAssumption, FS_CardinalityType
  <2>2. \A n \in 1..Cardinality(Clients) : n \in 1..MaxPageToken
    BY <2>1
  <2> QED
    BY <1>1, <2>2
<1>3. PageTypeOK
  <2>1. issued \in [Clients -> 0..MaxIssued]
    <3>1. 0 \in 0..MaxIssued
      BY PageAssumption
    <3> QED
      BY <3>1 DEF PageInit
  <2>2. id \in Clients /\ item = NoItem /\ fetches = {Request("fetch", id)} /\ loads = {}
    BY DEF PageInit
  <2>3. fetches \subseteq FetchShape
    BY <2>2, PageFacts
  <2>4. certs \in [token : 0..MaxPageToken, res : Results] /\ spinning \in BOOLEAN
        /\ started \in 0..MaxLoads /\ shownBy \in 0..MaxLoads
    <3>1. 0 \in 0..MaxPageToken /\ 0 \in 0..MaxLoads
      BY PageAssumption
    <3> QED
      BY <3>1, PageFacts DEF PageInit
  <2>5. modal \in ModalShape /\ added \in BOOLEAN
    BY PageFacts DEF PageInit
  <2> QED
    BY <1>2, <2>1, <2>2, <2>3, <2>4, <2>5 DEF PageTypeOK, ModalShape, FetchShape
<1>4. Seen = {}
  BY DEF Seen, PageInit, Request
<1> QED
  BY <1>1, <1>3, <1>4 DEF PageInit, PageInv, TokensNameOne, LastLoadFollows

-----------------------------------------------------------------------------
(* Loads asked for with the token of the page, at least one when the item   *)
(* changes.                                                                 *)
LEMMA LoadStep ==
  ASSUME PageInv, NEW mine \in 1..MaxPageToken, NEW times \in Nat, LoadCerts(mine, times),
         item'.token = mine, UNCHANGED <<certs, shownBy, issued>>,
         times = 0 => item # NoItem /\ item'.token = item.token /\ item'.id = item.id
  PROVE  /\ loads' \subseteq LoadShape /\ started' \in 0..MaxLoads
         /\ spinning' \in BOOLEAN /\ added' \in BOOLEAN
         /\ LastLoadFollows'
<1> DEFINE fresh == {[n |-> started + i, token |-> mine, done |-> FALSE, res |-> Empty] : i \in 1..times}
<1>1. /\ loads \subseteq LoadShape /\ started \in 0..MaxLoads /\ shownBy \in 0..MaxLoads
      /\ LastLoadFollows /\ MaxLoads \in Nat /\ added \in BOOLEAN
  BY PageAssumption DEF PageInv, PageTypeOK, LoadShape
<1>2. /\ loads' = loads \cup fresh /\ started' = started + times /\ started + times <= MaxLoads
      /\ spinning' = (spinning \/ times > 0) /\ added' = (added /\ times = 0)
  BY DEF LoadCerts
<1>3. \A l \in fresh : /\ l \in LoadShape /\ l.n <= started' /\ l.n > started
                       /\ l.token = mine /\ ~l.done
  <2> SUFFICES ASSUME NEW i \in 1..times
               PROVE  LET l == [n |-> started + i, token |-> mine, done |-> FALSE, res |-> Empty]
                      IN  /\ l \in LoadShape /\ l.n <= started' /\ l.n > started
                          /\ l.token = mine /\ ~l.done
    OBVIOUS
  <2>1. started + i \in 1..MaxLoads /\ started + i <= started' /\ started + i > started
    BY <1>1, <1>2
  <2> QED
    BY <2>1, PageFacts DEF LoadShape
<1>4. times = 0 => fresh = {}
  OBVIOUS
<1>5. spinning' \in BOOLEAN /\ added' \in BOOLEAN /\ started' \in 0..MaxLoads
  BY <1>1, <1>2
<1> HIDE DEF fresh
<1>6. loads' \subseteq LoadShape
  BY <1>1, <1>2, <1>3
<1>7. CASE times = 0
  <2>1. loads' = loads /\ started' = started /\ added' = added
    BY <1>1, <1>2, <1>4, <1>7
  <2>2. \A res : Right(res) => Right(res)'
    BY <1>7, <2>1 DEF Right
  <2>3. LastLoadFollows'
    BY <1>1, <1>7, <2>1, <2>2 DEF LastLoadFollows
  <2> QED
    BY <1>5, <1>6, <2>3
<1>8. CASE times # 0
  <2>1. \A l \in loads : l.n < started' /\ l.n \in Nat
    BY <1>1, <1>2, <1>8 DEF LastLoadFollows, LoadShape
  <2>2. shownBy' < started'
    BY <1>1, <1>2, <1>8 DEF LastLoadFollows
  <2>3. \A l \in loads' : /\ l.n <= started'
                          /\ l.n = started' => l.token = item'.token /\ ~l.done
    BY <1>2, <1>3, <2>1, <1>5
  <2>4. LastLoadFollows'
    BY <2>2, <2>3, <1>1, <1>5 DEF LastLoadFollows
  <2> QED
    BY <1>5, <1>6, <2>4
<1> QED
  BY <1>7, <1>8

LEMMA SeenStep ==
  ASSUME TokensNameOne, tokens' = tokens, Seen' \subseteq Seen
  PROVE  TokensNameOne'
BY DEF TokensNameOne

(* The highest token there is, which the next one exceeds by one. *)
LEMMA HighestToken ==
  ASSUME PageTypeOK
  PROVE  LET m == CHOOSE m \in 1..MaxPageToken :
                    (\E c \in Clients : tokens[c] = m) /\ \A c \in Clients : tokens[c] <= m
         IN  m \in 1..MaxPageToken /\ \A c \in Clients : tokens[c] <= m
<1> DEFINE T == {tokens[c] : c \in Clients}
<1>1. /\ id \in Clients /\ MaxPageToken \in Nat
      /\ \A c \in Clients : tokens[c] \in 1..MaxPageToken
  BY PageAssumption DEF PageTypeOK
<1>2. T \in SUBSET Nat /\ T # {} /\ \A n \in T : n <= MaxPageToken
  BY <1>1
<1>3. PICK t \in T : \A n \in T : n <= t
  <2> HIDE DEF T
  <2> QED
    BY <1>1, <1>2, GreatestExists
<1>4. t \in 1..MaxPageToken /\ (\E c \in Clients : tokens[c] = t) /\ \A c \in Clients : tokens[c] <= t
  BY <1>1, <1>3
<1> QED
  BY <1>4

LEMMA PageNextInv == PageInv /\ [PageNext]_pageVars => PageInv'
<1> SUFFICES ASSUME PageInv, [PageNext]_pageVars
             PROVE  PageInv'
  OBVIOUS
<1>t. /\ tokens \in [Clients -> 1..MaxPageToken] /\ issued \in [Clients -> 0..MaxIssued]
      /\ id \in Clients /\ item \in Items \cup {NoItem}
      /\ fetches \subseteq FetchShape /\ loads \subseteq LoadShape
      /\ certs \in [token : 0..MaxPageToken, res : Results]
      /\ spinning \in BOOLEAN /\ started \in 0..MaxLoads /\ shownBy \in 0..MaxLoads
      /\ modal \in ModalShape /\ added \in BOOLEAN
  BY DEF PageInv, PageTypeOK, FetchShape, LoadShape, ModalShape
<1>i. TokensNameOne /\ LastLoadFollows
  BY DEF PageInv
<1>0. ASSUME UNCHANGED <<item, certs, started, shownBy, loads>>,
             added' = FALSE => ~added /\ issued' = issued, added' \in BOOLEAN
      PROVE  LastLoadFollows'
  <2>1. \A res : Right(res) => Right(res)'
    BY <1>0 DEF Right
  <2> QED
    BY <1>0, <1>i, <2>1 DEF LastLoadFollows
<1>u. CASE UNCHANGED pageVars
  <2>1. Seen' = Seen
    BY <1>u DEF Seen, pageVars
  <2>2. TokensNameOne' /\ LastLoadFollows'
    <3>1. /\ UNCHANGED <<tokens, item, certs, started, shownBy, loads, issued, added>>
          /\ added \in BOOLEAN
      BY <1>u, <1>t DEF pageVars
    <3> QED
      BY <3>1, <1>i, <1>0, <2>1, SeenStep
  <2> QED
    BY <1>u, <2>2 DEF pageVars, PageInv, PageTypeOK
<1>1. ASSUME NEW c \in Clients, Navigate(c)
      PROVE  PageInv'
  <2>1. fetches' = fetches \cup {Request("fetch", c)} /\ fetches' \subseteq FetchShape
    BY <1>1, <1>t, PageFacts DEF Navigate
  <2>2. TokensNameOne'
    <3>1. Seen' \subseteq Seen
      BY <1>1, <2>1 DEF Seen, Request, Navigate
    <3> QED
      BY <1>1, <1>i, <3>1, SeenStep DEF Navigate
  <2> QED
    BY <1>0, <1>1, <1>t, <1>i, <2>1, <2>2
       DEF Navigate, PageInv, PageTypeOK, FetchShape
<1>2. CASE ClickRotate
  <2>1. fetches' = fetches \cup {Request("rotate", id)} /\ fetches' \subseteq FetchShape
    BY <1>2, <1>t, PageFacts DEF ClickRotate
  <2>2. TokensNameOne'
    <3>1. Seen' \subseteq Seen
      BY <1>2, <2>1 DEF Seen, Request, ClickRotate
    <3> QED
      BY <1>2, <1>i, <3>1, SeenStep DEF ClickRotate
  <2> QED
    BY <1>0, <1>2, <1>t, <1>i, <2>1, <2>2
       DEF ClickRotate, PageInv, PageTypeOK, FetchShape
<1>3. ASSUME NEW f \in fetches, ServeItem(f)
      PROVE  PageInv'
  <2>1. f \in FetchShape /\ f.id \in Clients /\ f.row = NoItem
    BY <1>3, <1>t DEF ServeItem, FetchShape
  <2>2. /\ tokens' \in [Clients -> 1..MaxPageToken]
        /\ \A c \in Clients \ {f.id} : tokens'[c] = tokens[c]
        /\ \/ tokens'[f.id] = tokens[f.id]
           \/ \A c \in Clients : tokens[c] < tokens'[f.id]
    <3>1. CASE f.kind = "rotate"
      <4> DEFINE m == CHOOSE m \in 1..MaxPageToken :
                        (\E c \in Clients : tokens[c] = m) /\ \A c \in Clients : tokens[c] <= m
      <4>1. m \in 1..MaxPageToken /\ \A c \in Clients : tokens[c] <= m
        BY HighestToken DEF PageInv
      <4>2. 1 + m <= MaxPageToken /\ tokens' = [tokens EXCEPT ![f.id] = 1 + m]
        BY <1>3, <3>1 DEF ServeItem
      <4> HIDE DEF m
      <4> QED
        BY <4>1, <4>2, <2>1, <1>t, PageAssumption
    <3>2. CASE f.kind # "rotate"
      BY <1>3, <3>2, <1>t DEF ServeItem
    <3> QED
      BY <3>1, <3>2
  <2> DEFINE row == [id |-> f.id, token |-> tokens'[f.id]]
             g   == [f EXCEPT !.row = row]
  <2>3. row \in Items /\ row.id = f.id /\ row.token = tokens'[f.id] /\ g \in FetchShape /\ g.row = row
    BY <2>1, <2>2 DEF Items, FetchShape
  <2>4. fetches' = (fetches \ {f}) \cup {g} /\ fetches' \subseteq FetchShape
    BY <1>3, <1>t, <2>3 DEF ServeItem
  <2>5. /\ Seen' \subseteq Seen \cup {row}
        /\ \A r \in Seen : r \in Items
    BY <1>3, <1>t, <2>3, <2>4 DEF Seen, ServeItem, FetchShape
  <2>6. TokensNameOne'
    <3> HIDE DEF row, g
    <3> DEFINE T == MaxPageToken
    <3>1. \A c \in Clients : tokens[c] \in Nat /\ tokens'[c] \in Nat
      BY <1>t, <2>2
    <3>2. \A r \in Seen : r.token \in Nat /\ r.id \in Clients
      BY <2>5, PageFacts
    <3>3. \A c, d \in Clients : tokens'[c] = tokens'[d] => c = d
      BY <1>i, <2>1, <2>2, <3>1 DEF TokensNameOne
    <3>4. ASSUME NEW r \in Seen
          PROVE  /\ \A c \in Clients : tokens'[c] = r.token => c = r.id
                 /\ \E c \in Clients : r.token <= tokens'[c]
                 /\ r.token = row.token => r.id = row.id
      <4>1. PICK d \in Clients : r.token <= tokens[d]
        BY <1>i DEF TokensNameOne
      <4>2. CASE tokens'[f.id] = tokens[f.id]
        BY <4>1, <4>2, <1>i, <2>1, <2>2, <2>3 DEF TokensNameOne
      <4>3. CASE \A c \in Clients : tokens[c] < tokens'[f.id]
        <5>1. r.token < tokens'[f.id]
          BY <4>1, <4>3, <3>1, <3>2, <2>1
        <5>2. \A c \in Clients : tokens'[c] = r.token => c = r.id
          BY <5>1, <1>i, <2>2, <3>1, <3>2, <2>1 DEF TokensNameOne
        <5> QED
          BY <5>1, <5>2, <2>1, <2>3, <3>1, <3>2
      <4> QED
        BY <4>2, <4>3, <2>2
    <3>5. /\ \A c \in Clients : tokens'[c] = row.token => c = row.id
          /\ \E c \in Clients : row.token <= tokens'[c]
      BY <2>1, <2>3, <3>1, <3>3
    <3>6. \A r, s \in Seen : r.token = s.token => r.id = s.id
      BY <1>i DEF TokensNameOne
    <3> QED
      BY <2>5, <3>3, <3>4, <3>5, <3>6 DEF TokensNameOne
  <2> QED
    BY <1>0, <1>3, <1>t, <1>i, <2>2, <2>4, <2>6
       DEF ServeItem, PageInv, PageTypeOK, FetchShape
<1>4. ASSUME NEW f \in fetches, ItemArrives(f)
      PROVE  PageInv'
  <2> DEFINE times == Watch(f.row) + (IF f.kind = "rotate" THEN 1 ELSE 0)
  <2>1. /\ f \in FetchShape /\ f.row \in Items /\ f.row \in Seen /\ f.row.token \in 1..MaxPageToken
        /\ item' = f.row /\ LoadCerts(f.row.token, times)
        /\ fetches' = fetches \ {f} /\ UNCHANGED <<tokens, issued, id, certs, shownBy, modal>>
    BY <1>4, <1>t, PageFacts DEF ItemArrives, FetchShape, Seen
  <2>2. times \in Nat /\ (times = 0 => f.row.token = item.token)
    BY DEF Watch
  <2> HIDE DEF times
  <2>3. ASSUME times = 0
        PROVE  item # NoItem /\ item'.token = item.token /\ item'.id = item.id
    <3>1. item # NoItem
      BY <2>1, <2>2, <2>3, PageFacts
    <3>2. item \in Seen
      BY <3>1 DEF Seen
    <3>3. f.row.id = item.id
      BY <3>2, <2>1, <2>2, <2>3, <1>i DEF TokensNameOne
    <3> QED
      BY <3>1, <3>3, <2>1, <2>2, <2>3
  <2>4. /\ loads' \subseteq LoadShape /\ started' \in 0..MaxLoads /\ spinning' \in BOOLEAN
        /\ added' \in BOOLEAN /\ LastLoadFollows'
    BY <2>1, <2>2, <2>3, LoadStep
  <2>5. TokensNameOne'
    <3>1. Seen' \subseteq Seen
      BY <2>1 DEF Seen
    <3> QED
      BY <2>1, <1>i, <3>1, SeenStep
  <2> QED
    BY <2>1, <2>4, <2>5, <1>t DEF PageInv, PageTypeOK, FetchShape, LoadShape, ModalShape
<1>5. ASSUME NEW f \in fetches, ItemFails(f)
      PROVE  PageInv'
  <2>1. Seen' \subseteq Seen
    BY <1>5 DEF Seen, ItemFails
  <2>2. TokensNameOne'
    BY <1>5, <1>i, <2>1, SeenStep DEF ItemFails
  <2> QED
    BY <1>0, <1>5, <1>t, <1>i, <2>2 DEF ItemFails, PageInv, PageTypeOK, FetchShape
<1>6. CASE ClickRefresh
  <2>1. /\ item # NoItem /\ item.token \in 1..MaxPageToken /\ 1 \in Nat /\ LoadCerts(item.token, 1)
        /\ UNCHANGED <<tokens, issued, id, item, fetches, certs, shownBy, modal>>
    BY <1>6, <1>t, PageFacts DEF ClickRefresh
  <2>2. /\ loads' \subseteq LoadShape /\ started' \in 0..MaxLoads /\ spinning' \in BOOLEAN
        /\ added' \in BOOLEAN /\ LastLoadFollows'
    BY <2>1, LoadStep
  <2>3. TokensNameOne'
    <3>1. Seen' = Seen
      BY <2>1 DEF Seen
    <3> QED
      BY <2>1, <1>i, <3>1, SeenStep
  <2> QED
    BY <2>1, <1>t, <2>2, <2>3 DEF PageInv, PageTypeOK, FetchShape, LoadShape, ModalShape
<1>8. ASSUME NEW l \in loads, ServeList(l)
      PROVE  PageInv'
  <2> DEFINE res == IF \E c \in Clients : tokens[c] = l.token
                    THEN LET c == CHOOSE c \in Clients : tokens[c] = l.token
                         IN  [owner |-> c, count |-> issued[c]]
                    ELSE Empty
             m   == [l EXCEPT !.done = TRUE, !.res = res]
  <2>1. l \in LoadShape /\ loads' = (loads \ {l}) \cup {m}
        /\ UNCHANGED <<tokens, issued, id, item, fetches, certs, spinning, started, shownBy, modal, added>>
    BY <1>8, <1>t DEF ServeList
  <2>2. res \in Results /\ (res # Empty => \E c \in Clients : /\ tokens[c] = l.token
                                                             /\ res.owner = c /\ res.count = issued[c])
    <3>1. CASE \E c \in Clients : tokens[c] = l.token
      <4> DEFINE c == CHOOSE c \in Clients : tokens[c] = l.token
      <4>1. c \in Clients /\ tokens[c] = l.token
        BY <3>1
      <4>2. res = [owner |-> c, count |-> issued[c]]
        BY <3>1
      <4> HIDE DEF c, res
      <4> QED
        BY <4>1, <4>2, <1>t DEF Results
    <3>2. CASE ~\E c \in Clients : tokens[c] = l.token
      BY <3>2, PageFacts
    <3> QED
      BY <3>1, <3>2
  <2> HIDE DEF res
  <2>3. m \in LoadShape /\ m.n = l.n /\ m.token = l.token /\ m.res = res
    BY <2>1, <2>2 DEF LoadShape
  <2>4. loads' \subseteq LoadShape
    BY <2>1, <2>3, <1>t
  <2> HIDE DEF m
  <2>5. LastLoadFollows'
    <3>1. l.n <= started /\ (l.n = started => l.token = item.token)
      BY <1>i DEF LastLoadFollows
    <3>2. l.n = started => Right(res)
      <4> SUFFICES ASSUME l.n = started, res # Empty
                   PROVE  res.owner = item.id /\ res.count = issued[item.id]
        BY DEF Right
      <4>1. PICK c \in Clients : tokens[c] = l.token /\ res.owner = c /\ res.count = issued[c]
        BY <2>2
      <4>2. item # NoItem
        BY <4>1, <3>1, <1>t, PageFacts
      <4>3. item \in Seen
        BY <4>2 DEF Seen
      <4>4. c = item.id
        BY <4>1, <4>3, <3>1, <1>i DEF TokensNameOne
      <4> QED
        BY <4>1, <4>4
    <3>3. \A r : Right(r) => Right(r)'
      BY <2>1 DEF Right
    <3>4. \A k \in loads' : k = m \/ k \in loads
      BY <2>1
    <3> QED
      BY <3>1, <3>2, <3>3, <3>4, <2>1, <2>3, <1>i DEF LastLoadFollows
  <2>6. TokensNameOne'
    <3>1. Seen' = Seen
      BY <2>1 DEF Seen
    <3> QED
      BY <2>1, <1>i, <3>1, SeenStep
  <2> QED
    BY <2>1, <2>4, <2>5, <2>6, <1>t, <1>i DEF PageInv, PageTypeOK, LoadShape
<1>9. ASSUME NEW l \in loads, ListArrives(l)
      PROVE  PageInv'
  <2>1. PICK res \in {l.res, Empty} : certs' = [token |-> l.token, res |-> res]
    BY <1>9 DEF ListArrives
  <2>2. /\ l \in LoadShape /\ l.done /\ loads' = loads \ {l} /\ shownBy' = l.n /\ spinning' = FALSE
        /\ UNCHANGED <<tokens, issued, id, item, fetches, started, modal, added>>
    BY <1>9, <1>t DEF ListArrives
  <2>3. /\ certs' \in [token : 0..MaxPageToken, res : Results] /\ shownBy' \in 0..MaxLoads
        /\ certs'.token = l.token /\ certs'.res = res
    <3>1. l.token \in 0..MaxPageToken /\ l.n \in 0..MaxLoads /\ res \in Results
      BY <2>1, <2>2, PageFacts, PageAssumption DEF LoadShape
    <3> QED
      BY <3>1, <2>1, <2>2
  <2>4. LastLoadFollows'
    <3>1. l.n <= started /\ (l.n = started => l.token = item.token /\ Right(res))
      BY <2>1, <2>2, <1>i DEF LastLoadFollows, Right
    <3> QED
      BY <3>1, <2>2, <2>3, <1>i DEF LastLoadFollows, Right
  <2>5. TokensNameOne'
    <3>1. Seen' = Seen
      BY <2>2 DEF Seen
    <3> QED
      BY <2>2, <1>i, <3>1, SeenStep
  <2> QED
    BY <2>2, <2>3, <2>4, <2>5, <1>t, <1>i DEF PageInv, PageTypeOK, FetchShape, LoadShape, ModalShape
<1>10. ASSUME UNCHANGED <<tokens, id, item, fetches, loads, certs, spinning, started, shownBy>>,
              issued' \in [Clients -> 0..MaxIssued], modal' \in ModalShape,
              added' \in BOOLEAN, added' = FALSE => ~added /\ issued' = issued
       PROVE  PageInv'
  <2>1. Seen' = Seen
    BY <1>10 DEF Seen
  <2>2. TokensNameOne' /\ LastLoadFollows'
    BY <1>10, <1>i, <1>0, <2>1, SeenStep
  <2> QED
    BY <1>10, <1>t, <2>2 DEF PageInv, PageTypeOK, FetchShape, LoadShape, ModalShape
<1>11. CASE OpenModal
  <2> DEFINE new == [NoModal EXCEPT !.at = "open", !.client = item]
  <2>1. new \in ModalShape
    BY <1>11, <1>t, PageFacts DEF ModalShape
  <2> QED
    BY <2>1, <1>10, <1>11, <1>t DEF OpenModal
<1>12. CASE SubmitRequest
  <2> DEFINE new == [modal EXCEPT !.running = TRUE]
  <2>1. new \in ModalShape /\ modal' = new
    BY <1>12, <1>t DEF ModalShape, SubmitRequest
  <2> HIDE DEF new
  <2> QED
    BY <2>1, <1>10, <1>12, <1>t DEF SubmitRequest
<1>13. CASE Completed
  <2> DEFINE c == modal.client.id
  <2>1. PICK n \in 1..MaxIssued : /\ issued' = [issued EXCEPT ![c] = n]
                                  /\ added' = (added \/ n # issued[c])
    BY <1>13 DEF Completed
  <2> HIDE DEF c
  <2>2. n \in 0..MaxIssued /\ added' \in BOOLEAN
    BY <2>1, <1>t, PageAssumption
  <2>3. issued' \in [Clients -> 0..MaxIssued]
    BY <2>1, <2>2, <1>t
  <2>4. added' = FALSE => ~added /\ issued' = issued
    <3>1. n = issued[c] => [issued EXCEPT ![c] = n] = issued
      BY <1>t
    <3> QED
      BY <3>1, <2>1, <1>t
  <2> QED
    BY <2>2, <2>3, <2>4, <1>10, <1>13, <1>t DEF Completed
<1>14. CASE StreamCloses
  <2> DEFINE new == [modal EXCEPT !.running = FALSE]
  <2>1. new \in ModalShape /\ modal' = new
    BY <1>14, <1>t DEF ModalShape, StreamCloses
  <2> HIDE DEF new
  <2> QED
    BY <2>1, <1>10, <1>14, <1>t DEF StreamCloses
<1>15. CASE Dismiss
  BY <1>10, <1>15, <1>t, PageFacts DEF Dismiss
<1> QED
  BY <1>u, <1>1, <1>2, <1>3, <1>4, <1>5, <1>6, <1>8, <1>9, <1>11, <1>12, <1>13, <1>14, <1>15
     DEF PageNext

(* Once the loads have ended and the one started last was not overtaken     *)
(* (ConsumerDetailPage.vue:61), the list is that of the consumer shown, and *)
(* lacks no more than what was added since it was asked for.                *)
THEOREM ListsFollow == PageSpec => []ListFollowsConsumer
<1>1. PageInv => ListFollowsConsumer
  BY DEF PageInv, LastLoadFollows, Right, ListFollowsConsumer
<1> QED
  BY PageInitInv, PageNextInv, <1>1, PTL DEF PageSpec

-----------------------------------------------------------------------------
(* The log pager (LogPager). *)
LEMMA MinFacts ==
  ASSUME NEW T \in SUBSET Nat, T # {}
  PROVE  Min(T) \in T /\ \A y \in T : Min(T) <= y
BY LeastExists DEF Min

LEMMA LogShape ==
  ASSUME NEW S \in SUBSET Logs
  PROVE  /\ IsFiniteSet(S) /\ Cardinality(S) \in 0..MaxLogs
         /\ \A T \in SUBSET S : IsFiniteSet(T) /\ Cardinality(T) <= Cardinality(S)
         /\ \A T \in SUBSET S : T # S => Cardinality(T) < Cardinality(S)
<1>1. IsFiniteSet(Logs) /\ Cardinality(Logs) = MaxLogs
  BY LimitAssumption, FS_Interval DEF Logs
<1>2. IsFiniteSet(S) /\ Cardinality(S) <= MaxLogs /\ Cardinality(S) \in Nat
  BY <1>1, FS_Subset, FS_CardinalityType
<1>3. ASSUME NEW T \in SUBSET S
      PROVE  /\ IsFiniteSet(T) /\ Cardinality(T) <= Cardinality(S) /\ Cardinality(T) \in Nat
             /\ T # S => Cardinality(T) < Cardinality(S)
  BY <1>2, FS_Subset, FS_CardinalityType
<1> QED
  BY <1>2, <1>3, LimitAssumption

LEMMA Products ==
  /\ \A p \in Nat : p * Limit \in Nat
  /\ \A p \in Nat \ {0} : Offset(p, Limit) \in Nat /\ Offset(p, Limit) + Limit = p * Limit
  /\ \A p \in Nat \ {0} : Offset(p, Limit) = (p - 1) * Limit
  /\ \A p, q \in Nat : p <= q => p * Limit <= q * Limit
<1>1. Limit \in Nat \ {0}
  BY LimitAssumption
<1>2. \A p \in Nat : p * Limit \in Nat
  BY <1>1
<1>3. \A p \in Nat \ {0} : Offset(p, Limit) \in Nat /\ Offset(p, Limit) + Limit = p * Limit
  BY <1>1 DEF Offset
<1>4. \A p, q \in Nat : p <= q => p * Limit <= q * Limit
  BY <1>1
<1> QED
  BY <1>2, <1>3, <1>4 DEF Offset

LEMMA PagesInOrder ==
  ASSUME NEW total \in 0..MaxLogs
  PROVE  /\ PageCount(total) \in 0..MaxLogs
         /\ \A p \in Nat : p >= PageCount(total) => p * Limit >= total
<1>1. Limit \in Nat \ {0} /\ MaxLogs \in Nat /\ total \in Nat /\ total <= MaxLogs
  BY LimitAssumption
<1> DEFINE n == PageCount(total)
<1>2. /\ n \in Int
      /\ n * Limit <= total + Limit - 1
      /\ total + Limit - 1 < n * Limit + Limit
  BY <1>1 DEF PageCount
<1> HIDE DEF n
<1>3. n * Limit >= total
  <2>1. n * Limit \in Int
    BY <1>1, <1>2
  <2> QED
    BY <2>1, <1>1, <1>2
<1>4. n >= 0
  BY <1>1, <1>2
<1>5. n <= total
  BY <1>1, <1>2
<1>6. \A p \in Nat : p >= n => p * Limit >= total
  BY <1>1, <1>2, <1>3, <1>4, Products
<1> QED
  BY <1>1, <1>2, <1>4, <1>5, <1>6 DEF n

-----------------------------------------------------------------------------
(* The rows of S after x, as the service counts them. *)
Above(S, x) == Cardinality({y \in S : y > x})

LEMMA AboveGrows ==
  ASSUME NEW S \in SUBSET Logs, NEW T \in SUBSET Logs, S \subseteq T, NEW x
  PROVE  Above(S, x) \in Nat /\ Above(T, x) \in Nat /\ Above(S, x) <= Above(T, x)
<1> DEFINE A == {y \in S : y > x}
           B == {y \in T : y > x}
<1>1. A \subseteq B /\ B \subseteq Logs /\ A \subseteq Logs
  OBVIOUS
<1>2. Cardinality(A) \in 0..MaxLogs /\ Cardinality(B) \in 0..MaxLogs /\ Cardinality(A) <= Cardinality(B)
  <2> HIDE DEF A, B
  <2> QED
    BY <1>1, LogShape
<1> QED
  BY <1>2, LimitAssumption DEF Above

LEMMA AboveFalls ==
  ASSUME NEW S \in SUBSET Logs, NEW x \in Logs, NEW y \in Logs, x >= y
  PROVE  /\ Above(S, x) <= Above(S, y)
         /\ x \in S => Above(S, x) < Cardinality(S)
<1> DEFINE A == {z \in S : z > x}
           B == {z \in S : z > y}
<1>1. A \subseteq B
  <2>1. \A z \in S : z > x => z > y
    BY LimitAssumption DEF Logs
  <2> QED
    BY <2>1
<1>2. A \subseteq S /\ B \subseteq S /\ B \subseteq Logs
  OBVIOUS
<1>3. x \in S => A # S
  BY LimitAssumption DEF Logs
<1>4. Cardinality(A) <= Cardinality(B) /\ (x \in S => Cardinality(A) < Cardinality(S))
  <2> HIDE DEF A, B
  <2> QED
    BY <1>1, <1>2, <1>3, LogShape
<1> QED
  BY <1>4 DEF Above

(* Every row that was there and lies on the first pages, by the table as it *)
(* is, has been shown.                                                      *)
Covered(S, there, pages, seen) == \A x \in there : Above(S, x) < pages * Limit => x \in seen

(* Every row that was there, down to the oldest of a page, has been shown.  *)
DownTo(there, chunk, seen) == \A x \in there : (\E y \in chunk : x >= y) => x \in seen

(* The read position: what has been covered once an answer is shown, while  *)
(* the next page is on its way, and when its rows have been read.           *)
WalkCovers ==
  /\ request.at # "none" => request.page = pageNo /\ request.page >= 1
  /\ request.at = "counted" /\ ~walk.raced => request.total = Cardinality(logs)
  /\ request.rows \subseteq logs /\ earlier.rows \subseteq logs /\ walk.there \subseteq logs
  /\ walk.steady /\ request.at = "none" =>
       /\ Covered(logs, walk.there, pageNo, walk.met) /\ DownTo(walk.there, shown, walk.met)
       /\ ~walk.raced /\ pageNo >= totalPages => walk.there \subseteq walk.met
  /\ walk.steady /\ request.at \in {"sent", "counted"} =>
       request.page = 1 \/ Covered(logs, walk.there, request.page - 1, walk.met)
  /\ request.at = "selected" /\ (walk.steady \/ request.page = 1) =>
       LET seen == walk.met \cup request.rows IN
       /\ Covered(logs, walk.there, request.page, seen) /\ DownTo(walk.there, request.rows, seen)
       /\ ~walk.raced /\ request.page >= PageCount(request.total) => walk.there \subseteq seen

PagerInv == PagerTypeOK /\ WalkCovers

RequestShape == [at : {"none", "sent", "counted", "selected"}, page : 0..MaxLogs + 1,
                 total : 0..MaxLogs, rows : SUBSET Logs]
WalkShape == [there : SUBSET Logs, met : SUBSET Logs, steady : BOOLEAN, raced : BOOLEAN]

LEMMA PagerInitInv == PagerInit => PagerInv
<1> SUFFICES ASSUME PagerInit PROVE PagerInv
  OBVIOUS
<1>1. /\ 1 \in 1..MaxLogs + 1 /\ 1 \in 0..MaxLogs + 1 /\ 0 \in 0..MaxLogs
      /\ \A n \in 0..MaxLogs : 1..n \subseteq Logs
  BY LimitAssumption DEF Logs
<1>2. logs \subseteq Logs
  BY <1>1 DEF PagerInit
<1>3. /\ request \in RequestShape /\ request.at = "sent" /\ request.page = 1 /\ request.rows = {}
      /\ earlier \in RequestShape /\ earlier.rows = {}
  <2>1. NoRequest \in RequestShape /\ NoRequest.rows = {}
    BY LimitAssumption DEF NoRequest, RequestShape
  <2>2. earlier = NoRequest /\ request = [NoRequest EXCEPT !.at = "sent", !.page = 1]
    BY DEF PagerInit
  <2> QED
    BY <1>1, <2>1, <2>2 DEF RequestShape
<1>4. PagerTypeOK
  <2>1. {request, earlier} \subseteq RequestShape
    BY <1>3
  <2>2. walk \in [there : SUBSET Logs, met : SUBSET Logs, steady : BOOLEAN, raced : BOOLEAN]
    BY DEF PagerInit, NoWalk
  <2> QED
    BY <1>1, <1>2, <2>1, <2>2 DEF PagerInit, PagerTypeOK, RequestShape
<1>5. WalkCovers
  BY <1>3 DEF PagerInit, WalkCovers, Covered, DownTo, NoWalk
<1> QED
  BY <1>4, <1>5 DEF PagerInv

(* Rows that are added push none to an earlier page. *)
LEMMA StaysCovered ==
  ASSUME NEW S \in SUBSET Logs, NEW T \in SUBSET Logs, S \subseteq T, NEW there, NEW seen,
         NEW pages \in Nat, Covered(S, there, pages, seen)
  PROVE  Covered(T, there, pages, seen)
<1>1. pages * Limit \in Nat
  BY Products
<1> SUFFICES ASSUME NEW x \in there, Above(T, x) < pages * Limit
             PROVE  x \in seen
  BY DEF Covered
<1>2. Above(S, x) < pages * Limit
  BY <1>1, AboveGrows
<1> QED
  BY <1>2 DEF Covered

(* So do fewer pages. *)
LEMMA LessIsCovered ==
  ASSUME NEW S \in SUBSET Logs, NEW there, NEW seen, NEW p \in Nat, NEW q \in Nat, q <= p,
         Covered(S, there, p, seen)
  PROVE  Covered(S, there, q, seen)
<1>1. p * Limit \in Nat /\ q * Limit \in Nat /\ q * Limit <= p * Limit
  BY Products
<1> SUFFICES ASSUME NEW x \in there, Above(S, x) < q * Limit
             PROVE  x \in seen
  BY DEF Covered
<1>2. Above(S, x) < p * Limit
  BY <1>1, AboveGrows
<1> QED
  BY <1>2 DEF Covered

(* The rows of a page. *)
ChunkOf(S, p) ==
  {x \in S : Above(S, x) >= Offset(p, Limit) /\ Above(S, x) < Offset(p, Limit) + Limit}

(* What a page adds: read after the pages before it, it leaves no gap. *)
LEMMA PageCovers ==
  ASSUME NEW S \in SUBSET Logs, NEW there \in SUBSET S, NEW met, NEW p \in Nat \ {0},
         p = 1 \/ Covered(S, there, p - 1, met)
  PROVE  LET seen == met \cup ChunkOf(S, p) IN
         /\ Covered(S, there, p, seen) /\ DownTo(there, ChunkOf(S, p), seen)
         /\ p >= PageCount(Cardinality(S)) => there \subseteq seen
<1> DEFINE chunk == {x \in S : Above(S, x) >= Offset(p, Limit) /\ Above(S, x) < Offset(p, Limit) + Limit}
<1>0. chunk = ChunkOf(S, p)
  BY DEF ChunkOf
<1>1. /\ Offset(p, Limit) \in Nat /\ Offset(p, Limit) + Limit = p * Limit
      /\ Offset(p, Limit) = (p - 1) * Limit /\ p * Limit \in Nat
  BY Products
<1>2. \A x \in S : Above(S, x) \in Nat
  BY AboveGrows
<1>3. p = 1 => Offset(p, Limit) = 0
  BY LimitAssumption DEF Offset
<1>4. ASSUME NEW x \in there, Above(S, x) < p * Limit
      PROVE  x \in met \cup chunk
  <2>1. CASE Above(S, x) >= Offset(p, Limit)
    BY <1>1, <1>4, <2>1
  <2>2. CASE Above(S, x) < Offset(p, Limit)
    BY <1>1, <1>2, <1>3, <2>2 DEF Covered
  <2> QED
    BY <1>1, <1>2, <2>1, <2>2
<1>5. Covered(S, there, p, met \cup chunk)
  BY <1>4 DEF Covered
<1>6. ASSUME NEW x \in there, NEW y \in chunk, x >= y
      PROVE  x \in met \cup chunk
  <2>1. x \in Logs /\ y \in Logs /\ y \in S /\ Above(S, y) < p * Limit
    BY <1>1
  <2>2. Above(S, x) <= Above(S, y)
    BY <1>6, <2>1, AboveFalls
  <2> QED
    BY <1>1, <1>2, <1>4, <2>1, <2>2
<1>7. ASSUME p >= PageCount(Cardinality(S)), NEW x \in there
      PROVE  x \in met \cup chunk
  <2>1. Cardinality(S) \in 0..MaxLogs
    BY LogShape
  <2>2. p * Limit >= Cardinality(S)
    BY <1>7, <2>1, PagesInOrder
  <2>3. x \in Logs /\ x >= x
    BY LimitAssumption DEF Logs
  <2>4. Above(S, x) < Cardinality(S)
    BY <2>3, AboveFalls
  <2>5. Cardinality(S) \in Nat
    BY <2>1, LimitAssumption
  <2> QED
    BY <1>1, <1>2, <1>4, <2>2, <2>4, <2>5
<1> HIDE DEF chunk
<1> QED
  BY <1>0, <1>5, <1>6, <1>7 DEF DownTo

LEMMA PagerNextInv == PagerInv /\ [PagerNext]_logVars => PagerInv'
<1> SUFFICES ASSUME PagerInv, [PagerNext]_logVars
             PROVE  PagerInv'
  OBVIOUS
<1>t. /\ logs \subseteq Logs /\ writing \subseteq Logs
      /\ pageNo \in 1..MaxLogs + 1 /\ totalPages \in 0..MaxLogs /\ shown \subseteq logs
      /\ request \in RequestShape /\ earlier \in RequestShape
      /\ walk \in WalkShape /\ WalkCovers
  BY DEF PagerInv, PagerTypeOK, RequestShape, WalkShape
<1>p. /\ pageNo \in Nat \ {0} /\ request.page \in Nat
      /\ request.at # "none" => request.page = pageNo /\ request.page - 1 \in Nat
  BY <1>t, LimitAssumption DEF RequestShape, WalkCovers
<1>n. /\ NoRequest \in RequestShape /\ NoRequest.at = "none" /\ NoRequest.rows = {}
      /\ NoWalk \in WalkShape /\ ~NoWalk.steady /\ NoWalk.there = {}
  BY LimitAssumption DEF NoRequest, RequestShape, NoWalk, WalkShape
<1>0. ASSUME UNCHANGED <<logs, pageNo, request, earlier, shown, totalPages, walk>>, writing' \subseteq Logs
      PROVE  PagerInv'
  BY <1>0 DEF PagerInv, PagerTypeOK, WalkCovers, Covered, DownTo
<1>u. CASE UNCHANGED logVars
  BY <1>u, <1>0, <1>t DEF logVars
<1>1. CASE TakeId
  <2> DEFINE free == Logs \ (logs \cup writing)
  <2>1. free \in SUBSET Nat
    BY LimitAssumption DEF Logs
  <2>2. free # {} /\ writing' = writing \cup {Min(free)}
    BY <1>1, <1>t DEF TakeId
  <2>3. Min(free) \in Logs
    <3>1. Min(free) \in free
      <4> HIDE DEF free
      <4> QED
        BY <2>1, <2>2, MinFacts
    <3> QED
      BY <3>1
  <2> QED
    BY <1>0, <1>1, <1>t, <2>2, <2>3 DEF TakeId
<1>2. ASSUME NEW x \in Logs, RecordLog(x)
      PROVE  PagerInv'
  <2>1. /\ logs \subseteq logs' /\ logs' \subseteq Logs /\ writing' \subseteq Logs
        /\ walk' \in WalkShape /\ walk'.there = walk.there /\ walk'.met = walk.met
        /\ walk'.steady = walk.steady /\ walk'.raced = (walk.raced \/ request.at = "counted")
        /\ UNCHANGED <<pageNo, request, earlier, shown, totalPages>>
    BY <1>2, <1>t DEF RecordLog, WalkShape
  <2>2. ASSUME NEW n \in Nat, NEW seen, Covered(logs, walk.there, n, seen)
        PROVE  Covered(logs', walk.there, n, seen)
    BY <2>1, <2>2, <1>t, StaysCovered
  <2>3. PagerTypeOK'
    BY <2>1, <1>t DEF PagerTypeOK, RequestShape, WalkShape
  <2>4. WalkCovers'
    BY <2>1, <2>2, <1>t, <1>p DEF WalkCovers
  <2> QED
    BY <2>3, <2>4 DEF PagerInv
<1>3. CASE Count
  <2>1. ASSUME NEW r \in RequestShape
        PROVE  /\ Counted(r) \in RequestShape /\ Counted(r).at = "counted" /\ Counted(r).page = r.page
               /\ Counted(r).rows = r.rows /\ Counted(r).total = Cardinality(logs)
    <3>1. Cardinality(logs) \in 0..MaxLogs
      BY <1>t, LogShape
    <3> QED
      BY <2>1, <3>1 DEF Counted, RequestShape
  <2>2. UNCHANGED <<logs, writing, pageNo, shown, totalPages, walk>>
    BY <1>3 DEF Count
  <2>3. CASE request.at = "sent" /\ request' = Counted(request) /\ UNCHANGED earlier
    <3>1. PagerTypeOK'
      BY <2>1, <2>2, <2>3, <1>t DEF PagerTypeOK, RequestShape, WalkShape
    <3>2. WalkCovers'
      BY <2>1, <2>2, <2>3, <1>t DEF WalkCovers
    <3> QED
      BY <3>1, <3>2 DEF PagerInv
  <2>4. CASE earlier' = Counted(earlier) /\ UNCHANGED request
    <3>1. PagerTypeOK'
      BY <2>1, <2>2, <2>4, <1>t DEF PagerTypeOK, RequestShape, WalkShape
    <3>2. WalkCovers'
      BY <2>1, <2>2, <2>4, <1>t DEF WalkCovers
    <3> QED
      BY <3>1, <3>2 DEF PagerInv
  <2> QED
    BY <1>3, <2>3, <2>4 DEF Count
<1>4. CASE Select
  <2>1. ASSUME NEW r \in RequestShape
        PROVE  /\ Selected(r) \in RequestShape /\ Selected(r).at = "selected"
               /\ Selected(r).page = r.page /\ Selected(r).total = r.total
               /\ Selected(r).rows = ChunkOf(logs, r.page) /\ Selected(r).rows \subseteq logs
    <3>1. Selected(r) = [r EXCEPT !.at = "selected", !.rows = ChunkOf(logs, r.page)]
      BY DEF Selected, Newer, Above, ChunkOf
    <3>2. ChunkOf(logs, r.page) \subseteq logs
      BY DEF ChunkOf
    <3> QED
      BY <2>1, <3>1, <3>2, <1>t DEF RequestShape
  <2>2. UNCHANGED <<logs, writing, pageNo, shown, totalPages>>
    BY <1>4 DEF Select
  <2>3. CASE earlier' = Selected(earlier) /\ UNCHANGED <<request, walk>>
    <3>1. PagerTypeOK'
      BY <2>1, <2>2, <2>3, <1>t DEF PagerTypeOK, RequestShape, WalkShape
    <3>2. WalkCovers'
      BY <2>1, <2>2, <2>3, <1>t DEF WalkCovers
    <3> QED
      BY <3>1, <3>2 DEF PagerInv
  <2>4. CASE /\ request.at = "counted" /\ request' = Selected(request) /\ UNCHANGED earlier
             /\ walk' = IF request.page = 1 THEN [walk EXCEPT !.there = logs, !.met = {}] ELSE walk
    <3> DEFINE chunk == ChunkOf(logs, request.page)
    <3>3. request.page \in Nat \ {0}
      BY <1>p, <2>4
    <3>4. ASSUME NEW there \in SUBSET logs, NEW met,
                 request.page = 1 \/ Covered(logs, there, request.page - 1, met)
          PROVE  /\ Covered(logs, there, request.page, met \cup chunk)
                 /\ DownTo(there, chunk, met \cup chunk)
                 /\ request.page >= PageCount(Cardinality(logs)) => there \subseteq met \cup chunk
      <4>1. logs \in SUBSET Logs
        BY <1>t
      <4> QED
        BY <3>3, <3>4, <4>1, PageCovers
    <3>5. /\ request' \in RequestShape /\ request'.at = "selected" /\ request'.rows = chunk
          /\ request'.page = request.page /\ request'.total = request.total /\ chunk \subseteq logs
      BY <2>1, <2>4, <1>t
    <3> HIDE DEF chunk
    <3>6. /\ walk' \in WalkShape /\ walk'.there \subseteq logs
          /\ walk'.steady = walk.steady /\ walk'.raced = walk.raced
          /\ request.page # 1 => walk'.there = walk.there /\ walk'.met = walk.met
      BY <2>4, <1>t DEF WalkShape, WalkCovers
    <3>7. walk.steady \/ request.page = 1
          => request.page = 1 \/ Covered(logs, walk'.there, request.page - 1, walk'.met)
      BY <2>4, <3>6, <1>t DEF WalkCovers
    <3>8. PagerTypeOK'
      BY <2>2, <2>4, <3>5, <3>6, <1>t DEF PagerTypeOK, RequestShape, WalkShape
    <3>9. ~walk.raced => request.total = Cardinality(logs)
      BY <2>4, <1>t DEF WalkCovers
    <3>10. walk.steady \/ request.page = 1
           => /\ Covered(logs, walk'.there, request.page, walk'.met \cup chunk)
              /\ DownTo(walk'.there, chunk, walk'.met \cup chunk)
              /\ request.page >= PageCount(Cardinality(logs)) => walk'.there \subseteq walk'.met \cup chunk
      BY <3>4, <3>6, <3>7
    <3>11. WalkCovers'
      BY <2>2, <2>4, <3>5, <3>6, <3>9, <3>10, <1>p, <1>t DEF WalkCovers
    <3> QED
      BY <3>8, <3>11 DEF PagerInv
  <2> QED
    BY <1>4, <2>3, <2>4 DEF Select
<1>a. ASSUME NEW r \in {request, earlier}, Shows(r)
      PROVE  shown' \subseteq logs /\ totalPages' \in 0..MaxLogs
             /\ shown' = r.rows /\ totalPages' = PageCount(r.total)
  BY <1>a, <1>t, PagesInOrder DEF Shows, RequestShape, WalkCovers
<1>5. CASE Answer
  <2> DEFINE counts == (walk.steady \/ request.page = 1) /\ earlier.at = "none"
  <2>1. /\ request.at = "selected" /\ Shows(request)
        /\ request' = NoRequest
        /\ walk' = IF counts THEN [walk EXCEPT !.met = @ \cup request.rows, !.steady = TRUE] ELSE NoWalk
        /\ UNCHANGED <<logs, writing, pageNo, earlier>>
    BY <1>5 DEF Answer
  <2>2. /\ walk' \in WalkShape /\ walk'.there \subseteq logs
        /\ walk'.steady => /\ walk.steady \/ request.page = 1
                           /\ walk'.there = walk.there /\ walk'.met = walk.met \cup request.rows
                           /\ walk'.raced = walk.raced
    BY <2>1, <1>t, <1>n DEF WalkShape, RequestShape, WalkCovers
  <2>3. PagerTypeOK'
    BY <1>a, <2>1, <2>2, <1>n, <1>t DEF PagerTypeOK, RequestShape, WalkShape
  <2>4. WalkCovers'
    BY <1>a, <2>1, <2>2, <1>n, <1>t, <1>p DEF WalkCovers
  <2> QED
    BY <2>3, <2>4 DEF PagerInv
<1>b. ASSUME UNCHANGED <<logs, writing, pageNo>>,
             request' \in {request, NoRequest}, earlier' \in {earlier, NoRequest},
             shown' \subseteq logs, totalPages' \in 0..MaxLogs,
             walk' = IF request'.at = "none" THEN NoWalk ELSE [walk EXCEPT !.steady = FALSE]
      PROVE  PagerInv'
  <2>1. /\ walk' \in WalkShape /\ ~walk'.steady /\ walk'.there \subseteq logs
        /\ request'.at # "none" => /\ request' = request
                                   /\ walk'.there = walk.there /\ walk'.met = walk.met
                                   /\ walk'.raced = walk.raced
    BY <1>b, <1>n, <1>t DEF WalkShape, WalkCovers
  <2>2. PagerTypeOK'
    BY <1>b, <2>1, <1>n, <1>t DEF PagerTypeOK, RequestShape, WalkShape
  <2>3. WalkCovers'
    BY <1>b, <2>1, <1>n, <1>t DEF WalkCovers
  <2> QED
    BY <2>2, <2>3 DEF PagerInv
<1>6. CASE Fails
  BY <1>b, <1>6, <1>t DEF Fails
<1>c. CASE EarlierAnswer
  <2>1. /\ Shows(earlier) /\ earlier' = NoRequest /\ UNCHANGED <<logs, writing, pageNo, request>>
        /\ walk' = IF request'.at = "none" THEN NoWalk ELSE [walk EXCEPT !.steady = FALSE]
    BY <1>c DEF EarlierAnswer
  <2> QED
    BY <1>a, <1>b, <2>1
<1>7. ASSUME NEW next \in 1..MaxLogs + 1, next <= pageNo + 1, Ask(next)
      PROVE  PagerInv'
  <2> DEFINE new == [NoRequest EXCEPT !.at = "sent", !.page = next]
  <2>1. /\ pageNo' = next /\ request' = new
        /\ earlier' \in {earlier, request}
        /\ UNCHANGED <<logs, writing, shown, totalPages>>
    BY <1>7 DEF Ask
  <2>2. next \in Nat \ {0}
    BY <1>7, LimitAssumption
  <2>3. new \in RequestShape /\ new.at = "sent" /\ new.page = next /\ new.rows = {}
    <3>1. next \in 0..MaxLogs + 1
      BY <1>7, LimitAssumption
    <3> QED
      BY <3>1, <1>n DEF RequestShape
  <2> HIDE DEF new
  <2>4. /\ walk' \in WalkShape /\ walk'.there \subseteq logs
        /\ next # 1 /\ walk'.steady => /\ walk.steady /\ request.at = "none" /\ next >= pageNo
                                       /\ walk'.there = walk.there /\ walk'.met = walk.met
    BY <1>7, <1>t, <1>n DEF Ask, WalkShape, NoWalk, WalkCovers
  <2>5. PagerTypeOK'
    BY <2>1, <2>3, <2>4, <1>7, <1>t DEF PagerTypeOK, RequestShape, WalkShape
  <2>6. walk'.steady => next = 1 \/ Covered(logs, walk'.there, next - 1, walk'.met)
    <3> SUFFICES ASSUME walk'.steady, next # 1
                 PROVE  Covered(logs, walk.there, next - 1, walk.met)
      BY <2>4
    <3>1. Covered(logs, walk.there, pageNo, walk.met)
      BY <2>4, <1>t DEF WalkCovers
    <3>2. next - 1 \in Nat /\ next - 1 <= pageNo
      BY <2>2, <1>7, <1>p
    <3> QED
      BY <3>1, <3>2, <1>t, <1>p, LessIsCovered
  <2>7. WalkCovers'
    BY <2>1, <2>2, <2>3, <2>4, <2>6, <1>t DEF WalkCovers
  <2> QED
    BY <2>5, <2>7 DEF PagerInv
<1>8. CASE Back \/ Forward \/ Refresh
  BY <1>7, <1>8, <1>t, LimitAssumption DEF Back, Forward, Refresh
<1> QED
  BY <1>u, <1>1, <1>2, <1>3, <1>4, <1>5, <1>6, <1>c, <1>8 DEF PagerNext

(* Paging forward, waiting for each page, misses no row that was there      *)
(* (logs/service.ts:24), for any length of pages and any rows added.        *)
THEOREM NothingIsMissed == PagerSpec => []PagingMissesNothing
<1>1. PagerInv => PagingMissesNothing
  <2> SUFFICES ASSUME PagerInv, request.at = "none", walk.steady, shown # {},
                      NEW x \in walk.there, x >= Min(shown)
               PROVE  x \in walk.met
    BY DEF PagingMissesNothing
  <2>1. shown \subseteq Nat
    BY LimitAssumption DEF PagerInv, PagerTypeOK, Logs
  <2>2. Min(shown) \in shown
    BY <2>1, MinFacts
  <2> QED
    BY <2>2 DEF PagerInv, WalkCovers, DownTo
<1> QED
  BY PagerInitInv, PagerNextInv, <1>1, PTL DEF PagerSpec

(* The last page holds the oldest rows that were there, unless a row came   *)
(* between its count and its select (LogPage.vue:105).                      *)
THEOREM LastPageEnds == PagerSpec => []LastPageIsTheEnd
<1>1. PagerInv => LastPageIsTheEnd
  BY DEF PagerInv, WalkCovers, LastPageIsTheEnd
<1> QED
  BY PagerInitInv, PagerNextInv, <1>1, PTL DEF PagerSpec

-----------------------------------------------------------------------------
(* The page of a row.  Only the last read sent is sure to be for the row of  *)
(* the route, and its answer is what counts: until it has come, heard and    *)
(* asked differ.                                                             *)
DetailInv ==
  /\ DetailTypeOK
  /\ heard <= asked
  /\ place \notin Rows => card = NoRow /\ reads = {} /\ ~failed
  /\ place \in Rows => 0 < mounted /\ mounted <= asked
  /\ \A l \in reads : l.n <= asked /\ (l.n = asked => l.row = place)
  /\ place \in Rows /\ heard = asked => failed \/ card = place

LEMMA DetailInitInv == DetailInit => DetailInv
<1> SUFFICES ASSUME DetailInit PROVE DetailInv
  OBVIOUS
<1>1. place = Elsewhere /\ Elsewhere \notin Rows /\ MaxReads \in Nat
  BY DetailAssumption DEF DetailInit, place
<1>2. trail \in Seq(Places) /\ pos \in 1..Len(trail)
  BY DEF DetailInit, Places
<1>3. DetailTypeOK
  <2>1. mounted \in 0..MaxReads /\ asked \in 0..MaxReads /\ heard \in 0..MaxReads
    BY <1>1 DEF DetailInit
  <2>2. standing \subseteq Rows /\ reads = {} /\ removals = {} /\ failed \in BOOLEAN
    BY DEF DetailInit
  <2>3. card \in Rows \cup {NoRow} /\ editor \in Rows \cup {NoRow}
    BY DEF DetailInit
  <2> QED
    BY <1>2, <2>1, <2>2, <2>3 DEF DetailTypeOK
<1> QED
  BY <1>1, <1>3 DEF DetailInit, DetailInv

(* Wherever the tab goes, a read of the row it comes to is the last one sent, *)
(* unless it was on the page of that row already.                            *)
LEMMA ArriveKeepsReads ==
  ASSUME DetailInv, NEW to \in Places, Arrive(to), place' = to,
         trail' \in Seq(Places), pos' \in 1..Len(trail'),
         UNCHANGED <<standing, heard>>,
         removals' \subseteq removals
  PROVE  DetailInv'
<1>0. /\ MaxReads \in Nat /\ Elsewhere \notin Rows
      /\ asked \in 0..MaxReads /\ heard \in 0..MaxReads /\ heard <= asked
      /\ reads \subseteq [n : 1..MaxReads, row : Rows, reply : Replies]
      /\ card \in Rows \cup {NoRow} /\ editor \in Rows \cup {NoRow}
  BY DetailAssumption DEF DetailInv, DetailTypeOK
<1>1. ASSUME to \in Rows, asked < MaxReads
      PROVE  /\ Read(to) \in [n : 1..MaxReads, row : Rows, reply : Replies]
             /\ Read(to).n = asked + 1 /\ Read(to).row = to
  BY <1>0, <1>1 DEF Read, Replies
<1>2. CASE to \in Rows /\ place \in Rows /\ PageOf[to] = PageOf[place] /\ to = place
  <2>1. UNCHANGED <<asked, reads, mounted, card, failed, editor>>
    BY <1>2 DEF Arrive
  <2> QED
    BY <1>2, <2>1 DEF DetailInv, DetailTypeOK
<1>3. CASE to \in Rows /\ place \in Rows /\ PageOf[to] = PageOf[place] /\ to # place
  <2>1. /\ asked < MaxReads /\ asked' = asked + 1 /\ reads' = reads \cup {Read(to)}
        /\ UNCHANGED <<mounted, card, failed, editor>>
    BY <1>3 DEF Arrive
  <2>2. DetailTypeOK'
    BY <1>0, <1>1, <1>3, <2>1 DEF DetailInv, DetailTypeOK
  <2>3. \A l \in reads' : l.n <= asked' /\ (l.n = asked' => l.row = to)
    BY <1>0, <1>1, <1>3, <2>1 DEF DetailInv
  <2>4. 0 < mounted' /\ mounted' <= asked' /\ heard' <= asked' /\ heard' # asked'
    BY <1>0, <1>3, <2>1 DEF DetailInv, DetailTypeOK
  <2> QED
    BY <1>3, <2>2, <2>3, <2>4 DEF DetailInv
<1>4. CASE ~(to \in Rows /\ place \in Rows /\ PageOf[to] = PageOf[place])
  <2>1. card' = NoRow /\ failed' = FALSE /\ editor' = NoRow /\ mounted' = IF to \in Rows THEN asked + 1 ELSE 0
    BY <1>4 DEF Arrive
  <2>2. CASE to \in Rows
    <3>1. asked < MaxReads /\ asked' = asked + 1 /\ reads' = {Read(to)}
      BY <1>4, <2>2 DEF Arrive
    <3>2. DetailTypeOK'
      <4>1. asked' \in 0..MaxReads /\ mounted' \in 0..MaxReads
        BY <1>0, <2>1, <2>2, <3>1
      <4>2. reads' \subseteq [n : 1..MaxReads, row : Rows, reply : Replies]
        BY <1>1, <2>2, <3>1
      <4>3. failed' \in BOOLEAN /\ card' \in Rows \cup {NoRow} /\ editor' \in Rows \cup {NoRow}
        BY <2>1
      <4> QED
        BY <4>1, <4>2, <4>3 DEF DetailInv, DetailTypeOK
    <3> QED
      BY <1>0, <1>1, <2>1, <2>2, <3>1, <3>2 DEF DetailInv
  <2>3. CASE to \notin Rows
    <3>1. asked' = asked /\ reads' = {}
      BY <1>4, <2>3 DEF Arrive
    <3>2. DetailTypeOK'
      <4>1. mounted' \in 0..MaxReads
        BY <1>0, <2>1, <2>3
      <4>3. failed' \in BOOLEAN
        BY <2>1
      <4>2. card' \in Rows \cup {NoRow} /\ editor' \in Rows \cup {NoRow}
        BY <2>1
      <4> QED
        BY <3>1, <4>1, <4>2, <4>3 DEF DetailInv, DetailTypeOK
    <3> QED
      BY <1>0, <2>1, <2>3, <3>1, <3>2 DEF DetailInv
  <2> QED
    BY <2>2, <2>3
<1> QED
  BY <1>2, <1>3, <1>4

LEMMA GoToKeeps ==
  ASSUME DetailInv, NEW i \in 1..Len(trail), GoTo(i), removals' \subseteq removals
  PROVE  DetailInv'
<1>1. trail \in Seq(Places) /\ trail[i] \in Places
  BY DEF DetailInv, DetailTypeOK
<1>2. place' = trail[i] /\ trail' = trail /\ pos' = i
  BY DEF GoTo, place
<1> QED
  BY <1>1, <1>2, ArriveKeepsReads DEF GoTo

LEMMA VisitKeeps ==
  ASSUME DetailInv, NEW to \in Places, Visit(to)
  PROVE  DetailInv'
<1>1. trail \in Seq(Places) /\ pos \in 1..Len(trail) /\ pos \in Nat
  BY DEF DetailInv, DetailTypeOK
<1> DEFINE past == SubSeq(trail, 1, pos)
<1>2. past \in Seq(Places) /\ Len(past) = pos
  BY <1>1
<1> HIDE DEF past
<1>3. Append(past, to) \in Seq(Places) /\ Len(Append(past, to)) = pos + 1 /\ Append(past, to)[pos + 1] = to
  BY <1>1, <1>2
<1>4. trail' = Append(past, to) /\ pos' = pos + 1
  BY DEF Visit, past
<1>5. trail' \in Seq(Places) /\ pos' \in 1..Len(trail') /\ place' = to
  BY <1>1, <1>3, <1>4 DEF place
<1> QED
  BY <1>5, ArriveKeepsReads DEF Visit

(* Answers, and a read of the same row again. *)
LEMMA ReadKeeps ==
  ASSUME DetailInv, (\E l \in reads : ServeRead(l) \/ ReadArrives(l)) \/ Retry
  PROVE  DetailInv'
<1> DEFINE T == [n : 1..MaxReads, row : Rows, reply : Replies]
<1>0. /\ MaxReads \in Nat /\ Elsewhere \notin Rows /\ reads \subseteq T
      /\ asked \in 0..MaxReads /\ heard \in 0..MaxReads /\ heard <= asked
      /\ trail \in Seq(Places) /\ pos \in 1..Len(trail) /\ place \in Places
  BY DetailAssumption DEF DetailInv, DetailTypeOK, place
<1>1. ASSUME NEW l \in reads, ServeRead(l) PROVE DetailInv'
  <2> DEFINE m == [l EXCEPT !.reply = IF l.row \in standing THEN "ok" ELSE "error"]
  <2>1. m \in T /\ m.n = l.n /\ m.row = l.row /\ reads' = (reads \ {l}) \cup {m}
    BY <1>0, <1>1 DEF ServeRead, Replies
  <2> HIDE DEF m
  <2>2. DetailTypeOK'
    BY <1>0, <1>1, <2>1 DEF ServeRead, DetailInv, DetailTypeOK
  <2>3. \A x \in reads' : x.n <= asked /\ (x.n = asked => x.row = place)
    BY <2>1 DEF DetailInv
  <2>4. place' = place /\ reads # {}
    BY <1>1 DEF ServeRead, place
  <2> QED
    BY <1>1, <2>2, <2>3, <2>4 DEF ServeRead, DetailInv
<1>2. ASSUME NEW l \in reads, ReadArrives(l) PROVE DetailInv'
  <2>1. l \in T /\ l.n <= asked /\ (l.n = asked => l.row = place) /\ place \in Rows
    BY <1>0, <1>2 DEF DetailInv, Places
  <2>2. place' = place
    BY <1>2 DEF ReadArrives, place
  <2>3. DetailTypeOK'
    <3>1. heard' \in 0..MaxReads /\ reads' \subseteq T
      BY <1>0, <1>2, <2>1 DEF ReadArrives
    <3>2. card' \in Rows \cup {NoRow} /\ failed' \in BOOLEAN
      BY <1>2, <2>1 DEF ReadArrives, DetailInv, DetailTypeOK
    <3> QED
      BY <1>2, <3>1, <3>2 DEF ReadArrives, DetailInv, DetailTypeOK
  <2>4. heard' = asked' => failed' \/ card' = place
    BY <1>2, <2>1 DEF ReadArrives
  <2> QED
    BY <1>0, <1>2, <2>1, <2>2, <2>3, <2>4 DEF ReadArrives, DetailInv
<1>3. CASE Retry
  <2>1. place \in Rows
    BY <1>3 DEF Retry, DetailInv
  <2>2. Read(place) \in T /\ Read(place).n = asked + 1 /\ Read(place).row = place
    BY <1>0, <1>3, <2>1 DEF Read, Replies, Retry
  <2>3. place' = place /\ reads' = reads \cup {Read(place)} /\ asked' = asked + 1
    BY <1>3 DEF Retry, place
  <2>4. DetailTypeOK'
    BY <1>0, <1>3, <2>2, <2>3 DEF Retry, DetailInv, DetailTypeOK
  <2>5. \A x \in reads' : x.n <= asked' /\ (x.n = asked' => x.row = place)
    BY <1>0, <2>2, <2>3 DEF DetailInv
  <2>6. 0 < mounted /\ mounted <= asked' /\ heard <= asked' /\ heard # asked' /\ UNCHANGED <<mounted, heard>>
    BY <1>0, <1>3, <2>1, <2>3 DEF Retry, DetailInv, DetailTypeOK
  <2> QED
    BY <2>1, <2>3, <2>4, <2>5, <2>6 DEF DetailInv
<1> QED
  BY <1>1, <1>2, <1>3

(* The buttons, and the removals of this tab and others. *)
LEMMA ButtonKeeps ==
  ASSUME DetailInv,
         \/ ClickEdit \/ EditorCloses \/ ConfirmRemoval
         \/ \E r \in removals : ServeRemoval(r) \/ RemovalArrives(r) \/ RemovalFails(r)
         \/ \E row \in Rows : RemovedElsewhere(row)
  PROVE  DetailInv'
<1> DEFINE T == [row : Rows, by : 1..MaxReads, reply : Replies]
<1>0. /\ MaxReads \in Nat /\ asked \in 0..MaxReads /\ mounted \in 0..MaxReads /\ removals \subseteq T
      /\ trail \in Seq(Places) /\ pos \in 1..Len(trail) /\ card \in Rows \cup {NoRow}
  BY DetailAssumption DEF DetailInv, DetailTypeOK
<1>1. ASSUME UNCHANGED <<trail, pos, mounted, card, reads, asked, heard, failed>>,
             standing' \subseteq Rows, editor' \in Rows \cup {NoRow}, removals' \subseteq T
      PROVE  DetailInv'
  <2>1. place' = place
    BY <1>1 DEF place
  <2>2. DetailTypeOK'
    BY <1>1 DEF DetailInv, DetailTypeOK
  <2> QED
    BY <1>1, <2>1, <2>2 DEF DetailInv
<1>2. CASE ClickEdit
  BY <1>0, <1>1, <1>2 DEF ClickEdit, DetailInv, DetailTypeOK
<1>3. CASE EditorCloses
  BY <1>0, <1>1, <1>3 DEF EditorCloses, DetailInv, DetailTypeOK
<1>4. CASE ConfirmRemoval
  <2>1. place \in Rows /\ mounted \in 1..MaxReads
    BY <1>0, <1>4 DEF ConfirmRemoval, DetailInv
  <2>2. removals' \subseteq T
    BY <1>0, <1>4, <2>1 DEF ConfirmRemoval, Replies
  <2> QED
    BY <1>1, <1>4, <2>2 DEF ConfirmRemoval, DetailInv, DetailTypeOK
<1>5. ASSUME NEW r \in removals, ServeRemoval(r) PROVE DetailInv'
  <2>1. [r EXCEPT !.reply = IF r.row \in standing THEN "ok" ELSE "error"] \in T
    BY <1>0 DEF Replies
  <2>2. removals' \subseteq T
    BY <1>0, <1>5, <2>1 DEF ServeRemoval
  <2> QED
    BY <1>1, <1>5, <2>2 DEF ServeRemoval, DetailInv, DetailTypeOK
<1>6. ASSUME NEW r \in removals, RemovalArrives(r) PROVE DetailInv'
  <2>1. CASE pos > 1
    <3>1. pos - 1 \in 1..Len(trail) /\ GoTo(pos - 1) /\ removals' \subseteq removals
      BY <1>0, <1>6, <2>1 DEF RemovalArrives
    <3> QED
      BY <3>1, GoToKeeps
  <2>2. CASE ~(pos > 1)
    BY <1>0, <1>1, <1>6, <2>2 DEF RemovalArrives, DetailInv, DetailTypeOK
  <2> QED
    BY <2>1, <2>2
<1>7. ASSUME NEW r \in removals, RemovalFails(r) PROVE DetailInv'
  BY <1>0, <1>1, <1>7 DEF RemovalFails, DetailInv, DetailTypeOK
<1>8. ASSUME NEW row \in Rows, RemovedElsewhere(row) PROVE DetailInv'
  BY <1>0, <1>1, <1>8 DEF RemovedElsewhere, DetailInv, DetailTypeOK
<1> QED
  BY <1>2, <1>3, <1>4, <1>5, <1>6, <1>7, <1>8

LEMMA DetailNextInv == DetailInv /\ [DetailNext]_detailVars => DetailInv'
<1> SUFFICES ASSUME DetailInv, [DetailNext]_detailVars PROVE DetailInv'
  OBVIOUS
<1>1. CASE UNCHANGED detailVars
  BY <1>1 DEF detailVars, DetailInv, DetailTypeOK, place
<1>2. ASSUME NEW i \in 1..Len(trail), Browse(i) PROVE DetailInv'
  BY <1>2, GoToKeeps DEF Browse
<1>3. CASE DetailNext
  BY <1>2, <1>3, VisitKeeps, ReadKeeps, ButtonKeeps DEF DetailNext
<1> QED
  BY <1>1, <1>3

(* However an admin goes through the history, and whichever answers are late *)
(* or lost, a page whose last read has been answered shows the row that its  *)
(* removal would remove.                                                     *)
THEOREM OneRow == DetailSpec => []ButtonsActOnOneRow
<1>1. DetailInv => ButtonsActOnOneRow
  BY DEF DetailInv, ButtonsActOnOneRow
<1> QED
  BY DetailInitInv, DetailNextInv, <1>1, PTL DEF DetailSpec

-----------------------------------------------------------------------------
(* The parts side by side (MCConsole). *)
LEMMA PartsStep ==
  [ConsoleNext]_consoleVars
  => /\ [StoreNext]_storeVars /\ [RegistryNext]_registryVars /\ [SettingsNext]_settingVars
     /\ [SessionNext]_sessionVars /\ [PageNext]_pageVars /\ [PagerNext]_logVars
     /\ [DetailNext]_detailVars
     /\ part' = part
BY DEF ConsoleNext, consoleVars

(* What the console does is, part by part, what each part does alone: so    *)
(* every theorem about a part is one about the console.                     *)
THEOREM PartsAreAlone ==
  ConsoleSpec => /\ StoreSpec /\ RegistrySpec /\ SettingsSpec
                 /\ SessionSpec /\ PageSpec /\ PagerSpec /\ DetailSpec
<1>1. ConsoleInit => /\ StoreInit /\ RegistryInit /\ SettingsInit
                     /\ SessionInit /\ PageInit /\ PagerInit /\ DetailInit
  BY DEF ConsoleInit
<1> QED
  BY <1>1, PartsStep, PTL
     DEF ConsoleSpec, StoreSpec, RegistrySpec, SettingsSpec, SessionSpec, PageSpec, PagerSpec,
         DetailSpec

(* Every part of the console stays well typed: rows and references, forms,  *)
(* settings, tabs, loads, pages of log lines and pages of a row.            *)
THEOREM ConsoleTypes == ConsoleSpec => []ConsoleTypeOK
<1> DEFINE Typed == /\ StoreTypeOK /\ RegistryTypeOK /\ SettingsTypeOK
                    /\ SessionTypeOK /\ PageTypeOK /\ PagerTypeOK /\ DetailTypeOK
           Invs == /\ ReferenceInv /\ TokenInv /\ RegistryInv /\ SettingsInv
                   /\ SessionInv /\ PageInv /\ PagerInv /\ DetailInv
<1>1. ConsoleInit => Invs /\ part \in Parts
  BY StoreInitInv, RegistryInitInv, SettingsInitInv, SessionInitInv, PageInitInv, PagerInitInv,
     DetailInitInv
     DEF ConsoleInit
<1>2. Invs /\ part \in Parts /\ [ConsoleNext]_consoleVars => Invs' /\ part' \in Parts
  BY PartsStep, StoreStep, RegistryNextInv, SettingsNextInv, SessionNextInv, PageNextInv,
     PagerNextInv, DetailNextInv
<1>3. Invs => Typed
  BY DEF ReferenceInv, RegistryInv, SettingsInv, SessionInv, PageInv, PagerInv, DetailInv
<1>4. Typed /\ part \in Parts => ConsoleTypeOK
  BY DEF ConsoleTypeOK, Parts
<1>5. (part \in Parts)' <=> part' \in Parts
  BY DEF Parts
<1> HIDE DEF Typed, Invs
<1> QED
  BY <1>1, <1>2, <1>3, <1>4, <1>5, PTL DEF ConsoleSpec
=============================================================================
