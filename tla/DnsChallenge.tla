---------------------------- MODULE DnsChallenge ----------------------------
(***************************************************************************)
(* DNS-01 challenges of ACME orders (core/pki/issue.ts, resolve.ts,        *)
(* utils/dns-clients, utils/dig-resolver.ts).  An order has a challenge    *)
(* for each authorisation: a TXT record to publish, to be looked up and to *)
(* take down.  Orders of different Workers, and the challenges of one,     *)
(* work on the same names at once: the wildcard and the apex share one     *)
(* _acme-challenge name and no lock.  A publication lists the records and  *)
(* creates later; a removal lists and deletes later, record by record.     *)
(***************************************************************************)
EXTENDS Naturals, Sequences, FiniteSets

CONSTANTS
  Orders,       \* calls of runAcme
  Challenges,   \* their dns-01 challenges
  OrderOf,      \* the order of a challenge
  Bare,         \* the bare name of a challenge
  Value,        \* its key authorisation
  Zones,        \* names that rows of Domain may have
  Tables,       \* Domain tables there may be
  Suffixes,     \* the suffixes of a bare name, longest first
  Creds,        \* DNS credentials
  Filled,       \* those with creds that are not null
  Alicloud,     \* those of provider alicloud
  Contains,     \* pairs of names of which the first contains the second
  Foreign,      \* records of others
  FirstId,      \* ids from here on are not taken
  Unbound,      \* a domain without credential
  Unregistered, \* a name without a row
  PageSize,     \* records the provider lists at most
  MaxEdits, MaxErrors, MaxRecords   \* bounds

VARIABLES
  domains,   \* the Domain table: the credential of each zone
  place,     \* domainZones: zone and credential of each challenge
  records,   \* TXT records at the providers
  nextId,    \* their ids
  order,     \* where each order is
  at,        \* where each challenge is
  matched,   \* what removeTxt has listed and not yet deleted
  edits, errors,   \* used up of the bounds
  skipped    \* history: ids of records that a removal should have come to and did not

provider == <<records, nextId>>
vars == <<domains, place, records, nextId, order, at, matched, edits, errors, skipped>>

Names == {Bare[c] : c \in Challenges}
NoPlace == [zone |-> Unregistered, cred |-> Unbound]
Place  == [zone: Zones \cup {Unregistered}, cred: Creds \cup {Unbound}]
Record == [id: Nat, zone: Zones, name: Names, text: {Value[c] : c \in Challenges}, quoted: BOOLEAN]

ASSUME OrdersAssumption ==
  /\ OrderOf \in [Challenges -> Orders]
  /\ Tables \subseteq [Zones -> Creds \cup {Unbound, Unregistered}]
  /\ Suffixes \in [Names -> Seq(Zones)]
  /\ Filled \subseteq Creds /\ Alicloud \subseteq Creds
  /\ Unbound \notin Creds /\ Unregistered \notin Zones
ASSUME ForeignAssumption ==
  /\ \A x \in Foreign : x.id \in Nat /\ x.id < FirstId /\ x.text \notin {Value[c] : c \in Challenges}
  /\ \A x, y \in Foreign : x.id = y.id => x = y
ASSUME SizesAssumption == {FirstId, PageSize, MaxEdits, MaxErrors, MaxRecords} \subseteq Nat

Publishing == {"listing", "creating", "created", "offered"}
Removing   == {"clean", "deleting"}

TypeOK ==
  /\ domains \in [Zones -> Creds \cup {Unbound, Unregistered}]
  /\ place \in [Challenges -> Place]
  /\ records \subseteq Record \cup Foreign
  /\ nextId \in Nat
  /\ order \in [Orders -> {"new", "running", "issued", "failed", "dead"}]
  /\ at \in [Challenges -> Publishing \cup Removing
                           \cup {"idle", "done"}]
  /\ matched \in [Challenges -> SUBSET Nat]
  /\ edits \in 0 .. MaxEdits /\ errors \in 0 .. MaxErrors
  /\ skipped \subseteq Nat

Init ==
  /\ domains \in Tables
  /\ place = [c \in Challenges |-> NoPlace]
  /\ records = Foreign
  /\ nextId = FirstId
  /\ order = [o \in Orders |-> "new"]
  /\ at = [c \in Challenges |-> "idle"]
  /\ matched = [c \in Challenges |-> {}]
  /\ edits = 0 /\ errors = 0
  /\ skipped = {}

-----------------------------------------------------------------------------
(* resolveDnsZone: the first registered suffix decides, bound or not.       *)
ResolveDnsZone(name) ==
  LET Registered(i) == domains[Suffixes[name][i]] # Unregistered
      first == {i \in DOMAIN Suffixes[name] : Registered(i) /\ \A j \in 1 .. i - 1 : ~Registered(j)}
  IN  IF first = {} THEN NoPlace
      ELSE LET zone == Suffixes[name][CHOOSE i \in first : TRUE]
           IN  [zone |-> zone, cred |-> domains[zone]]

ChallengesOf(o) == {c \in Challenges : OrderOf[c] = o}

Begin(o) ==
  /\ order[o] = "new"
  /\ place' = [c \in Challenges |-> IF OrderOf[c] = o THEN ResolveDnsZone(Bare[c]) ELSE place[c]]
  /\ LET ok == \A c \in ChallengesOf(o) : place'[c].cred # Unbound IN
     /\ order' = [order EXCEPT ![o] = IF ok THEN "running" ELSE "failed"]
     /\ at' = [c \in Challenges |-> IF OrderOf[c] = o /\ ok THEN "listing" ELSE at[c]]
  /\ UNCHANGED <<domains, provider, matched, edits, errors, skipped>>

Move(c, to) == at' = [at EXCEPT ![c] = to]

(* getDns works from the snapshot the order was given. *)
HasDns(c) == place[c].cred \in Filled

(* What the provider lists for a name: alicloud every name that contains    *)
(* its keyword, and either one page at most.  The client filters it.        *)
Hits(c) ==
  {x \in records : /\ x.zone = place[c].zone
                   /\ \/ x.name = Bare[c]
                      \/ place[c].cred \in Alicloud /\ <<x.name, Bare[c]>> \in Contains}
FullPage(c) == Cardinality(Hits(c)) > PageSize
Pages(c) ==
  IF FullPage(c) THEN {page \in SUBSET Hits(c) : Cardinality(page) = PageSize} ELSE {Hits(c)}

(* A record's value: the quotes Cloudflare puts around it are stripped.     *)
Text(x) == x.text

ListTxt(c, page) == {x \in page : x.name = Bare[c]}

(* A slip: the record is taken down whoever's value it has. *)
AllAt(c, page) == ListTxt(c, page)

Matches(c, page) == {x \in ListTxt(c, page) : Text(x) = Value[c]}

-----------------------------------------------------------------------------
(* challengeCreateFn.  The progress events it emits carry no state, but    *)
(* writing one is a call that may fail like those of the provider.         *)

EnsureLists(c) ==
  /\ at[c] = "listing" /\ HasDns(c)
  /\ \E page \in Pages(c) : Move(c, IF Matches(c, page) # {} THEN "created" ELSE "creating")
  /\ UNCHANGED <<domains, place, provider, order, matched, edits, errors, skipped>>

AddRecord(c) ==
  /\ Cardinality(records) < MaxRecords
  /\ records' = records \cup {[id |-> nextId, zone |-> place[c].zone, name |-> Bare[c],
                               text |-> Value[c], quoted |-> place[c].cred \notin Alicloud]}
  /\ nextId' = nextId + 1

EnsureCreates(c) ==
  /\ at[c] = "creating"
  /\ AddRecord(c)
  /\ Move(c, "created")
  /\ UNCHANGED <<domains, place, order, matched, edits, errors, skipped>>

Mine(c, x)   == x.name = Bare[c] /\ x.text = Value[c]
Published(c) == \E x \in records : Mine(c, x)

(* The resolver finds the value; the library then offers it to the CA.      *)
ResolveTxt(c) ==
  /\ at[c] = "created" /\ Published(c)
  /\ Move(c, "offered")
  /\ UNCHANGED <<domains, place, provider, order, matched, edits, errors, skipped>>

(* The CA looks the record up itself and accepts. *)
CaAccepts(c) ==
  /\ at[c] = "offered" /\ Published(c)
  /\ Move(c, "clean")
  /\ UNCHANGED <<domains, place, provider, order, matched, edits, errors, skipped>>

-----------------------------------------------------------------------------
(* challengeRemoveFn: called however the challenge went. *)

(* What a challenge that gives up has not got to: what it has listed, or    *)
(* would have.                                                              *)
Owed(c) ==
  IF at[c] = "deleting" THEN matched[c]
  ELSE {x.id : x \in {y \in records : Mine(c, y) /\ y.zone = place[c].zone}}

(* A slip: the zone is looked up again, after the administrator's edits. *)
RemoveInCurrentZone(c) ==
  /\ at[c] = "clean" /\ ResolveDnsZone(Bare[c]).cred \in Filled
  /\ place' = [place EXCEPT ![c] = ResolveDnsZone(Bare[c])]
  /\ matched' = [matched EXCEPT ![c] =
       {x.id : x \in {y \in records : Mine(c, y) /\ y.zone = place'[c].zone}}]
  /\ Move(c, "deleting")
  /\ UNCHANGED <<domains, provider, order, edits, errors, skipped>>

RemoveLists(c) ==
  /\ at[c] = "clean" /\ HasDns(c)
  /\ \E page \in Pages(c) :
       /\ matched' = [matched EXCEPT ![c] = {x.id : x \in Matches(c, page)}]
       /\ skipped' = skipped \cup {x.id : x \in {y \in Hits(c) \ page : Mine(c, y)}}
  /\ Move(c, "deleting")
  /\ UNCHANGED <<domains, place, provider, order, edits, errors>>

RecordWith(id) == {x \in records : x.id = id}

Delete(c) ==
  /\ at[c] = "deleting"
  /\ \E id \in matched[c] :
       /\ RecordWith(id) # {}
       /\ records' = records \ RecordWith(id)
       /\ matched' = [matched EXCEPT ![c] = @ \ {id}]
  /\ UNCHANGED <<domains, place, nextId, order, at, edits, errors, skipped>>

(* A slip: a record another order has taken down is tried again. *)
DeleteRetries(c) ==
  /\ at[c] = "deleting"
  /\ \E id \in matched[c] : RecordWith(id) = {}
  /\ UNCHANGED vars

(* Another order has taken it down: the provider's error ends the removal,  *)
(* and what is left of the list stays.                                      *)
DeleteMissing(c) ==
  /\ at[c] = "deleting"
  /\ \E id \in matched[c] : RecordWith(id) = {}
  /\ Move(c, "done")
  /\ matched' = [matched EXCEPT ![c] = {}]
  /\ skipped' = skipped \cup Owed(c)
  /\ UNCHANGED <<domains, place, provider, order, edits, errors>>

Removed(c) ==
  /\ at[c] = "deleting" /\ matched[c] = {}
  /\ Move(c, "done")
  /\ UNCHANGED <<domains, place, provider, order, matched, edits, errors, skipped>>

-----------------------------------------------------------------------------
(* An exception: before the removal it fails the order and the library      *)
(* turns to the removal; in the removal it is logged and forgotten.         *)
Throw(c) ==
  /\ matched' = [matched EXCEPT ![c] = {}]
  /\ IF at[c] \in Removing
       THEN /\ Move(c, "done")
            /\ skipped' = skipped \cup Owed(c)
            /\ UNCHANGED order
       ELSE /\ Move(c, "clean")
            /\ order' = [order EXCEPT ![OrderOf[c]] = IF @ = "running" THEN "failed" ELSE @]
            /\ UNCHANGED skipped

(* getDns has no credential, or nothing to be seen or accepted.             *)
Unanswerable(c) ==
  /\ \/ at[c] \in {"listing", "clean"} /\ ~HasDns(c)
     \/ at[c] \in {"created", "offered"} /\ ~Published(c)
  /\ Throw(c)
  /\ UNCHANGED <<domains, place, provider, edits, errors>>

(* A call to D1, the provider, the resolver or the CA fails. *)
CallFails(c) ==
  /\ at[c] \notin {"idle", "done"}
  /\ errors < MaxErrors /\ errors' = errors + 1
  /\ Throw(c)
  /\ UNCHANGED <<domains, place, provider, edits>>

(* The provider has created the record but its answer is lost. *)
AnswerLost(c) ==
  /\ at[c] = "creating"
  /\ errors < MaxErrors /\ errors' = errors + 1
  /\ AddRecord(c)
  /\ Throw(c)
  /\ UNCHANGED <<domains, place, edits>>

Issued(o) ==
  /\ order[o] = "running" /\ \A c \in ChallengesOf(o) : at[c] = "done"
  /\ order' = [order EXCEPT ![o] = "issued"]
  /\ UNCHANGED <<domains, place, provider, at, matched, edits, errors, skipped>>

Evict(o) ==
  /\ order[o] \in {"running", "failed"} /\ errors < MaxErrors /\ errors' = errors + 1
  /\ LET cut == {c \in ChallengesOf(o) : at[c] \notin {"idle", "done"}} IN
     /\ cut # {}
     /\ at' = [c \in Challenges |-> IF c \in cut THEN "done" ELSE at[c]]
     /\ matched' = [c \in Challenges |-> IF c \in cut THEN {} ELSE matched[c]]
     /\ skipped' = skipped \cup UNION {Owed(c) : c \in cut}
  /\ order' = [order EXCEPT ![o] = "dead"]
  /\ UNCHANGED <<domains, place, provider, edits>>

(* The administrator registers, rebinds and deletes domains. *)
EditDomains ==
  /\ edits < MaxEdits /\ edits' = edits + 1
  /\ domains' \in Tables \ {domains}
  /\ UNCHANGED <<place, provider, order, at, matched, errors, skipped>>

Step(c) ==
  \/ EnsureLists(c) \/ EnsureCreates(c) \/ ResolveTxt(c) \/ CaAccepts(c)
  \/ RemoveLists(c) \/ Delete(c) \/ DeleteMissing(c) \/ Removed(c)
  \/ Unanswerable(c)

Next ==
  \/ \E c \in Challenges : Step(c) \/ CallFails(c) \/ AnswerLost(c)
  \/ \E o \in Orders : Begin(o) \/ Issued(o) \/ Evict(o)
  \/ EditDomains

Spec == Init /\ [][Next]_vars

(* A Worker that is not evicted goes on, and every call returns or throws.  *)
FairSpec ==
  /\ Spec
  /\ \A c \in Challenges : WF_vars(Step(c))
  /\ \A o \in Orders : WF_vars(Issued(o))

-----------------------------------------------------------------------------
(* While a challenge is being looked up its record stands: no removal by    *)
(* another challenge at the same name takes it down, whatever was listed    *)
(* meanwhile, unless both answer with one value (ensureTxt, removeTxt).     *)
RecordStandsWhileOffered ==
  \A c \in Challenges :
    at[c] \in {"created", "offered"} =>
      Published(c) \/ \E d \in Challenges \ {c} : Bare[d] = Bare[c] /\ Value[d] = Value[c]

(* No TXT record outlives the challenges it was for: neither races of list  *)
(* with create or delete, nor edits of the zone, nor a lost answer leave    *)
(* one (challengeRemoveFn, removeTxt).  The exceptions are those a removal  *)
(* did not get to: it failed, its order was evicted, its page was full, or  *)
(* it ran into a record that the removal of another challenge with the same *)
(* value had deleted meanwhile, and gave up the rest (cloudflare.ts:117).   *)
NothingLeftBehind ==
  \A x \in records \ Foreign :
    x.id \in skipped \/ \E c \in Challenges : Mine(c, x) /\ at[c] # "done"

(* Every order comes to an end, with its challenges taken down or given up. *)
OrdersEnd ==
  \A o \in Orders :
    order[o] = "running" ~>
      order[o] \in {"issued", "failed", "dead"} /\ \A c \in ChallengesOf(o) : at[c] = "done"
=============================================================================
