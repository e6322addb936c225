------------------------- MODULE DnsChallengeProofs -------------------------
(***************************************************************************)
(* Challenges do not disturb one another and leave nothing behind, for any *)
(* orders, names, zones, providers and page sizes.  Neither property is    *)
(* inductive: the first needs that what a removal has listed is its own    *)
(* (ListedIsOwn, which rests on ids that are never taken twice), the       *)
(* second that every record that no removal has skipped has a challenge    *)
(* that will list it, in the zone it is in, or has listed it               *)
(* (SomeoneRemoves).                                                       *)
(***************************************************************************)
EXTENDS DnsChallenge, TLAPS

Places ==
  /\ nextId \in Nat
  /\ at \in [Challenges -> Publishing \cup Removing \cup {"idle", "done"}]
  /\ matched \in [Challenges -> SUBSET Nat]
  /\ DOMAIN place = Challenges
  /\ \A c \in Challenges : order[OrderOf[c]] = "new" => at[c] = "idle"
  /\ order \in [Orders -> {"new", "running", "issued", "failed", "dead"}]

IdsAreUnique ==
  /\ \A x \in records : x.id \in Nat /\ x.id < nextId
  /\ \A x, y \in records : x.id = y.id => x = y

ListedIsOwn ==
  \A c \in Challenges : \A id \in matched[c] :
    id < nextId /\ \A x \in records : x.id = id => Mine(c, x)

WillRemove(c, x) ==
  /\ Mine(c, x)
  /\ \/ at[c] \notin {"idle", "done", "deleting"} /\ x.zone = place[c].zone
     \/ at[c] = "deleting" /\ x.id \in matched[c]

SomeoneRemoves ==
  \A x \in records \ Foreign : x.id \in skipped \/ \E c \in Challenges : WillRemove(c, x)

DnsInv ==
  Places /\ IdsAreUnique /\ ListedIsOwn /\ SomeoneRemoves /\ RecordStandsWhileOffered

LEMMA InitHolds == Init => DnsInv
BY OrdersAssumption, ForeignAssumption, SizesAssumption
   DEF Init, DnsInv, Places, IdsAreUnique, ListedIsOwn, SomeoneRemoves, RecordStandsWhileOffered

(* What a page can show are records of the name. *)
LEMMA PagesShowRecords ==
  ASSUME NEW c, NEW page \in Pages(c)
  PROVE  /\ \A x \in Matches(c, page) : x \in records /\ Mine(c, x)
         /\ \A x \in records : Mine(c, x) /\ x.zone = place[c].zone
                             => x \in Matches(c, page) \/ x \in Hits(c) \ page
<1>1. page \subseteq Hits(c)
  BY DEF Pages
<1> QED
  BY <1>1 DEF Hits, Matches, ListTxt, Text, Mine

(* Challenges of orders that have not begun have neither records nor lists. *)
LEMMA BeginKeeps ==
  ASSUME DnsInv, NEW o \in Orders, Begin(o)
  PROVE  DnsInv'
<1>1. \A c \in Challenges : OrderOf[c] = o => at[c] = "idle"
  BY DEF Begin, DnsInv, Places
<1>2. \A c \in Challenges :
        /\ OrderOf[c] # o => at'[c] = at[c] /\ place'[c] = place[c]
        /\ OrderOf[c] = o => at'[c] \in {"idle", "listing"}
  BY <1>1 DEF Begin
<1>3. Places'
  BY <1>1, OrdersAssumption DEF Begin, DnsInv, Places, Publishing, provider
<1>4. IdsAreUnique' /\ ListedIsOwn'
  BY DEF Begin, DnsInv, IdsAreUnique, ListedIsOwn, Mine, provider
<1>5. SomeoneRemoves'
  BY <1>1, <1>2 DEF Begin, DnsInv, SomeoneRemoves, WillRemove, Mine, provider
<1>6. RecordStandsWhileOffered'
  BY <1>2 DEF Begin, DnsInv, RecordStandsWhileOffered, Published, Mine, provider
<1> QED
  BY <1>3, <1>4, <1>5, <1>6 DEF DnsInv

(* Steps that touch neither the provider nor a list. *)
LEMMA MoveKeeps ==
  ASSUME DnsInv, NEW c \in Challenges, UNCHANGED <<place, provider>>,
         NEW to \in Publishing \cup {"clean"}, Move(c, to),
         at[c] \notin {"idle", "done", "deleting"},
         matched' \in {matched, [matched EXCEPT ![c] = {}]}, skipped' = skipped,
         order' \in [Orders -> {"new", "running", "issued", "failed", "dead"}],
         \A o \in Orders : order'[o] = "new" => order[o] = "new",
         to \in {"created", "offered"} => Published(c)
  PROVE  DnsInv'
<1>1. Places'
  <2>1. /\ at' \in [Challenges -> Publishing \cup Removing \cup {"idle", "done"}]
        /\ \A d \in Challenges : at[d] = "idle" => at'[d] = "idle"
    BY DEF Move, DnsInv, Places, Removing
  <2>2. matched' \in [Challenges -> SUBSET Nat]
    BY DEF DnsInv, Places
  <2> QED
    BY <2>1, <2>2, OrdersAssumption DEF DnsInv, Places, provider
<1>2. IdsAreUnique' /\ ListedIsOwn'
  BY DEF DnsInv, Places, IdsAreUnique, ListedIsOwn, Mine, provider
<1>3. SomeoneRemoves'
  <2> SUFFICES ASSUME NEW x \in records \ Foreign, x.id \notin skipped
               PROVE  \E d \in Challenges : WillRemove(d, x)'
    BY DEF SomeoneRemoves, provider
  <2>1. PICK d \in Challenges : WillRemove(d, x)
    BY DEF DnsInv, SomeoneRemoves
  <2>2. CASE d = c
    BY <2>1, <2>2 DEF WillRemove, Mine, Move, DnsInv, Places, Publishing
  <2>3. CASE d # c
    BY <2>1, <2>3 DEF WillRemove, Mine, Move, DnsInv, Places
  <2> QED
    BY <2>2, <2>3
<1>4. RecordStandsWhileOffered'
  BY DEF Move, DnsInv, Places, RecordStandsWhileOffered, Published, Mine, provider
<1> QED
  BY <1>1, <1>2, <1>3, <1>4 DEF DnsInv

(* A record is created with an id of its own by a challenge that will list  *)
(* it; a lost answer only makes that challenge turn to the removal.         *)
LEMMA AddKeeps ==
  ASSUME DnsInv, NEW c \in Challenges, at[c] = "creating", AddRecord(c), UNCHANGED place,
         NEW to \in {"created", "clean"}, Move(c, to), skipped' = skipped,
         matched' \in {matched, [matched EXCEPT ![c] = {}]},
         order' \in [Orders -> {"new", "running", "issued", "failed", "dead"}],
         \A o \in Orders : order'[o] = "new" => order[o] = "new"
  PROVE  DnsInv'
<1> DEFINE new == [id |-> nextId, zone |-> place[c].zone, name |-> Bare[c],
                   text |-> Value[c], quoted |-> place[c].cred \notin Alicloud]
<1>1. records' = records \cup {new} /\ nextId' = nextId + 1
  BY DEF AddRecord
<1>2. Mine(c, new) /\ new.zone = place[c].zone /\ new.id = nextId
  BY DEF Mine
<1>9. nextId' \in Nat
  BY <1>1 DEF DnsInv, Places
<1>3. Places'
  BY <1>9, OrdersAssumption DEF Move, DnsInv, Places, Publishing, Removing
<1>4. IdsAreUnique'
  BY <1>1, <1>2 DEF DnsInv, Places, IdsAreUnique
<1>5. \A d \in Challenges : matched'[d] \subseteq matched[d] /\ matched[d] \subseteq Nat
  BY DEF DnsInv, Places
<1>6. ListedIsOwn'
  <2> SUFFICES ASSUME NEW d \in Challenges, NEW id \in matched'[d], NEW x \in records', x.id = id
               PROVE  id < nextId' /\ Mine(d, x)
    BY <1>1, <1>5 DEF ListedIsOwn, Mine, DnsInv, Places
  <2>1. id \in matched[d] /\ id < nextId /\ id \in Nat /\ nextId \in Nat
    BY <1>5 DEF DnsInv, ListedIsOwn, Places
  <2>2. x \in records
    BY <1>1, <1>2, <2>1
  <2> QED
    BY <1>1, <2>1, <2>2 DEF DnsInv, ListedIsOwn
<1>7. SomeoneRemoves'
  <2> SUFFICES ASSUME NEW x \in records' \ Foreign
               PROVE  x.id \in skipped \/ \E d \in Challenges : WillRemove(d, x)'
    BY DEF SomeoneRemoves
  <2>1. CASE x = new
    <3>1. at'[c] = to /\ Mine(c, x)'
      BY <1>2, <2>1 DEF Move, DnsInv, Places, Mine
    <3>2. x.zone = place'[c].zone
      BY <1>2, <2>1
    <3> QED
      BY <3>1, <3>2 DEF WillRemove
  <2>2. CASE x \in records
    <3> SUFFICES ASSUME x.id \notin skipped
                 PROVE  \E d \in Challenges : WillRemove(d, x)'
      OBVIOUS
    <3>1. PICK d \in Challenges : WillRemove(d, x)
      BY <2>2 DEF DnsInv, SomeoneRemoves
    <3>2. CASE d = c
      BY <3>1, <3>2 DEF WillRemove, Mine, Move, DnsInv, Places
    <3>3. CASE d # c
      <4>1. at'[d] = at[d] /\ matched'[d] = matched[d]
        BY <3>3 DEF Move, DnsInv, Places
      <4> QED
        BY <3>1, <4>1 DEF WillRemove, Mine
    <3> QED
      BY <3>2, <3>3
  <2> QED
    BY <1>1, <2>1, <2>2
<1>8. RecordStandsWhileOffered'
  <2> SUFFICES ASSUME NEW d \in Challenges, at'[d] \in {"created", "offered"}
               PROVE  Published(d)' \/ \E e \in Challenges \ {d} : Bare[e] = Bare[d] /\ Value[e] = Value[d]
    BY DEF RecordStandsWhileOffered
  <2>1. \A x \in records : x \in records'
    BY <1>1
  <2>2. CASE d = c
    BY <1>1, <1>2, <2>2 DEF Published, Mine
  <2>3. CASE d # c
    <3>1. at[d] = at'[d]
      BY <2>3 DEF Move, DnsInv, Places
    <3> QED
      BY <2>1, <3>1 DEF DnsInv, RecordStandsWhileOffered, Published, Mine
  <2> QED
    BY <2>2, <2>3
<1> QED
  BY <1>3, <1>4, <1>6, <1>7, <1>8 DEF DnsInv

(* What challenges that give up still owed is counted as skipped. *)
LEMMA GiveUpKeeps ==
  ASSUME DnsInv, NEW cut \in SUBSET Challenges, UNCHANGED <<place, provider>>,
         \A c \in cut : at[c] # "idle",
         at' = [c \in Challenges |-> IF c \in cut THEN "done" ELSE at[c]],
         matched' = [c \in Challenges |-> IF c \in cut THEN {} ELSE matched[c]],
         skipped' = skipped \cup UNION {Owed(c) : c \in cut},
         order' \in [Orders -> {"new", "running", "issued", "failed", "dead"}],
         \A o \in Orders : order'[o] = "new" => order[o] = "new"
  PROVE  DnsInv'
<1>1. Places'
  BY OrdersAssumption DEF DnsInv, Places, Publishing, Removing, provider
<1>2. IdsAreUnique' /\ ListedIsOwn'
  BY DEF DnsInv, Places, IdsAreUnique, ListedIsOwn, Mine, provider
<1>3. SomeoneRemoves'
  <2> SUFFICES ASSUME NEW x \in records \ Foreign, x.id \notin skipped'
               PROVE  \E d \in Challenges : WillRemove(d, x)'
    BY DEF SomeoneRemoves, provider
  <2>1. PICK d \in Challenges : WillRemove(d, x)
    BY DEF DnsInv, SomeoneRemoves
  <2>2. x.id \in Owed(d)
    BY <2>1 DEF WillRemove, Owed
  <2>3. d \notin cut
    BY <2>2
  <2> QED
    BY <2>1, <2>3 DEF WillRemove, Mine, DnsInv, Places
<1>4. RecordStandsWhileOffered'
  BY DEF DnsInv, Places, RecordStandsWhileOffered, Published, Mine, provider
<1> QED
  BY <1>1, <1>2, <1>3, <1>4 DEF DnsInv

LEMMA GiveUpOneKeeps ==
  ASSUME DnsInv, NEW c \in Challenges, UNCHANGED <<place, provider>>, at[c] # "idle",
         Move(c, "done"), matched' = [matched EXCEPT ![c] = {}], skipped' = skipped \cup Owed(c),
         order' = order
  PROVE  DnsInv'
<1> DEFINE cut == {c}
<1>1. /\ at' = [d \in Challenges |-> IF d \in cut THEN "done" ELSE at[d]]
      /\ matched' = [d \in Challenges |-> IF d \in cut THEN {} ELSE matched[d]]
  BY DEF Move, DnsInv, Places
<1>2. /\ cut \in SUBSET Challenges /\ skipped' = skipped \cup UNION {Owed(d) : d \in cut}
      /\ \A d \in cut : at[d] # "idle"
  OBVIOUS
<1>3. /\ order' \in [Orders -> {"new", "running", "issued", "failed", "dead"}]
      /\ \A o \in Orders : order'[o] = "new" => order[o] = "new"
  BY DEF DnsInv, Places
<1> HIDE DEF cut
<1> QED
  BY <1>1, <1>2, <1>3, GiveUpKeeps

(* A list names every record the challenge answers for, or it is skipped. *)
LEMMA ListKeeps ==
  ASSUME DnsInv, NEW c \in Challenges, RemoveLists(c)
  PROVE  DnsInv'
<1>1. PICK page \in Pages(c) :
        /\ matched' = [matched EXCEPT ![c] = {x.id : x \in Matches(c, page)}]
        /\ skipped' = skipped \cup {x.id : x \in {y \in Hits(c) \ page : Mine(c, y)}}
  BY DEF RemoveLists
<1>2. /\ \A x \in Matches(c, page) : x \in records /\ Mine(c, x)
      /\ \A x \in records : Mine(c, x) /\ x.zone = place[c].zone
                          => x \in Matches(c, page) \/ x \in Hits(c) \ page
  BY PagesShowRecords
<1>3. /\ at' = [at EXCEPT ![c] = "deleting"] /\ at[c] = "clean"
      /\ UNCHANGED <<place, records, nextId, order>>
  BY DEF RemoveLists, Move, provider
<1>4. \A id \in matched'[c] : id \in Nat /\ id < nextId /\ \A x \in records : x.id = id => Mine(c, x)
  BY <1>1, <1>2 DEF DnsInv, Places, IdsAreUnique
<1>5. Places'
  BY <1>1, <1>3, <1>4, OrdersAssumption DEF DnsInv, Places, Removing
<1>6. IdsAreUnique' /\ ListedIsOwn'
  BY <1>1, <1>3, <1>4 DEF DnsInv, Places, IdsAreUnique, ListedIsOwn, Mine
<1>7. SomeoneRemoves'
  <2> SUFFICES ASSUME NEW x \in records \ Foreign, x.id \notin skipped'
               PROVE  \E d \in Challenges : WillRemove(d, x)'
    BY <1>3 DEF SomeoneRemoves
  <2>1. PICK d \in Challenges : WillRemove(d, x)
    BY <1>1 DEF DnsInv, SomeoneRemoves
  <2>2. CASE d # c
    BY <1>1, <1>3, <2>1, <2>2 DEF WillRemove, Mine, DnsInv, Places
  <2>3. CASE d = c
    <3>1. Mine(c, x) /\ x.zone = place[c].zone
      BY <1>3, <2>1, <2>3 DEF WillRemove
    <3>2. x \notin Hits(c) \ page
      BY <1>1, <3>1
    <3>3. x.id \in matched'[c] /\ at'[c] = "deleting"
      BY <1>1, <1>2, <1>3, <3>1, <3>2 DEF DnsInv, Places
    <3> QED
      BY <3>1, <3>3 DEF WillRemove, Mine
  <2> QED
    BY <2>2, <2>3
<1>8. RecordStandsWhileOffered'
  BY <1>3 DEF DnsInv, Places, RecordStandsWhileOffered, Published, Mine
<1> QED
  BY <1>5, <1>6, <1>7, <1>8 DEF DnsInv

(* What is deleted was listed by its own challenge, so only a challenge     *)
(* with the same value can miss it.                                         *)
LEMMA DeleteKeeps ==
  ASSUME DnsInv, NEW c \in Challenges, Delete(c)
  PROVE  DnsInv'
<1>1. PICK id \in matched[c] :
        /\ records' = records \ RecordWith(id)
        /\ matched' = [matched EXCEPT ![c] = @ \ {id}]
  BY DEF Delete
<1>2. UNCHANGED <<place, nextId, order, at, skipped>> /\ at[c] = "deleting"
  BY DEF Delete
<1>3. Places' /\ IdsAreUnique' /\ ListedIsOwn'
  BY <1>1, <1>2 DEF DnsInv, Places, IdsAreUnique, ListedIsOwn, Mine
<1>4. SomeoneRemoves'
  BY <1>1, <1>2 DEF DnsInv, Places, SomeoneRemoves, WillRemove, Mine, RecordWith
<1>5. RecordStandsWhileOffered'
  <2> SUFFICES ASSUME NEW d \in Challenges, at[d] \in {"created", "offered"},
                      ~\E e \in Challenges \ {d} : Bare[e] = Bare[d] /\ Value[e] = Value[d]
               PROVE  \E x \in records' : Mine(d, x)
    BY <1>2 DEF RecordStandsWhileOffered, Published, Mine
  <2>1. PICK x \in records : Mine(d, x)
    BY DEF DnsInv, RecordStandsWhileOffered, Published
  <2>2. x.id # id
    BY <1>1, <1>2, <2>1 DEF DnsInv, ListedIsOwn, Mine
  <2> QED
    BY <1>1, <2>1, <2>2 DEF RecordWith
<1> QED
  BY <1>3, <1>4, <1>5 DEF DnsInv

(* A removal that is through has nothing listed, hence nothing left.        *)
LEMMA RemovedKeeps ==
  ASSUME DnsInv, NEW c \in Challenges, Removed(c)
  PROVE  DnsInv'
<1>1. at' = [at EXCEPT ![c] = "done"] /\ at[c] = "deleting" /\ matched[c] = {}
  BY DEF Removed, Move
<1>2. UNCHANGED <<place, records, nextId, order, matched, skipped>>
  BY DEF Removed, provider
<1>3. Places'
  BY <1>1, <1>2, OrdersAssumption DEF DnsInv, Places
<1>4. IdsAreUnique' /\ ListedIsOwn'
  BY <1>2 DEF DnsInv, IdsAreUnique, ListedIsOwn, Mine
<1>5. SomeoneRemoves'
  BY <1>1, <1>2 DEF DnsInv, Places, SomeoneRemoves, WillRemove, Mine
<1>6. RecordStandsWhileOffered'
  BY <1>1, <1>2 DEF DnsInv, Places, RecordStandsWhileOffered, Published, Mine
<1> QED
  BY <1>3, <1>4, <1>5, <1>6 DEF DnsInv
LEMMA ThrowKeeps ==
  ASSUME DnsInv, NEW c \in Challenges, at[c] \notin {"idle", "done"}, Throw(c),
         UNCHANGED <<place, provider>>
  PROVE  DnsInv'
<1>1. /\ order' \in [Orders -> {"new", "running", "issued", "failed", "dead"}]
      /\ \A o \in Orders : order'[o] = "new" => order[o] = "new"
  BY OrdersAssumption DEF Throw, DnsInv, Places
<1>2. CASE at[c] \in Removing
  BY <1>2, GiveUpOneKeeps DEF Throw
<1>3. CASE at[c] \notin Removing
  <2>1. /\ Move(c, "clean") /\ skipped' = skipped /\ at[c] # "deleting"
        /\ matched' = [matched EXCEPT ![c] = {}]
    BY <1>3 DEF Throw, Removing
  <2> QED
    BY <1>1, <2>1, MoveKeeps
<1> QED
  BY <1>2, <1>3

LEMMA NextKeeps == DnsInv /\ [Next]_vars => DnsInv'
<1> SUFFICES ASSUME DnsInv, [Next]_vars PROVE DnsInv'
  OBVIOUS
<1> USE DEF Publishing
<1>1. ASSUME NEW c \in Challenges, EnsureLists(c) PROVE DnsInv'
  <2>1. PICK page \in Pages(c) : Move(c, IF Matches(c, page) # {} THEN "created" ELSE "creating")
    BY <1>1 DEF EnsureLists
  <2>2. CASE Matches(c, page) # {}
    <3>1. Published(c)
      BY <2>2, PagesShowRecords DEF Published
    <3> QED
      BY <1>1, <2>1, <2>2, <3>1, MoveKeeps DEF EnsureLists, DnsInv, Places
  <2>3. CASE Matches(c, page) = {}
    BY <1>1, <2>1, <2>3, MoveKeeps DEF EnsureLists, DnsInv, Places
  <2> QED
    BY <2>2, <2>3
<1>2. ASSUME NEW c \in Challenges, EnsureCreates(c) PROVE DnsInv'
  BY <1>2, AddKeeps DEF EnsureCreates, DnsInv, Places
<1>3. ASSUME NEW c \in Challenges, ResolveTxt(c) \/ CaAccepts(c) PROVE DnsInv'
  BY <1>3, MoveKeeps DEF ResolveTxt, CaAccepts, DnsInv, Places
<1>4. ASSUME NEW c \in Challenges, DeleteMissing(c) PROVE DnsInv'
  BY <1>4, GiveUpOneKeeps DEF DeleteMissing
<1>5. ASSUME NEW c \in Challenges, Unanswerable(c) \/ CallFails(c) PROVE DnsInv'
  BY <1>5, ThrowKeeps DEF Unanswerable, CallFails
<1>6. ASSUME NEW c \in Challenges, AnswerLost(c) PROVE DnsInv'
  <2>1. /\ order' \in [Orders -> {"new", "running", "issued", "failed", "dead"}]
        /\ \A o \in Orders : order'[o] = "new" => order[o] = "new"
    <3>1. order' = [order EXCEPT ![OrderOf[c]] = IF @ = "running" THEN "failed" ELSE @]
      BY <1>6 DEF AnswerLost, Throw, Removing
    <3> QED
      BY <3>1, OrdersAssumption DEF DnsInv, Places
  <2>2. /\ Move(c, "clean") /\ skipped' = skipped /\ at[c] = "creating"
        /\ matched' = [matched EXCEPT ![c] = {}] /\ AddRecord(c) /\ UNCHANGED place
    BY <1>6 DEF AnswerLost, Throw, Removing
  <2> QED
    BY <2>1, <2>2, AddKeeps
<1>7. ASSUME NEW o \in Orders, Evict(o) PROVE DnsInv'
  <2> DEFINE cut == {c \in ChallengesOf(o) : at[c] \notin {"idle", "done"}}
  <2>1. /\ at' = [c \in Challenges |-> IF c \in cut THEN "done" ELSE at[c]]
        /\ matched' = [c \in Challenges |-> IF c \in cut THEN {} ELSE matched[c]]
        /\ skipped' = skipped \cup UNION {Owed(c) : c \in cut}
        /\ order' = [order EXCEPT ![o] = "dead"] /\ UNCHANGED <<place, provider>>
    BY <1>7 DEF Evict
  <2>2. cut \in SUBSET Challenges
    BY DEF ChallengesOf
  <2>3. /\ order' \in [Orders -> {"new", "running", "issued", "failed", "dead"}]
        /\ \A p \in Orders : order'[p] = "new" => order[p] = "new"
    BY <2>1 DEF DnsInv, Places
  <2> QED
    BY <2>1, <2>2, <2>3, GiveUpKeeps
<1>8. ASSUME UNCHANGED <<place, provider, at, matched, skipped>>,
             order' \in [Orders -> {"new", "running", "issued", "failed", "dead"}],
             \A o \in Orders : order'[o] = "new" => order[o] = "new"
      PROVE  DnsInv'
  BY <1>8, OrdersAssumption DEF DnsInv, Places, IdsAreUnique, ListedIsOwn, SomeoneRemoves, WillRemove,
              RecordStandsWhileOffered, Published, Mine, provider
<1>9. ASSUME (\E o \in Orders : Issued(o)) \/ EditDomains \/ UNCHANGED vars PROVE DnsInv'
  <2>1. UNCHANGED <<place, provider, at, matched, skipped>>
    BY <1>9 DEF Issued, EditDomains, vars, provider
  <2>2. /\ order' \in [Orders -> {"new", "running", "issued", "failed", "dead"}]
        /\ \A o \in Orders : order'[o] = "new" => order[o] = "new"
    BY <1>9 DEF Issued, EditDomains, vars, DnsInv, Places
  <2> QED
    BY <1>8, <2>1, <2>2
<1> QED
  BY <1>1, <1>2, <1>3, <1>4, <1>5, <1>6, <1>7, <1>9,
     BeginKeeps, ListKeeps, DeleteKeeps, RemovedKeeps DEF Next, Step

LEMMA DnsInvariant == Spec => []DnsInv
BY InitHolds, NextKeeps, PTL DEF Spec

(* A record that is looked up stands until its own challenge removes it, or *)
(* one that answers with the same value (removeTxt).                        *)
THEOREM RecordsStand == Spec => []RecordStandsWhileOffered
<1>1. DnsInv => RecordStandsWhileOffered
  BY DEF DnsInv
<1> QED
  BY <1>1, DnsInvariant, PTL

(* What is left at a provider was skipped: by a failing removal, an evicted *)
(* order, a page that was cut off, or a removal that found a record gone    *)
(* (challengeRemoveFn, removeTxt).                                          *)
THEOREM RecordsAreRemoved == Spec => []NothingLeftBehind
<1>1. DnsInv => NothingLeftBehind
  BY DEF DnsInv, SomeoneRemoves, WillRemove, NothingLeftBehind
<1> QED
  BY <1>1, DnsInvariant, PTL

-----------------------------------------------------------------------------
(* What is created needs a zone: a challenge that has got as far as creating *)
(* its record has a credential, and where there is one there is a zone.      *)
Resolved ==
  \A c \in Challenges :
    /\ place[c].cred # Unbound => place[c].zone \in Zones
    /\ at[c] = "creating" => place[c].cred \in Filled

DnsTypes == TypeOK /\ Resolved

LEMMA Resolves ==
  ASSUME TypeOK, NEW c \in Challenges
  PROVE  /\ ResolveDnsZone(Bare[c]) \in Place
         /\ ResolveDnsZone(Bare[c]).cred # Unbound => ResolveDnsZone(Bare[c]).zone \in Zones
<1> DEFINE suffixes == Suffixes[Bare[c]]
           Registered(i) == domains[suffixes[i]] # Unregistered
           first == {i \in DOMAIN suffixes : Registered(i) /\ \A j \in 1 .. i - 1 : ~Registered(j)}
           zone == suffixes[CHOOSE i \in first : TRUE]
<1>1. Bare[c] \in Names
  BY DEF Names
<1>2. suffixes \in Seq(Zones) /\ domains \in [Zones -> Creds \cup {Unbound, Unregistered}]
  BY <1>1, OrdersAssumption DEF TypeOK
<1>3. CASE first = {}
  BY <1>3 DEF ResolveDnsZone, NoPlace, Place
<1>4. CASE first # {}
  <2>1. (CHOOSE i \in first : TRUE) \in first
    BY <1>4
  <2>2. zone \in Zones /\ domains[zone] \in Creds \cup {Unbound}
    <3> DEFINE i == CHOOSE i \in first : TRUE
    <3>1. i \in DOMAIN suffixes /\ domains[suffixes[i]] # Unregistered
      BY <2>1
    <3> HIDE DEF i
    <3>2. suffixes[i] \in Zones
      BY <1>2, <3>1
    <3>3. domains[suffixes[i]] \in Creds \cup {Unbound}
      BY <1>2, <3>1, <3>2
    <3> QED
      BY <3>2, <3>3 DEF i
  <2>3. ResolveDnsZone(Bare[c]) = [zone |-> zone, cred |-> domains[zone]]
    BY <1>4 DEF ResolveDnsZone
  <2> HIDE DEF zone
  <2> QED
    BY <2>2, <2>3 DEF Place
<1> QED
  BY <1>3, <1>4

(* A step of one challenge that neither creates a record nor moves to where *)
(* one is created.                                                          *)
LEMMA MoveTypes ==
  ASSUME DnsTypes, NEW c \in Challenges,
         NEW to \in Publishing \cup Removing \cup {"idle", "done"}, Move(c, to),
         to = "creating" => place[c].cred \in Filled,
         UNCHANGED place
  PROVE  /\ at' \in [Challenges -> Publishing \cup Removing \cup {"idle", "done"}]
         /\ Resolved'
BY DEF DnsTypes, TypeOK, Resolved, Move

(* A record that is added is one of the challenge, in its zone. *)
LEMMA AddTypes ==
  ASSUME DnsTypes, NEW c \in Challenges, at[c] = "creating", AddRecord(c)
  PROVE  records' \subseteq Record \cup Foreign /\ nextId' \in Nat
<1>1. place[c].zone \in Zones
  BY OrdersAssumption DEF DnsTypes, Resolved
<1>2. Bare[c] \in Names /\ Value[c] \in {Value[d] : d \in Challenges}
  BY DEF Names
<1>3. [id |-> nextId, zone |-> place[c].zone, name |-> Bare[c],
       text |-> Value[c], quoted |-> place[c].cred \notin Alicloud] \in Record
  <2> DEFINE q == place[c].cred \notin Alicloud
  <2>1. q \in BOOLEAN
    OBVIOUS
  <2> HIDE DEF q
  <2>2. [id |-> nextId, zone |-> place[c].zone, name |-> Bare[c], text |-> Value[c], quoted |-> q] \in Record
    BY <1>1, <1>2, <2>1 DEF Record, DnsTypes, TypeOK
  <2> QED
    BY <2>2 DEF q
<1> QED
  BY <1>3 DEF DnsTypes, TypeOK, AddRecord

LEMMA OwedTypes ==
  ASSUME DnsTypes, NEW c \in Challenges
  PROVE  Owed(c) \subseteq Nat /\ \A x \in records : x.id \in Nat
BY ForeignAssumption DEF Owed, DnsTypes, TypeOK, Record

LEMMA ThrowTypes ==
  ASSUME DnsTypes, NEW c \in Challenges, Throw(c), UNCHANGED place
  PROVE  /\ at' \in [Challenges -> Publishing \cup Removing \cup {"idle", "done"}]
         /\ order' \in [Orders -> {"new", "running", "issued", "failed", "dead"}]
         /\ matched' \in [Challenges -> SUBSET Nat]
         /\ skipped' \subseteq Nat
         /\ Resolved'
<1>1. matched' \in [Challenges -> SUBSET Nat] /\ skipped' \subseteq Nat
  BY OwedTypes DEF Throw, DnsTypes, TypeOK
<1>2. order' \in [Orders -> {"new", "running", "issued", "failed", "dead"}]
  <2>1. order \in [Orders -> {"new", "running", "issued", "failed", "dead"}] /\ OrderOf[c] \in Orders
    BY OrdersAssumption DEF DnsTypes, TypeOK
  <2> QED
    BY <2>1 DEF Throw
<1>3. Move(c, "done") \/ Move(c, "clean")
  BY DEF Throw
<1> QED
  BY <1>1, <1>2, <1>3, MoveTypes DEF Removing

LEMMA StepTypes ==
  ASSUME DnsTypes, NEW c \in Challenges, Step(c) \/ CallFails(c) \/ AnswerLost(c)
  PROVE  DnsTypes'
<1>1. CASE EnsureLists(c)
  <2>1. PICK page \in Pages(c) : Move(c, IF Matches(c, page) # {} THEN "created" ELSE "creating")
    BY <1>1 DEF EnsureLists
  <2>2. place[c].cred \in Filled
    BY <1>1 DEF EnsureLists, HasDns
  <2>3. /\ at' \in [Challenges -> Publishing \cup Removing \cup {"idle", "done"}]
        /\ Resolved'
    <3>1. CASE Matches(c, page) # {}
      BY <1>1, <2>1, <3>1, MoveTypes DEF EnsureLists, Publishing
    <3>2. CASE Matches(c, page) = {}
      BY <1>1, <2>1, <2>2, <3>2, MoveTypes DEF EnsureLists, Publishing
    <3> QED
      BY <3>1, <3>2
  <2> QED
    BY <1>1, <2>3 DEF EnsureLists, DnsTypes, TypeOK, provider
<1>2. CASE EnsureCreates(c)
  BY <1>2, AddTypes, MoveTypes DEF EnsureCreates, DnsTypes, TypeOK, Publishing
<1>3. CASE ResolveTxt(c) \/ CaAccepts(c)
  BY <1>3, MoveTypes DEF ResolveTxt, CaAccepts, DnsTypes, TypeOK, provider, Publishing, Removing
<1>4. CASE RemoveLists(c)
  <2>1. PICK page \in Pages(c) :
          /\ matched' = [matched EXCEPT ![c] = {x.id : x \in Matches(c, page)}]
          /\ skipped' = skipped \cup {x.id : x \in {y \in Hits(c) \ page : Mine(c, y)}}
    BY <1>4 DEF RemoveLists
  <2>2. \A x \in Matches(c, page) : x \in records
    BY PagesShowRecords
  <2>3. \A x \in records : x.id \in Nat
    BY OwedTypes
  <2>4. matched' \in [Challenges -> SUBSET Nat] /\ skipped' \subseteq Nat
    BY <2>1, <2>2, <2>3 DEF DnsTypes, TypeOK, Hits
  <2> QED
    BY <1>4, <2>4, MoveTypes DEF RemoveLists, DnsTypes, TypeOK, provider, Removing
<1>5. CASE Delete(c)
  <2>1. /\ records' \subseteq records
        /\ matched' \in [Challenges -> SUBSET Nat]
    BY <1>5 DEF Delete, DnsTypes, TypeOK
  <2> QED
    BY <1>5, <2>1 DEF Delete, DnsTypes, TypeOK, Resolved
<1>6. CASE DeleteMissing(c) \/ Removed(c)
  BY <1>6, MoveTypes, OwedTypes DEF DeleteMissing, Removed, DnsTypes, TypeOK, provider
<1>7. CASE Unanswerable(c)
  BY <1>7, ThrowTypes DEF Unanswerable, DnsTypes, TypeOK, provider
<1>8. CASE CallFails(c)
  <2>1. errors' \in 0 .. MaxErrors
    BY <1>8, SizesAssumption DEF CallFails, DnsTypes, TypeOK
  <2> QED
    BY <1>8, <2>1, ThrowTypes DEF CallFails, DnsTypes, TypeOK, provider
<1>9. CASE AnswerLost(c)
  <2>1. errors' \in 0 .. MaxErrors
    BY <1>9, SizesAssumption DEF AnswerLost, DnsTypes, TypeOK
  <2> QED
    BY <1>9, <2>1, ThrowTypes, AddTypes DEF AnswerLost, DnsTypes, TypeOK
<1> QED
  BY <1>1, <1>2, <1>3, <1>4, <1>5, <1>6, <1>7, <1>8, <1>9 DEF Step

LEMMA NextTypes == DnsInv /\ DnsTypes /\ [Next]_vars => DnsTypes'
<1> SUFFICES ASSUME DnsInv, DnsTypes, [Next]_vars PROVE DnsTypes'
  OBVIOUS
<1>1. ASSUME NEW o \in Orders, Begin(o) PROVE DnsTypes'
  <2>1. \A c \in Challenges : place'[c] \in Place /\ (place'[c].cred # Unbound => place'[c].zone \in Zones)
    BY <1>1, Resolves DEF Begin, DnsTypes, TypeOK, Resolved
  <2>2. place' \in [Challenges -> Place]
    BY <1>1, <2>1 DEF Begin
  <2>3. \E ok \in BOOLEAN :
          /\ order' = [order EXCEPT ![o] = IF ok THEN "running" ELSE "failed"]
          /\ at' = [c \in Challenges |-> IF OrderOf[c] = o /\ ok THEN "listing" ELSE at[c]]
    <3> DEFINE good == \A c \in ChallengesOf(o) : place'[c].cred # Unbound
    <3>1. /\ order' = [order EXCEPT ![o] = IF good THEN "running" ELSE "failed"]
          /\ at' = [c \in Challenges |-> IF OrderOf[c] = o /\ good THEN "listing" ELSE at[c]]
      BY <1>1 DEF Begin
    <3>2. good \in BOOLEAN
      OBVIOUS
    <3> HIDE DEF good
    <3> QED
      BY <3>1, <3>2
  <2>4. /\ at' \in [Challenges -> Publishing \cup Removing \cup {"idle", "done"}]
        /\ order' \in [Orders -> {"new", "running", "issued", "failed", "dead"}]
        /\ \A c \in Challenges : at'[c] = "creating" => at[c] = "creating"
    BY <2>3 DEF DnsTypes, TypeOK, Publishing
  <2>5. \A c \in Challenges : at'[c] = "creating" => place'[c].cred \in Filled
    <3>1. \A c \in Challenges : OrderOf[c] = o => at[c] = "idle"
      BY <1>1 DEF Begin, DnsInv, Places
    <3>2. \A c \in Challenges : at'[c] = "creating" => at[c] = "creating" /\ OrderOf[c] # o
      BY <2>3, <3>1
    <3> QED
      BY <1>1, <3>2 DEF Begin, DnsTypes, Resolved
  <2> QED
    BY <1>1, <2>1, <2>2, <2>4, <2>5 DEF Begin, DnsTypes, TypeOK, Resolved, provider
<1>2. ASSUME NEW o \in Orders, Issued(o) PROVE DnsTypes'
  BY <1>2 DEF Issued, DnsTypes, TypeOK, Resolved, provider
<1>3. ASSUME NEW o \in Orders, Evict(o) PROVE DnsTypes'
  <2>1. errors' \in 0 .. MaxErrors
    BY <1>3, SizesAssumption DEF Evict, DnsTypes, TypeOK
  <2>2. skipped' \subseteq Nat
    <3>1. PICK cut \in SUBSET Challenges : skipped' = skipped \cup UNION {Owed(c) : c \in cut}
      BY <1>3 DEF Evict, ChallengesOf
    <3> QED
      BY <3>1, OwedTypes DEF DnsTypes, TypeOK
  <2>3.. /\ at' \in [Challenges -> Publishing \cup Removing \cup {"idle", "done"}]
        /\ matched' \in [Challenges -> SUBSET Nat]
        /\ \A c \in Challenges : at'[c] = "creating" => at[c] = "creating"
    BY <1>3 DEF Evict, ChallengesOf, DnsTypes, TypeOK
  <2> QED
    BY <1>3, <2>1, <2>2, <2>3 DEF Evict, DnsTypes, TypeOK, Resolved, provider
<1>4. ASSUME EditDomains PROVE DnsTypes'
  BY <1>4, OrdersAssumption, SizesAssumption DEF EditDomains, DnsTypes, TypeOK, Resolved, provider
<1>5. ASSUME UNCHANGED vars PROVE DnsTypes'
  BY <1>5 DEF vars, provider, DnsTypes, TypeOK, Resolved
<1> QED
  BY <1>1, <1>2, <1>3, <1>4, <1>5, StepTypes DEF Next

(* Every variable keeps its type; in particular what is created has a zone, *)
(* for a challenge without one never gets that far (getDns, resolveDnsZone).*)
THEOREM TypeCorrect == Spec => []TypeOK
<1>1. Init => DnsTypes
  BY OrdersAssumption, SizesAssumption
     DEF Init, DnsTypes, TypeOK, Resolved, NoPlace, Place, Publishing, Removing
<1>2. DnsTypes => TypeOK
  BY DEF DnsTypes
<1> QED
  BY <1>1, <1>2, NextTypes, DnsInvariant, PTL DEF Spec
=============================================================================
