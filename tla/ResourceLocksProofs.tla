------------------------- MODULE ResourceLocksProofs -------------------------
(* Theorems about the domain locks, for every set of runs and lock ids,    *)
(* every assignment of ids to runs, every TTL and every length of history. *)
EXTENDS ResourceLocks, TLAPS

(***************************************************************************)
(* The strengthening.  A run that did not race owns every row it has       *)
(* upserted until its lease lapses, finds no row on the ids it has still   *)
(* to upsert, and shares no id with a run inside the check-to-last-upsert  *)
(* section.                                                                *)
(***************************************************************************)
OwnsWhatItUpserted ==
  \A r \in Runs \ raced :
    pc[r] \in {"insert", "running"} /\ ~Lapsed(r) =>
      \A i \in IdsOf[r] \ pending[r] :
        locks[i].owner = r /\ locks[i].expiresAt = ExpiryOf(r)

NothingWhereItHasNot ==
  \A r \in Runs \ raced :
    pc[r] = "insert" => \A i \in pending[r] : ~Taken(locks, i)

SectionsOverlapOnlyIfRaced ==
  \A r, s \in Runs :
    r # s /\ Share(r, s) /\ pc[s] = "insert" =>
      /\ pc[r] = "insert" => r \in raced
      /\ pc[r] = "running" => r \in raced \/ Lapsed(r)

PendingOnlyWhileInserting ==
  \A r \in Runs :
    /\ pending[r] \subseteq IdsOf[r]
    /\ pc[r] = "running" => pending[r] = {}

StartedInThePast == \A r \in Runs : started[r] <= now

LockInv ==
  /\ TypeOK
  /\ StartedInThePast
  /\ PendingOnlyWhileInserting
  /\ RowsHaveLiveOrCrashedOwners
  /\ SectionsOverlapOnlyIfRaced
  /\ NothingWhereItHasNot
  /\ OwnsWhatItUpserted
-----------------------------------------------------------------------------
(* The statements keep the table a table.                                  *)
LEMMA StatementTypes ==
  ASSUME NEW t \in Table
  PROVE  /\ \A ids \in SUBSET LockIds, e \in Int : PurgeExpired(t, ids, e) \in Table
         /\ \A i \in LockIds, r \in Runs, e \in Int : Upsert(t, i, r, e) \in Table
         /\ \A r \in Runs : DeleteOwned(t, r) \in Table
  BY DEF Table, Row, PurgeExpired, Upsert, DeleteOwned, Absent, Taken

(* What each statement leaves in one row, without the table around it.     *)
LEMMA PurgedRow ==
  ASSUME NEW t \in Table, NEW ids, NEW e \in Int, NEW j \in LockIds
  PROVE  /\ PurgeExpired(t, ids, e)[j] \in {t[j], Absent}
         /\ PurgeExpired(t, ids, e)[j] # t[j] => t[j].expiresAt < e
  BY DEF PurgeExpired, Taken, Absent

(* An upsert touches one row and never changes the owner of a row that is  *)
(* there.                                                                  *)
LEMMA UpsertedRow ==
  ASSUME NEW t \in Table, NEW i \in LockIds, NEW r \in Runs, NEW e \in Int,
         NEW j \in LockIds
  PROVE  /\ j # i => Upsert(t, i, r, e)[j] = t[j]
         /\ Upsert(t, i, r, e)[i].expiresAt = e
         /\ Taken(t, i) => Upsert(t, i, r, e)[i].owner = t[i].owner
         /\ ~Taken(t, i) => Upsert(t, i, r, e)[i].owner = r
  BY DEF Upsert, Taken, Table

(* A release removes the rows of its owner and no other.                   *)
LEMMA DeletedRow ==
  ASSUME NEW t \in Table, NEW r \in Runs, NEW j \in LockIds
  PROVE  /\ t[j].owner = r => DeleteOwned(t, r)[j] = Absent
         /\ t[j].owner # r => DeleteOwned(t, r)[j] = t[j]
  BY DEF DeleteOwned

(* Every step of a run, and of the clock, keeps the types.                 *)
LEMMA TypeStep == TypeOK /\ [Next]_vars => TypeOK'
<1> SUFFICES ASSUME TypeOK, [Next]_vars PROVE TypeOK'
  OBVIOUS
<1> USE DEF TypeOK, Phases, Goto
<1>1. CASE Tick
  BY <1>1 DEF Tick
<1>2. ASSUME NEW r \in Runs, Step(r) PROVE TypeOK'
  <2> IdsOf[r] \in SUBSET LockIds /\ ExpiryOf(r) \in Int /\ started[r] \in Int
    BY IdsOfAssumption, TimeAssumption DEF ExpiryOf
  <2>6. PurgeExpired(locks, IdsOf[r], started[r]) \in Table
    BY StatementTypes DEF TypeOK
  <2>7. \A i \in LockIds : Upsert(locks, i, r, ExpiryOf(r)) \in Table
    BY StatementTypes DEF TypeOK
  <2>8. DeleteOwned(locks, r) \in Table
    BY StatementTypes DEF TypeOK
  <2>1. CASE Begin(r) \/ Refuse(r) \/ Acquired(r) \/ Crash(r)
    BY <2>1 DEF Begin, Refuse, Acquired, Crash
  <2>2. CASE Purge(r)
    BY <2>2, <2>6 DEF Purge
  <2>3. CASE PassCheck(r)
    BY <2>3 DEF PassCheck, InSection
  <2>4. ASSUME NEW i \in LockIds, InsertRow(r, i) PROVE TypeOK'
    BY <2>4, <2>7 DEF InsertRow
  <2>5. CASE Release(r)
    BY <2>5, <2>8 DEF Release
  <2> QED
    BY <1>2, <2>1, <2>2, <2>3, <2>4, <2>5 DEF Step
<1>3. CASE UNCHANGED vars
  BY <1>3 DEF vars
<1> QED
  BY <1>1, <1>2, <1>3 DEF Next

(* Type correctness: every reachable state of the lock protocol has the    *)
(* shape of the ResourceLock table and of a run's local variables.         *)
THEOREM TypeCorrect == Spec => []TypeOK
<1>1. Init => TypeOK
  BY TimeAssumption DEF Init, TypeOK, Phases, Empty, Table, Row, Absent
<1> QED
  BY <1>1, TypeStep, PTL DEF Spec

(***************************************************************************)
(* One step of a run, or of the clock, preserves the strengthening.        *)
(***************************************************************************)
LEMMA LockInvStep == LockInv /\ [Next]_vars => LockInv'
<1> SUFFICES ASSUME LockInv, [Next]_vars PROVE LockInv'
  OBVIOUS
<1> USE DEF Goto, Lapsed, ExpiryOf
<1> TypeOK /\ TypeOK'
  BY TypeStep DEF LockInv
<1> IdsOf \in [Runs -> SUBSET LockIds] /\ TTL \in Nat
  BY IdsOfAssumption, TimeAssumption
<1>1. CASE Tick
  <2> USE <1>1 DEF Tick, TypeOK
  <2>1. StartedInThePast'
    BY DEF LockInv, StartedInThePast
  <2>2. (PendingOnlyWhileInserting /\ RowsHaveLiveOrCrashedOwners)'
    BY DEF LockInv, PendingOnlyWhileInserting, RowsHaveLiveOrCrashedOwners, Taken
  <2>3. SectionsOverlapOnlyIfRaced'
    BY DEF LockInv, SectionsOverlapOnlyIfRaced
  <2>4. (NothingWhereItHasNot /\ OwnsWhatItUpserted)'
    BY DEF LockInv, NothingWhereItHasNot, OwnsWhatItUpserted, Taken
  <2> QED
    BY <2>1, <2>2, <2>3, <2>4 DEF LockInv
<1>2. ASSUME NEW r \in Runs, Begin(r) PROVE LockInv'
  <2> USE <1>2 DEF Begin, TypeOK, Phases
  <2>1. StartedInThePast'
    BY DEF LockInv, StartedInThePast
  <2>2. (PendingOnlyWhileInserting /\ RowsHaveLiveOrCrashedOwners)'
    BY DEF LockInv, PendingOnlyWhileInserting, RowsHaveLiveOrCrashedOwners, Taken, Table, Row
  <2>3. SectionsOverlapOnlyIfRaced'
    BY DEF LockInv, SectionsOverlapOnlyIfRaced
  <2>4. (NothingWhereItHasNot /\ OwnsWhatItUpserted)'
    BY DEF LockInv, NothingWhereItHasNot, OwnsWhatItUpserted, Taken
  <2> QED
    BY <2>1, <2>2, <2>3, <2>4 DEF LockInv
<1>3. ASSUME NEW r \in Runs, Purge(r) PROVE LockInv'
  <2> USE <1>3 DEF Purge, TypeOK, Phases
  <2>1. (StartedInThePast /\ PendingOnlyWhileInserting /\ SectionsOverlapOnlyIfRaced)'
    BY DEF LockInv, StartedInThePast, PendingOnlyWhileInserting, SectionsOverlapOnlyIfRaced
  <2>2. \A j \in LockIds : /\ locks'[j] \in {locks[j], Absent}
                           /\ locks'[j] # locks[j] => locks[j].expiresAt < now
    BY PurgedRow DEF LockInv, StartedInThePast, Table, Row
  <2>3. RowsHaveLiveOrCrashedOwners'
    BY <2>2 DEF LockInv, RowsHaveLiveOrCrashedOwners, Taken, Absent, Table, Row
  <2>4. NothingWhereItHasNot'
    BY <2>2 DEF LockInv, NothingWhereItHasNot, Taken, Absent
  <2>5. OwnsWhatItUpserted'
    BY <2>2 DEF LockInv, OwnsWhatItUpserted
  <2> QED
    BY <2>1, <2>3, <2>4, <2>5 DEF LockInv
<1>4. ASSUME NEW r \in Runs, Refuse(r) \/ Crash(r) PROVE LockInv'
  <2> USE <1>4 DEF Refuse, Crash, TypeOK, Phases
  <2>1. (StartedInThePast /\ PendingOnlyWhileInserting)'
    BY DEF LockInv, StartedInThePast, PendingOnlyWhileInserting
  <2>2. RowsHaveLiveOrCrashedOwners'
    BY DEF LockInv, RowsHaveLiveOrCrashedOwners, Taken, Table, Row
  <2>3. SectionsOverlapOnlyIfRaced'
    BY DEF LockInv, SectionsOverlapOnlyIfRaced
  <2>4. (NothingWhereItHasNot /\ OwnsWhatItUpserted)'
    BY DEF LockInv, NothingWhereItHasNot, OwnsWhatItUpserted, Taken
  <2> QED
    BY <2>1, <2>2, <2>3, <2>4 DEF LockInv
<1>5. ASSUME NEW r \in Runs, PassCheck(r) PROVE LockInv'
  <2> USE <1>5 DEF PassCheck, TypeOK, Phases
  <2>1. (StartedInThePast /\ PendingOnlyWhileInserting)'
    BY DEF LockInv, StartedInThePast, PendingOnlyWhileInserting
  <2>2. RowsHaveLiveOrCrashedOwners'
    BY DEF LockInv, RowsHaveLiveOrCrashedOwners, Taken, Table, Row
  <2>3. \A i \in IdsOf[r] : ~Taken(locks, i)
    \* no other owner by the check, and r is not past its own check
    BY DEF LockInv, RowsHaveLiveOrCrashedOwners, HeldByAnother, Taken
  <2>4. \A s \in Runs \ {r} : pc[s] = "insert" /\ Share(r, s) => {r, s} \subseteq raced'
    BY DEF InSection
  <2>5. \A s \in Runs \ {r} :
          pc[s] = "running" /\ Share(s, r) => s \in raced \/ Lapsed(s)
    BY <2>3, NoRunAssumption DEF LockInv, OwnsWhatItUpserted, PendingOnlyWhileInserting, Share, Taken
  <2>6. SectionsOverlapOnlyIfRaced'
    <3> SUFFICES ASSUME NEW s \in Runs, NEW q \in Runs, s # q, Share(s, q), pc'[q] = "insert"
                 PROVE  /\ pc'[s] = "insert" => s \in raced'
                        /\ pc'[s] = "running" => s \in raced' \/ Lapsed(s)
      BY DEF SectionsOverlapOnlyIfRaced
    <3>1. CASE q = r
      BY <3>1, <2>4, <2>5 DEF Share, InSection
    <3>2. CASE s = r
      BY <3>2, <2>4
    <3>3. CASE q # r /\ s # r
      BY <3>3 DEF LockInv, SectionsOverlapOnlyIfRaced
    <3> QED
      BY <3>1, <3>2, <3>3
  <2>7. (NothingWhereItHasNot /\ OwnsWhatItUpserted)'
    BY <2>3 DEF LockInv, NothingWhereItHasNot, OwnsWhatItUpserted, Taken, InSection
  <2> QED
    BY <2>1, <2>2, <2>6, <2>7 DEF LockInv
<1>6. ASSUME NEW r \in Runs, NEW i \in LockIds, InsertRow(r, i) PROVE LockInv'
  <2> USE <1>6 DEF InsertRow, TypeOK, Phases
  <2>1. (StartedInThePast /\ PendingOnlyWhileInserting /\ SectionsOverlapOnlyIfRaced)'
    BY DEF LockInv, StartedInThePast, PendingOnlyWhileInserting, SectionsOverlapOnlyIfRaced
  <2>2. i \in IdsOf[r]
    BY DEF LockInv, PendingOnlyWhileInserting
  <2>3. /\ \A j \in LockIds \ {i} : locks'[j] = locks[j]
        /\ Taken(locks, i) => locks'[i].owner = locks[i].owner
        /\ ~Taken(locks, i) => locks'[i].owner = r
        /\ locks'[i].expiresAt = ExpiryOf(r)
    BY UpsertedRow
  <2>4. RowsHaveLiveOrCrashedOwners'
    BY <2>2, <2>3 DEF LockInv, RowsHaveLiveOrCrashedOwners, Taken
  <2>5. \A s \in Runs \ raced : s # r /\ i \in IdsOf[s] =>
          /\ pc[s] # "insert"
          /\ pc[s] = "running" => Lapsed(s)
    BY <2>2 DEF LockInv, SectionsOverlapOnlyIfRaced, Share
  <2>6. NothingWhereItHasNot'
    BY <2>3, <2>5, <2>2 DEF LockInv, NothingWhereItHasNot, PendingOnlyWhileInserting, Taken
  <2>7. OwnsWhatItUpserted'
    BY <2>3, <2>5 DEF LockInv, OwnsWhatItUpserted, NothingWhereItHasNot
  <2> QED
    BY <2>1, <2>4, <2>6, <2>7 DEF LockInv
<1>7. ASSUME NEW r \in Runs, Acquired(r) PROVE LockInv'
  <2> USE <1>7 DEF Acquired, TypeOK, Phases
  <2>1. (StartedInThePast /\ PendingOnlyWhileInserting)'
    BY DEF LockInv, StartedInThePast, PendingOnlyWhileInserting
  <2>2. RowsHaveLiveOrCrashedOwners'
    BY DEF LockInv, RowsHaveLiveOrCrashedOwners, Taken, Table, Row
  <2>3. SectionsOverlapOnlyIfRaced'
    BY DEF LockInv, SectionsOverlapOnlyIfRaced
  <2>4. (NothingWhereItHasNot /\ OwnsWhatItUpserted)'
    BY DEF LockInv, NothingWhereItHasNot, OwnsWhatItUpserted, Taken
  <2> QED
    BY <2>1, <2>2, <2>3, <2>4 DEF LockInv
<1>8. ASSUME NEW r \in Runs, Release(r) PROVE LockInv'
  <2> USE <1>8 DEF Release, TypeOK, Phases
  <2>1. (StartedInThePast /\ PendingOnlyWhileInserting /\ SectionsOverlapOnlyIfRaced)'
    BY DEF LockInv, StartedInThePast, PendingOnlyWhileInserting, SectionsOverlapOnlyIfRaced
  <2>2. \A j \in LockIds : /\ locks[j].owner = r => locks'[j] = Absent
                           /\ locks[j].owner # r => locks'[j] = locks[j]
    BY DeletedRow
  <2>3. RowsHaveLiveOrCrashedOwners'
    BY <2>2 DEF LockInv, RowsHaveLiveOrCrashedOwners, Taken, Absent, Table, Row
  <2>4. (NothingWhereItHasNot /\ OwnsWhatItUpserted)'
    BY <2>2 DEF LockInv, NothingWhereItHasNot, OwnsWhatItUpserted, Taken, Absent
  <2> QED
    BY <2>1, <2>3, <2>4 DEF LockInv
<1>9. CASE UNCHANGED vars
  BY <1>9 DEF vars, LockInv, TypeOK, StartedInThePast, PendingOnlyWhileInserting,
     RowsHaveLiveOrCrashedOwners, SectionsOverlapOnlyIfRaced, NothingWhereItHasNot,
     OwnsWhatItUpserted, Taken
<1> QED
  BY <1>1, <1>2, <1>3, <1>4, <1>5, <1>6, <1>7, <1>8, <1>9 DEF Next, Step

(* The strengthening holds in every reachable state: an unraced run owns   *)
(* what it has upserted until its lease lapses.                            *)
THEOREM LockInvariant == Spec => []LockInv
<1>1. Init => LockInv
  BY IdsOfAssumption, TimeAssumption
     DEF Init, LockInv, TypeOK, Phases, Empty, Table, Row, Absent, Taken,
         StartedInThePast, PendingOnlyWhileInserting, RowsHaveLiveOrCrashedOwners,
         SectionsOverlapOnlyIfRaced, NothingWhereItHasNot, OwnsWhatItUpserted
<1> QED
  BY <1>1, LockInvStep, PTL DEF Spec

(* Mutual exclusion as far as acquire provides it: two runs that hold the  *)
(* lock of one domain at a time include one that raced in acquire or has   *)
(* outlived its lease.                                                     *)
THEOREM Exclusion == Spec => []ExclusiveUnlessRacedOrLapsed
<1>1. LockInv => ExclusiveUnlessRacedOrLapsed
  BY IdsOfAssumption DEF LockInv, PendingOnlyWhileInserting, OwnsWhatItUpserted,
     ExclusiveUnlessRacedOrLapsed, Running, Share
<1> QED
  BY <1>1, LockInvariant, PTL

(* Refused and released runs own no row.                                   *)
THEOREM NoLeak == Spec => []RowsHaveLiveOrCrashedOwners
<1>1. LockInv => RowsHaveLiveOrCrashedOwners
  BY DEF LockInv
<1> QED
  BY <1>1, LockInvariant, PTL

(* A live lock is never taken away from its owner.                         *)
THEOREM LeaseKept == Spec => LeaseEndsByExpiryOrRelease
<1> DEFINE Kept == \A i \in LockIds : Taken(locks, i) /\ locks'[i].owner # locks[i].owner =>
              \/ locks[i].expiresAt < now
              \/ pc[locks[i].owner] = "running" /\ pc'[locks[i].owner] = "done"
<1>1. LockInv /\ [Next]_vars => [Kept]_vars
  <2> SUFFICES ASSUME LockInv, Next PROVE Kept
    BY DEF vars
  <2> USE DEF LockInv, TypeOK, Goto
  <2>1. ASSUME NEW r \in Runs, Purge(r) PROVE Kept
    BY <2>1, PurgedRow DEF Purge, StartedInThePast, Table, Row
  <2>2. ASSUME NEW r \in Runs, NEW i \in LockIds, InsertRow(r, i) PROVE Kept
    <3> ExpiryOf(r) \in Int
      BY TimeAssumption DEF ExpiryOf
    <3> QED
      BY <2>2, UpsertedRow DEF InsertRow
  <2>3. ASSUME NEW r \in Runs, Release(r) PROVE Kept
    BY <2>3, DeletedRow DEF Release
  <2>4. ASSUME UNCHANGED locks PROVE Kept
    BY <2>4
  <2> QED
    BY <2>1, <2>2, <2>3, <2>4 DEF Next, Step, Tick, Begin, Refuse, PassCheck, Acquired, Crash
<1> QED
  BY <1>1, LockInvariant, PTL DEF Spec, LeaseEndsByExpiryOrRelease
=============================================================================
