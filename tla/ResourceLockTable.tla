-------------------------- MODULE ResourceLockTable --------------------------
(***************************************************************************)
(* The ResourceLock table (server/db/schema.ts) and the SQL statements     *)
(* that server/core/resource-locks/service.ts runs on it.  D1 executes     *)
(* each statement atomically and offers no transaction across statements,  *)
(* so there is one operator per statement; the order in which a run issues *)
(* them is left to the modules that use this one.                          *)
(***************************************************************************)
EXTENDS Integers

CONSTANTS
  LockIds,  \* primary keys: lockIdOf(domain), one per full domain name
  Runs,     \* lock owners: the uuidv7 run ids
  NoRun     \* owner of a row that is not in the table

ASSUME NoRunAssumption == NoRun \notin Runs

Row    == [owner : Runs \cup {NoRun}, expiresAt : Int]
Table  == [LockIds -> Row]
Absent == [owner |-> NoRun, expiresAt |-> 0]
Empty  == [i \in LockIds |-> Absent]

Taken(t, i) == t[i].owner # NoRun

(* A slip: <= for <, so that a lease ends one instant early. *)
PurgeThroughNow(t, ids, now) ==
  [i \in LockIds |->
     IF i \in ids /\ Taken(t, i) /\ t[i].expiresAt <= now THEN Absent ELSE t[i]]

(* DELETE ... WHERE id IN ids AND expiresAt < now *)
PurgeExpired(t, ids, now) ==
  [i \in LockIds |->
     IF i \in ids /\ Taken(t, i) /\ t[i].expiresAt < now THEN Absent ELSE t[i]]

(* SELECT ... WHERE id IN ids, then existing.find(row.owner # owner) *)
HeldByAnother(t, ids, r) == \E i \in ids : Taken(t, i) /\ t[i].owner # r

(* A slip: the conflict clause also sets the owner. *)
UpsertTakesOver(t, i, r, expiry) ==
  [t EXCEPT ![i] = [owner |-> r, expiresAt |-> expiry]]

(* INSERT ... ON CONFLICT (id) DO UPDATE SET expiresAt, remark: a row that  *)
(* is already there keeps its owner.                                        *)
Upsert(t, i, r, expiry) ==
  [t EXCEPT ![i] =
     [owner |-> IF Taken(t, i) THEN t[i].owner ELSE r, expiresAt |-> expiry]]

(* DELETE ... WHERE owner = owner *)
DeleteOwned(t, r) == [i \in LockIds |-> IF t[i].owner = r THEN Absent ELSE t[i]]
=============================================================================
