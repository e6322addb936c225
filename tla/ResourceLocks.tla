---------------------------- MODULE ResourceLocks ----------------------------
(***************************************************************************)
(* Runs that take the domain locks, hold them while they issue, and give   *)
(* them back (acquire and release in server/core/resource-locks/service.ts *)
(* as runIssue's callers use them).  acquire is four kinds of statement    *)
(* with an await between any two, so each is a step of its own and other   *)
(* runs interleave; a Worker may be evicted at any of them, and then       *)
(* nothing releases what the run had inserted.                             *)
(***************************************************************************)
EXTENDS ResourceLockTable

CONSTANTS
  IdsOf,    \* the lock ids each run asks for
  TTL,      \* ttlMs: ISSUE_TTL_MS at every call site
  MaxTime   \* bound on the clock

ASSUME IdsOfAssumption == IdsOf \in [Runs -> (SUBSET LockIds) \ {{}}]
ASSUME TimeAssumption  == TTL \in Nat /\ MaxTime \in Nat

VARIABLES
  now,      \* Date.now()
  locks,    \* the ResourceLock table
  pc,       \* where each run is
  started,  \* the `now` a run's acquire computed
  pending,  \* ids whose row the run still has to upsert
  raced     \* history: runs whose check-to-last-upsert section overlapped
            \* that of another run asking for one of the same ids

vars == <<now, locks, pc, started, pending, raced>>

Phases == {"idle", "purge", "check", "insert", "running", "done", "refused", "crashed"}

TypeOK ==
  /\ now \in Nat
  /\ locks \in Table
  /\ pc \in [Runs -> Phases]
  /\ started \in [Runs -> Nat]
  /\ pending \in [Runs -> SUBSET LockIds]
  /\ raced \in SUBSET Runs

Goto(r, from, to) == pc[r] = from /\ pc' = [pc EXCEPT ![r] = to]

ExpiryOf(r)    == started[r] + TTL
Share(r, s)    == IdsOf[r] \cap IdsOf[s] # {}
InSection(r)   == {s \in Runs \ {r} : pc[s] = "insert" /\ Share(r, s)}

Init ==
  /\ now = 0
  /\ locks = Empty
  /\ pc = [r \in Runs |-> "idle"]
  /\ started = [r \in Runs |-> 0]
  /\ pending = [r \in Runs |-> {}]
  /\ raced = {}

Begin(r) ==
  /\ Goto(r, "idle", "purge")
  /\ started' = [started EXCEPT ![r] = now]
  /\ UNCHANGED <<now, locks, pending, raced>>

Purge(r) ==
  /\ Goto(r, "purge", "check")
  /\ locks' = PurgeExpired(locks, IdsOf[r], started[r])
  /\ UNCHANGED <<now, started, pending, raced>>

Refuse(r) ==
  /\ HeldByAnother(locks, IdsOf[r], r)
  /\ Goto(r, "check", "refused")
  /\ UNCHANGED <<now, locks, started, pending, raced>>

PassCheck(r) ==
  /\ ~HeldByAnother(locks, IdsOf[r], r)
  /\ Goto(r, "check", "insert")
  /\ pending' = [pending EXCEPT ![r] = IdsOf[r]]
  /\ raced' = IF InSection(r) = {} THEN raced
                                   ELSE raced \cup InSection(r) \cup {r}
  /\ UNCHANGED <<now, locks, started>>

InsertRow(r, i) ==
  /\ pc[r] = "insert"
  /\ i \in pending[r]
  /\ locks' = Upsert(locks, i, r, ExpiryOf(r))
  /\ pending' = [pending EXCEPT ![r] = @ \ {i}]
  /\ UNCHANGED <<now, pc, started, raced>>

Acquired(r) ==
  /\ pending[r] = {}
  /\ Goto(r, "insert", "running")
  /\ UNCHANGED <<now, locks, started, pending, raced>>

(* A slip: no finally, the rows stay behind. *)
ReleaseNothing(r) ==
  /\ Goto(r, "running", "done")
  /\ UNCHANGED <<now, locks, started, pending, raced>>

(* runIssue's finally block, whether the issuance succeeded or failed. *)
Release(r) ==
  /\ Goto(r, "running", "done")
  /\ locks' = DeleteOwned(locks, r)
  /\ UNCHANGED <<now, started, pending, raced>>

(* Eviction of the Worker, a failed D1 call inside acquire, or an exception *)
(* between acquire and runIssue: no release follows.                        *)
Crash(r) ==
  /\ pc[r] \in {"purge", "check", "insert", "running"}
  /\ pc' = [pc EXCEPT ![r] = "crashed"]
  /\ UNCHANGED <<now, locks, started, pending, raced>>

Tick ==
  /\ now < MaxTime
  /\ now' = now + 1
  /\ UNCHANGED <<locks, pc, started, pending, raced>>

Step(r) ==
  \/ Begin(r) \/ Purge(r) \/ Refuse(r) \/ PassCheck(r)
  \/ \E i \in LockIds : InsertRow(r, i)
  \/ Acquired(r) \/ Release(r) \/ Crash(r)

Next == Tick \/ \E r \in Runs : Step(r)

Spec == Init /\ [][Next]_vars

-----------------------------------------------------------------------------
Running      == {r \in Runs : pc[r] = "running"}
Lapsed(r)    == ExpiryOf(r) < now

(* Two runs that believe they hold the lock of a common domain: one of     *)
(* them raced inside acquire or has outlived its 120 s lease.  acquire     *)
(* gives mutual exclusion in every other case.                             *)
ExclusiveUnlessRacedOrLapsed ==
  \A r, s \in Running \ raced :
    r # s /\ Share(r, s) => Lapsed(r) \/ Lapsed(s)

(* A row's owner is a run that asked for that id and is still inserting,   *)
(* issuing, or died doing so: a run that was refused or that released      *)
(* leaves no row behind, whatever upserts it raced with.                   *)
RowsHaveLiveOrCrashedOwners ==
  \A i \in LockIds : Taken(locks, i) =>
    /\ pc[locks[i].owner] \in {"insert", "running", "crashed"}
    /\ i \in IdsOf[locks[i].owner]

(* A row changes or loses its owner only when its lease has expired or the *)
(* owner itself releases: no acquire and no foreign release takes a live   *)
(* lock away (DELETE by owner, purge by expiry, upsert keeps the owner).   *)
LeaseEndsByExpiryOrRelease ==
  [][\A i \in LockIds : Taken(locks, i) /\ locks'[i].owner # locks[i].owner =>
       \/ locks[i].expiresAt < now
       \/ pc[locks[i].owner] = "running" /\ pc'[locks[i].owner] = "done"]_vars
=============================================================================
