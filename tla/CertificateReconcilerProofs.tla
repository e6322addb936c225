--------------------- MODULE CertificateReconcilerProofs ---------------------
(***************************************************************************)
(* The operator never loses an object, for any number of objects, users    *)
(* and failures.  AlwaysScheduled is inductive together with the types: an *)
(* object leaves the queue only into the worker's hands, and every way out *)
(* of the worker either arms a requeue or ends the object.                 *)
(*                                                                         *)
(* And what it reports as Ready stands: whatever takes a secret away, or   *)
(* makes what the worker has read out of date, queues the object again.    *)
(***************************************************************************)
EXTENDS CertificateReconciler, TLAPS

LEMMA Choices ==
  /\ NoCr \in Cr /\ NoCr.at = "none"
  /\ NoSecret \in Secret /\ NoSecret.version = 0
  /\ Idle \in Work /\ Idle.at = "idle"
  /\ \A s \in SecretNames, n \in NameSets : NewCr(s, n) \in Cr
<1>1. (CHOOSE s \in SecretNames : TRUE) \in SecretNames
  BY SomeAssumption
<1>2. (CHOOSE n \in NameSets : TRUE) \in NameSets
  BY SomeAssumption
<1>3. (CHOOSE c \in Crs : TRUE) \in Crs
  BY SomeAssumption
<1>4. NoCr \in Cr /\ NoCr.at = "none"
  BY <1>1, <1>2 DEF NoCr, Cr, Reasons
<1>5. NoSecret \in Secret /\ NoSecret.version = 0
  BY <1>2 DEF NoSecret, Secret
<1>6. Idle \in Work /\ Idle.at = "idle"
  BY <1>3, <1>4 DEF Idle, Work, Phases, Reasons
<1>7. \A s \in SecretNames, n \in NameSets : NewCr(s, n) \in Cr
  BY <1>4 DEF NewCr, Cr
<1> QED
  BY <1>4, <1>5, <1>6, <1>7

(* Initially every object that exists is queued. *)
LEMMA InitSchedules == RInit => RType /\ AlwaysScheduled
<1> SUFFICES ASSUME RInit PROVE RType /\ AlwaysScheduled
  OBVIOUS
<1>1. NoCr.secret \in SecretNames /\ NoCr.names \in NameSets
  BY Choices DEF Cr
<1>2. NewCr(NoCr.secret, NoCr.names) \in Cr
  BY <1>1, Choices
<1>3. crs \in [Crs -> Cr]
  BY <1>2, Choices DEF RInit
<1>4. secrets \in [SecretNames -> Secret] /\ \A s \in SecretNames : secrets[s].version = 0
  BY Choices DEF RInit
<1>5. claims \in [SecretNames -> SUBSET Crs]
  BY PresentAssumption DEF RInit
<1>6. work \in Work /\ version \in Nat /\ events \in Nat
  BY Choices DEF RInit
<1>7. AlwaysScheduled
  <2> SUFFICES ASSUME NEW c \in Crs, Exists(c) PROVE c \in queue
    BY DEF AlwaysScheduled
  <2> QED
    BY Choices DEF RInit, Exists
<1> QED
  BY <1>3, <1>4, <1>5, <1>6, <1>7, PresentAssumption DEF RType, RInit

-----------------------------------------------------------------------------
(* Users, the cluster and the hub. *)

LEMMA ChangedKeeps ==
  ASSUME RType, AlwaysScheduled, NEW c \in Crs, NEW cr \in Cr, Changed(c, cr),
         claims' \in [SecretNames -> SUBSET Crs]
  PROVE  RType' /\ AlwaysScheduled'
<1>1. RType'
  <2>1. \A b \in BOOLEAN : [work EXCEPT !.stale = b] \in Work
    BY DEF RType, Work
  <2>2. (work.stale \/ work.cr = c) \in BOOLEAN
    OBVIOUS
  <2>3. work' \in Work
    BY <2>1, <2>2, Zenon DEF Changed
  <2> QED
    BY <2>3 DEF RType, Changed, Event
<1>2. \A d \in Crs : Busy(d) => Busy(d)'
  BY DEF Changed, Busy, RType, Work
<1>3. \A d \in Crs : d # c /\ Exists(d)' => Exists(d)
  BY DEF Changed, Exists, RType
<1> QED
  BY <1>1, <1>2, <1>3 DEF AlwaysScheduled, Changed

LEMMA UsersKeep ==
  ASSUME RType, AlwaysScheduled, NEW c \in Crs, NEW s \in SecretNames, NEW n \in NameSets,
         Create(c, s, n) \/ EditSpec(c, s, n) \/ Delete(c)
  PROVE  RType' /\ AlwaysScheduled'
<1>1. CASE Create(c, s, n)
  BY <1>1, Choices, ChangedKeeps DEF Create, RType
<1>2. CASE EditSpec(c, s, n)
  <2> DEFINE cr == [crs[c] EXCEPT !.secret = s, !.names = n, !.gen = @ + 1]
  <2>1. cr \in Cr
    <3>1. crs[c] \in Cr /\ crs[c].gen + 1 \in Nat
      BY DEF RType, Cr
    <3>2. \A g \in Nat : [crs[c] EXCEPT !.secret = s, !.names = n, !.gen = g] \in Cr
      BY <3>1 DEF Cr
    <3>3. cr = [crs[c] EXCEPT !.secret = s, !.names = n, !.gen = crs[c].gen + 1]
      BY Zenon
    <3> QED
      BY <3>1, <3>2, <3>3
  <2>2. Changed(c, cr)
    BY <1>2 DEF EditSpec
  <2>3. claims' \in [SecretNames -> SUBSET Crs]
    BY <1>2 DEF EditSpec, RType
  <2> HIDE DEF cr
  <2> QED
    BY <2>1, <2>2, <2>3, ChangedKeeps
<1>3. CASE Delete(c)
  <2>1. [crs[c] EXCEPT !.at = IF crs[c].finalizer THEN "deleting" ELSE "gone"] \in Cr
    <3>1. \A a \in {"deleting", "gone"} : [crs[c] EXCEPT !.at = a] \in Cr
      BY DEF RType, Cr
    <3> QED
      BY <3>1, Zenon
  <2> QED
    BY <1>3, <2>1, ChangedKeeps DEF Delete, RType
<1> QED
  BY <1>1, <1>2, <1>3

LEMMA ClusterKeeps ==
  ASSUME RType, AlwaysScheduled,
         \/ \E s \in SecretNames : RemoveSecret(s) \/ GarbageCollect(s)
         \/ \E c \in Crs : TimerFires(c)
         \/ Restart \/ HubRenews
  PROVE  RType' /\ AlwaysScheduled'
<1>1. ASSUME NEW s \in SecretNames, RemoveSecret(s) \/ GarbageCollect(s)
      PROVE  RType' /\ AlwaysScheduled'
  <2>1. RType'
    BY <1>1, Choices DEF RType, RemoveSecret, GarbageCollect, Event
  <2> QED
    BY <1>1, <2>1 DEF AlwaysScheduled, RemoveSecret, GarbageCollect, Exists, Busy
<1>2. ASSUME NEW c \in Crs, TimerFires(c) PROVE RType' /\ AlwaysScheduled'
  <2>1. RType'
    BY <1>2 DEF RType, TimerFires
  <2> QED
    BY <1>2, <2>1 DEF AlwaysScheduled, TimerFires, Exists, Busy
<1>3. CASE Restart
  <2>1. RType'
    BY <1>3, Choices DEF RType, Restart, Event
  <2> QED
    BY <1>3, <2>1 DEF AlwaysScheduled, Restart, Exists
<1>4. CASE HubRenews
  <2>1. RType'
    BY <1>4 DEF RType, HubRenews, Event
  <2> QED
    BY <1>4, <2>1 DEF AlwaysScheduled, HubRenews, Exists, Busy
<1> QED
  BY <1>1, <1>2, <1>3, <1>4

-----------------------------------------------------------------------------
(* The worker.  A step that keeps the object in hand cannot lose it; a step *)
(* that lets go of it arms a requeue.                                       *)

LEMMA StillInHand ==
  ASSUME RType, AlwaysScheduled, work' \in Work,
         work.at # "idle", work'.at # "idle", work'.cr = work.cr,
         queue \subseteq queue', armed' = armed,
         \A c \in Crs : Exists(c)' => Exists(c)
  PROVE  AlwaysScheduled'
BY DEF AlwaysScheduled, Busy

LEMMA LetGo ==
  ASSUME RType, AlwaysScheduled,
         queue \subseteq queue', armed \subseteq armed',
         \A c \in Crs : Exists(c)' => Exists(c),
         NEW d, d = work.cr, Exists(d)' => d \in armed'
  PROVE  AlwaysScheduled'
BY DEF AlwaysScheduled, Busy

LEMMA DequeueKeeps ==
  ASSUME RType, AlwaysScheduled, NEW c \in Crs, Dequeue(c)
  PROVE  RType' /\ AlwaysScheduled'
<1>1. CASE Exists(c)
  <2>1. \A a \in Phases : [Idle EXCEPT !.cr = c, !.seen = crs[c], !.at = a] \in Work
    BY Choices DEF Work, RType
  <2>2. /\ FirstStep(crs[c]) \in Phases \ {"idle"}
        /\ work' = [Idle EXCEPT !.cr = c, !.seen = crs[c], !.at = FirstStep(crs[c])]
    BY <1>1 DEF Dequeue, FirstStep, Phases
  <2>3. work' \in Work /\ work'.at # "idle" /\ work'.cr = c
    BY <2>1, <2>2, Choices DEF Work
  <2>4. RType'
    BY <1>1, <2>3 DEF Dequeue, RType
  <2> QED
    BY <1>1, <2>3, <2>4 DEF AlwaysScheduled, Dequeue, Exists, Busy
<1>2. CASE ~Exists(c)
  <2>1. RType'
    BY <1>2 DEF Dequeue, RType
  <2> QED
    BY <1>2, <2>1 DEF AlwaysScheduled, Dequeue, Exists, Busy
<1> QED
  BY <1>1, <1>2

LEMMA UpdateTypes ==
  ASSUME RType, NEW cr \in Cr, Update(cr)
  PROVE  /\ crs' \in [Crs -> Cr] /\ queue' \in SUBSET Crs /\ queue \subseteq queue'
         /\ UNCHANGED <<secrets, version, claims, events>>
BY DEF RType, Update, Work

LEMMA SyncedTypes == RType => Synced \in Cr
BY DEF RType, Synced, Work, Cr, Reasons

LEMMA WorkerKeeps ==
  ASSUME RType, AlwaysScheduled, WorkerStep
  PROVE  RType' /\ AlwaysScheduled'
<1> DEFINE c == work.cr
<1>0. /\ c \in Crs /\ work.seen \in Cr /\ work.seen.secret \in SecretNames
      /\ work.seen.names \in NameSets /\ work.reply \in Nat
  BY DEF RType, Work, Cr
<1>1. CASE Cleanup
  <2> DEFINE s == work.seen.secret
  <2>1. CASE secrets[s].version = 0 \/ CanDelete
    <3>1. work' \in Work /\ work'.at # "idle" /\ work'.cr = c
      BY <1>1, <2>1 DEF Cleanup, Goto, RType, Work, Phases
    <3>2. RType'
      BY <1>0, <1>1, <2>1, <3>1, Choices DEF Cleanup, Goto, RType, Secret
    <3> QED
      BY <1>1, <2>1, <3>1, <3>2, StillInHand DEF Cleanup, Goto, Exists
  <2>2. CASE ~(secrets[s].version = 0 \/ CanDelete)
    <3>1. RType'
      BY <1>0, <1>1, <2>2, Choices DEF Cleanup, ReturnError, RType
    <3> QED
      BY <1>0, <1>1, <2>2, <3>1, LetGo DEF Cleanup, ReturnError, Exists
  <2> QED
    BY <2>1, <2>2
<1>2. CASE RemoveFinalizer
  <2> DEFINE cr == [work.seen EXCEPT !.at = "gone"]
  <2>1. cr \in Cr /\ cr.at = "gone" /\ Update(cr)
    BY <1>0, <1>2 DEF Cr, RemoveFinalizer
  <2>2. RType'
    BY <1>0, <1>2, <2>1, UpdateTypes, Choices DEF RemoveFinalizer, RType
  <2>3. \A d \in Crs : Exists(d)' => Exists(d) /\ d # c
    BY <1>0, <2>1 DEF Update, Exists, RType
  <2> QED
    BY <1>0, <1>2, <2>1, <2>2, <2>3, UpdateTypes, LetGo DEF RemoveFinalizer
<1>3. CASE Conflict
  <2>1. RType'
    BY <1>0, <1>3, Choices DEF Conflict, ReturnError, RType
  <2> QED
    BY <1>0, <1>3, <2>1, LetGo DEF Conflict, ReturnError, Exists
<1>4. CASE AddFinalizer
  <2> DEFINE cr == [work.seen EXCEPT !.finalizer = TRUE]
  <2>1. cr \in Cr /\ cr.at = work.seen.at /\ Update(cr)
    BY <1>0, <1>4 DEF Cr, AddFinalizer
  <2>2. work' \in Work /\ work'.at # "idle" /\ work'.cr = c
    BY <1>4, <2>1 DEF AddFinalizer, RType, Work, Phases
  <2>3. RType'
    BY <1>4, <2>1, <2>2, UpdateTypes DEF AddFinalizer, RType
  <2>4. \A d \in Crs : d # c /\ Exists(d)' => Exists(d)
    BY <2>1 DEF Update, Exists, RType
  <2>5. queue \subseteq queue' /\ armed' = armed
    BY <1>4, <2>1, UpdateTypes DEF AddFinalizer
  <2> QED
    BY <2>2, <2>3, <2>4, <2>5 DEF AlwaysScheduled, Busy
<1>5. CASE ResolveConsumer \/ Issue
  <2>1. work' \in Work /\ work'.at # "idle" /\ work'.cr = c /\ work.at # "idle"
    BY <1>5 DEF ResolveConsumer, Issue, Goto, RType, Work, Phases
  <2>2. RType'
    BY <1>5, <2>1 DEF ResolveConsumer, Issue, RType
  <2> QED
    BY <1>5, <2>1, <2>2, StillInHand DEF ResolveConsumer, Issue, Exists
<1>6. CASE WriteSecret
  <2>1. work' \in Work /\ work'.at # "idle" /\ work'.cr = c /\ work.at # "idle"
    <3>1. \A b \in BOOLEAN, v \in Reasons :
            [work EXCEPT !.at = "report", !.changed = b, !.verdict = v] \in Work
      BY DEF RType, Work, Phases
    <3>2. \E b \in BOOLEAN, v \in Reasons :
            work' = [work EXCEPT !.at = "report", !.changed = b, !.verdict = v]
      BY <1>6 DEF WriteSecret, Reasons
    <3> QED
      BY <1>6, <3>1, <3>2 DEF WriteSecret, RType, Work
  <2>2. [owner |-> c, names |-> work.seen.names, version |-> work.reply] \in Secret
    BY <1>0 DEF Secret
  <2>3. RType'
    BY <1>0, <1>6, <2>1, <2>2 DEF WriteSecret, RType
  <2> QED
    BY <1>0, <1>6, <2>1, <2>3, StillInHand DEF WriteSecret, Exists
<1>7. CASE ReportSynced
  <2>1. Synced \in Cr /\ Synced.at = work.seen.at
    BY <1>0, SyncedTypes DEF Synced, Cr
  <2>2. RType'
    BY <1>0, <1>7, <2>1, Choices DEF ReportSynced, RType
  <2>3. c \in armed' /\ queue \subseteq queue' /\ armed \subseteq armed'
    BY <1>7 DEF ReportSynced
  <2>4. \A d \in Crs : d # c /\ Exists(d)' => Exists(d)
    BY <1>7 DEF ReportSynced, Exists, RType
  <2> QED
    BY <2>2, <2>3, <2>4 DEF AlwaysScheduled, Busy
<1>8. CASE ReportFailure
  <2> DEFINE cr == [work.seen EXCEPT !.ready = work.verdict]
  <2>1. cr \in Cr /\ Update(cr)
    BY <1>0, <1>8 DEF Cr, ReportFailure, RType, Work
  <2>2. RType'
    BY <1>0, <1>8, <2>1, UpdateTypes, Choices DEF ReportFailure, ReturnError, RType
  <2>3. c \in armed' /\ queue \subseteq queue' /\ armed \subseteq armed'
    BY <1>8, <2>1, UpdateTypes DEF ReportFailure, ReturnError
  <2>4. \A d \in Crs : d # c /\ Exists(d)' => Exists(d)
    BY <2>1 DEF Update, Exists, RType
  <2> QED
    BY <2>2, <2>3, <2>4 DEF AlwaysScheduled, Busy
<1> QED
  BY <1>1, <1>2, <1>3, <1>4, <1>5, <1>6, <1>7, <1>8 DEF WorkerStep

LEMMA FailingCallsKeep ==
  ASSUME RType, AlwaysScheduled, CallFails
  PROVE  RType' /\ AlwaysScheduled'
<1> DEFINE c == work.cr
<1>0. c \in Crs
  BY DEF RType, Work
<1>1. CASE ReturnError
  <2>1. RType'
    BY <1>0, <1>1, Choices DEF CallFails, Event, ReturnError, RType
  <2> QED
    BY <1>0, <1>1, <2>1, LetGo DEF CallFails, ReturnError, Exists
<1>2. CASE Goto("cleanup", "unfinalize") /\ UNCHANGED <<armed, failing>>
  <2>1. work' \in Work /\ work'.at # "idle" /\ work'.cr = c /\ work.at # "idle"
    BY <1>2 DEF Goto, RType, Work, Phases
  <2>2. RType'
    BY <1>2, <2>1 DEF CallFails, Event, RType
  <2> QED
    BY <1>2, <2>1, <2>2, StillInHand DEF CallFails, Exists
<1>3. ASSUME work.at \in {"resolve", "issue", "write"}, UNCHANGED <<armed, failing>>,
             NEW v \in Reasons, work' = [work EXCEPT !.at = "report", !.verdict = v]
      PROVE  RType' /\ AlwaysScheduled'
  <2>1. work' \in Work /\ work'.at # "idle" /\ work'.cr = c /\ work.at # "idle"
    BY <1>3 DEF RType, Work, Phases
  <2>2. RType'
    BY <1>3, <2>1 DEF CallFails, Event, RType
  <2> QED
    BY <1>3, <2>1, <2>2, StillInHand DEF CallFails, Exists
<1>4. (CASE work.at = "resolve" -> "ConsumerNotReady"
         [] work.at = "issue"   -> "IssueFailed"
         [] work.at = "write"   -> "SecretWriteError") \in Reasons
      \/ work.at \notin {"resolve", "issue", "write"}
  BY DEF Reasons
<1> QED
  BY <1>1, <1>2, <1>3, <1>4, Zenon DEF CallFails

-----------------------------------------------------------------------------
LEMMA NextKeeps == RType /\ AlwaysScheduled /\ [RNext]_vars => RType' /\ AlwaysScheduled'
<1> SUFFICES ASSUME RType, AlwaysScheduled, [RNext]_vars PROVE RType' /\ AlwaysScheduled'
  OBVIOUS
<1>1. CASE RNext
  <2>1. ASSUME NEW c \in Crs, NEW s \in SecretNames, NEW n \in NameSets,
               Create(c, s, n) \/ EditSpec(c, s, n) \/ Delete(c)
        PROVE  RType' /\ AlwaysScheduled'
    BY <2>1, UsersKeep
  <2>2. ASSUME NEW c \in Crs, Delete(c) PROVE RType' /\ AlwaysScheduled'
    BY <2>1, <2>2, SomeAssumption
  <2>3. ASSUME NEW c \in Crs, Dequeue(c) PROVE RType' /\ AlwaysScheduled'
    BY <2>3, DequeueKeeps
  <2> QED
    BY <1>1, <2>1, <2>2, <2>3, ClusterKeeps, WorkerKeeps, FailingCallsKeep, Zenon DEF RNext
<1>2. CASE UNCHANGED vars
  BY <1>2 DEF vars, RType, AlwaysScheduled, Exists, Busy
<1> QED
  BY <1>1, <1>2

(* Types: in particular only names of objects are ever queued, and a secret *)
(* that exists has an owner the garbage collector can look up.              *)
THEOREM ReconcilerTypes == RSpec => []RType
<1>1. RInit => RType /\ AlwaysScheduled
  BY InitSchedules
<1>2. RType /\ AlwaysScheduled /\ [RNext]_vars => (RType /\ AlwaysScheduled)'
  BY NextKeeps
<1> QED
  BY <1>1, <1>2, PTL DEF RSpec

(* No failure, conflict, restart or edit, in any number and order, makes the *)
(* operator forget an object that exists (Reconcile's results).              *)
THEOREM NothingIsForgotten == RSpec => []AlwaysScheduled
<1>1. RInit => RType /\ AlwaysScheduled
  BY InitSchedules
<1>2. RType /\ AlwaysScheduled /\ [RNext]_vars => (RType /\ AlwaysScheduled)'
  BY NextKeeps
<1> QED
  BY <1>1, <1>2, PTL DEF RSpec

-----------------------------------------------------------------------------
(* What a secret's owner and the worker know of it.  Whoever names a secret *)
(* is among its claimants, and so are the owner of one and the reconcile    *)
(* under way, which may have read an older spec.                            *)
ClaimsAreKept ==
  /\ \A c \in Crs : crs[c].at # "none" => c \in claims[crs[c].secret]
  /\ \A s \in SecretNames : secrets[s].version # 0 => secrets[s].owner \in claims[s]
  /\ work.at # "idle" => work.cr \in claims[work.seen.secret]

(* What the worker has read is current, or its object is queued again.      *)
SeenOrQueued ==
  work.at # "idle" => IF work.stale THEN work.cr \in queue ELSE work.seen = crs[work.cr]

(* The hub's answers count from 1.                                          *)
RepliesCount ==
  /\ version > 0
  /\ work.at = "write" \/ (work.at = "report" /\ work.verdict = "Synced") => work.reply > 0

Backed(s, n, v) == secrets[s].names = n /\ secrets[s].version >= v /\ v > 0

(* What is about to be reported stands, or its object is queued again.      *)
WrittenOrQueued ==
  work.at = "report" /\ work.verdict = "Synced" /\ claims[work.seen.secret] = {work.cr}
    => work.cr \in queue \/ Backed(work.seen.secret, work.seen.names, work.reply)

(* ReadyHasItsSecret, for one object.                                       *)
Promised(c) ==
  /\ crs[c].at = "live" /\ crs[c].ready = "Synced" /\ crs[c].obs = crs[c].gen
  /\ Settled(c) /\ claims[crs[c].secret] = {c}

Kept(c) == Promised(c) => Backed(crs[c].secret, crs[c].names, crs[c].version)

ReadyInv ==
  /\ ClaimsAreKept /\ SeenOrQueued /\ RepliesCount /\ WrittenOrQueued
  /\ \A c \in Crs : Kept(c)

LEMMA KeptIsReady == ReadyHasItsSecret <=> \A c \in Crs : Kept(c)
BY DEF ReadyHasItsSecret, Kept, Promised, Backed

(* An object that a step leaves alone keeps its secret, unless another      *)
(* claimant took it or the object is queued.                                *)
LEMMA QuietKeeps ==
  ASSUME RType, ClaimsAreKept, NEW c \in Crs, Kept(c),
         crs'[c] = crs[c], Settled(c)' => Settled(c),
         \A s \in SecretNames : claims[s] \subseteq claims'[s],
         \/ secrets'[crs[c].secret] = secrets[crs[c].secret]
         \/ c \in queue'
         \/ \E d \in claims[crs[c].secret] : d # c
  PROVE  Kept(c)'
<1> SUFFICES ASSUME Promised(c)' PROVE Backed(crs[c].secret, crs[c].names, crs[c].version)'
  BY DEF Kept
<1>1. crs[c].secret \in SecretNames
  BY DEF RType, Cr
<1>2. c \notin queue'
  BY DEF Promised, Settled
<1>3. claims[crs[c].secret] = {c}
  <2>1. c \in claims[crs[c].secret]
    BY DEF ClaimsAreKept, Promised
  <2> QED
    BY <1>1, <2>1 DEF Promised
<1>4. Promised(c)
  BY <1>3 DEF Promised
<1> QED
  BY <1>2, <1>3, <1>4 DEF Kept, Backed

LEMMA ReadyInit == RInit => ReadyInv
<1> SUFFICES ASSUME RInit PROVE ReadyInv
  OBVIOUS
<1>1. work.at = "idle" /\ \A s \in SecretNames : secrets[s].version = 0
  BY Choices DEF RInit
<1>2. \A c \in Crs : crs[c].at # "none" => c \in queue /\ c \in claims[crs[c].secret]
  <2> SUFFICES ASSUME NEW c \in Crs, crs[c].at # "none" PROVE c \in queue /\ c \in claims[crs[c].secret]
    OBVIOUS
  <2>1. c \in Present /\ crs[c] = NewCr(NoCr.secret, NoCr.names)
    BY Choices DEF RInit
  <2>2. crs[c].secret = NoCr.secret /\ NoCr.secret \in SecretNames
    BY <2>1, Choices DEF NewCr, Cr
  <2> QED
    BY <2>1, <2>2 DEF RInit
<1>3. version > 0
  BY DEF RInit
<1> QED
  BY <1>1, <1>2, <1>3
     DEF ReadyInv, ClaimsAreKept, SeenOrQueued, RepliesCount, WrittenOrQueued, Kept, Promised, Settled

-----------------------------------------------------------------------------
LEMMA ChangedReady ==
  ASSUME RType, ReadyInv, NEW d \in Crs, NEW cr \in Cr, Changed(d, cr),
         RType', \A s \in SecretNames : claims[s] \subseteq claims'[s],
         d \in claims'[cr.secret]
  PROVE  ReadyInv'
<1>1. /\ crs'[d] = cr /\ \A c \in Crs \ {d} : crs'[c] = crs[c]
      /\ queue' = queue \cup {d}
      /\ UNCHANGED <<secrets, version, armed, failing>>
  BY DEF Changed, RType
<1>2. /\ work'.at = work.at /\ work'.cr = work.cr /\ work'.seen = work.seen
      /\ work'.reply = work.reply /\ work'.verdict = work.verdict
      /\ work'.stale <=> (work.stale \/ work.cr = d)
  BY DEF Changed, RType, Work
<1>3. \A c \in Crs : Kept(c)'
  <2> SUFFICES ASSUME NEW c \in Crs PROVE Kept(c)'
    OBVIOUS
  <2>1. CASE c = d
    BY <1>1, <2>1 DEF Kept, Promised, Settled
  <2>2. CASE c # d
    <3>1. Settled(c)' => Settled(c)
      BY <1>1, <1>2 DEF Settled, Busy
    <3> QED
      BY <1>1, <2>2, <3>1, QuietKeeps DEF ReadyInv
  <2> QED
    BY <2>1, <2>2
<1>4. ClaimsAreKept'
  <2>1. \A c \in Crs : crs'[c].at # "none" => c \in claims'[crs'[c].secret]
    BY <1>1 DEF ReadyInv, ClaimsAreKept, RType, Cr
  <2>2. work'.at # "idle" => work'.cr \in claims'[work'.seen.secret]
    BY <1>2 DEF ReadyInv, ClaimsAreKept, RType, Work, Cr
  <2> QED
    BY <1>1, <2>1, <2>2 DEF ReadyInv, ClaimsAreKept
<1>5. SeenOrQueued'
  BY <1>1, <1>2 DEF ReadyInv, SeenOrQueued, RType, Work
<1>6. RepliesCount'
  BY <1>1, <1>2 DEF ReadyInv, RepliesCount
<1>7. WrittenOrQueued'
  <2> SUFFICES ASSUME work'.at = "report", work'.verdict = "Synced",
                      claims'[work'.seen.secret] = {work'.cr}
               PROVE  \/ work'.cr \in queue'
                      \/ Backed(work.seen.secret, work.seen.names, work.reply)'
    BY DEF WrittenOrQueued
  <2>1. work.seen.secret \in SecretNames /\ work.cr \in claims[work.seen.secret]
    BY <1>2 DEF ReadyInv, ClaimsAreKept, RType, Work, Cr
  <2>2. claims[work.seen.secret] = {work.cr}
    BY <1>2, <2>1
  <2> QED
    BY <1>1, <1>2, <2>2 DEF ReadyInv, WrittenOrQueued, Backed
<1> QED
  BY <1>3, <1>4, <1>5, <1>6, <1>7 DEF ReadyInv

LEMMA UsersReady ==
  ASSUME RType, RType', ReadyInv, NEW c \in Crs, NEW s \in SecretNames, NEW n \in NameSets,
         Create(c, s, n) \/ EditSpec(c, s, n) \/ Delete(c)
  PROVE  ReadyInv'
<1>0. crs[c] \in Cr /\ crs'[c] \in Cr
  BY DEF RType
<1>1. CASE Create(c, s, n) \/ EditSpec(c, s, n)
  <2>1. /\ claims' = [claims EXCEPT ![s] = @ \cup {c}]
        /\ Changed(c, crs'[c]) /\ crs'[c].secret = s
    <3>1. ASSUME NEW cr, Changed(c, cr), cr.secret = s
          PROVE  Changed(c, crs'[c]) /\ crs'[c].secret = s
      BY <3>1 DEF Changed, RType
    <3>2. CASE Create(c, s, n)
      BY <3>1, <3>2, Choices DEF Create, NewCr, Cr
    <3>3. CASE EditSpec(c, s, n)
      BY <1>0, <3>1, <3>3 DEF EditSpec, Cr
    <3> QED
      BY <1>1, <3>2, <3>3
  <2>2. (\A x \in SecretNames : claims[x] \subseteq claims'[x]) /\ c \in claims'[crs'[c].secret]
    BY <2>1 DEF RType
  <2> QED
    BY <1>0, <2>1, <2>2, ChangedReady
<1>2. CASE Delete(c)
  <2>1. claims' = claims /\ Changed(c, crs'[c]) /\ crs'[c].secret = crs[c].secret
    BY <1>0, <1>2 DEF Delete, Changed, Cr, RType
  <2>2. c \in claims'[crs'[c].secret]
    BY <1>2, <2>1 DEF Delete, ReadyInv, ClaimsAreKept
  <2> QED
    BY <1>0, <2>1, <2>2, ChangedReady
<1> QED
  BY <1>1, <1>2

(* Taking a secret away queues its owner, who is one of its claimants.      *)
LEMMA TakenReady ==
  ASSUME RType, RType', ReadyInv, NEW s \in SecretNames,
         RemoveSecret(s) \/ GarbageCollect(s)
  PROVE  ReadyInv'
<1> DEFINE o == secrets[s].owner
<1>1. /\ secrets' = [secrets EXCEPT ![s] = NoSecret] /\ queue' = queue \cup {o}
      /\ UNCHANGED <<crs, version, failing, work, claims>>
      /\ o \in claims[s]
  BY DEF RemoveSecret, GarbageCollect, ReadyInv, ClaimsAreKept
<1> HIDE DEF o
<1>2. /\ \A x \in SecretNames \ {s} : secrets'[x] = secrets[x]
      /\ secrets'[s].version = 0
  BY <1>1, Choices DEF RType
<1>3. \A c \in Crs : Kept(c)'
  <2> SUFFICES ASSUME NEW c \in Crs PROVE Kept(c)'
    OBVIOUS
  <2>1. Settled(c)' => Settled(c)
    BY <1>1 DEF Settled, Busy
  <2>2. crs[c].secret \in SecretNames
    BY DEF RType, Cr
  <2>3. \/ secrets'[crs[c].secret] = secrets[crs[c].secret] \/ c \in queue'
        \/ \E d \in claims[crs[c].secret] : d # c
    BY <1>1, <1>2, <2>2
  <2> QED
    BY <1>1, <2>1, <2>3, QuietKeeps DEF ReadyInv
<1>4. ClaimsAreKept'
  BY <1>1, <1>2 DEF ReadyInv, ClaimsAreKept
<1>5. SeenOrQueued' /\ RepliesCount'
  BY <1>1 DEF ReadyInv, SeenOrQueued, RepliesCount
<1>6. WrittenOrQueued'
  <2> SUFFICES ASSUME work.at = "report", work.verdict = "Synced",
                      claims[work.seen.secret] = {work.cr}
               PROVE  work.cr \in queue' \/ Backed(work.seen.secret, work.seen.names, work.reply)'
    BY <1>1 DEF WrittenOrQueued
  <2>1. work.seen.secret \in SecretNames
    BY DEF RType, Work, Cr
  <2> QED
    BY <1>1, <1>2, <2>1 DEF ReadyInv, WrittenOrQueued, Backed
<1> QED
  BY <1>3, <1>4, <1>5, <1>6 DEF ReadyInv

LEMMA ClusterReady ==
  ASSUME RType, RType', ReadyInv, HubRenews \/ Restart \/ \E c \in Crs : TimerFires(c)
  PROVE  ReadyInv'
<1>1. CASE Restart
  <2>1. \A c \in Crs : Kept(c)'
    BY <1>1 DEF Restart, Kept, Promised, Settled, Exists
  <2>2. work'.at = "idle" /\ UNCHANGED <<crs, secrets, version, claims>>
    BY <1>1, Choices DEF Restart
  <2>3. ClaimsAreKept' /\ SeenOrQueued' /\ RepliesCount' /\ WrittenOrQueued'
    BY <2>2 DEF ReadyInv, ClaimsAreKept, SeenOrQueued, RepliesCount, WrittenOrQueued
  <2> QED
    BY <2>1, <2>3 DEF ReadyInv
<1>2. CASE HubRenews \/ \E c \in Crs : TimerFires(c)
  <2>1. /\ UNCHANGED <<crs, secrets, failing, work, claims>> /\ queue \subseteq queue'
        /\ version' \in {version, version + 1}
    BY <1>2 DEF HubRenews, TimerFires
  <2>2. \A c \in Crs : Kept(c)'
    <3> SUFFICES ASSUME NEW c \in Crs PROVE Kept(c)'
      OBVIOUS
    <3>1. Settled(c)' => Settled(c)
      BY <2>1 DEF Settled, Busy
    <3> QED
      BY <2>1, <3>1, QuietKeeps DEF ReadyInv
  <2>3. version' > 0
    BY <2>1 DEF ReadyInv, RepliesCount, RType
  <2>4. ClaimsAreKept' /\ SeenOrQueued' /\ RepliesCount' /\ WrittenOrQueued'
    BY <2>1, <2>3
       DEF ReadyInv, ClaimsAreKept, SeenOrQueued, RepliesCount, WrittenOrQueued, Backed
  <2> QED
    BY <2>2, <2>4 DEF ReadyInv
<1> QED
  BY <1>1, <1>2

LEMMA DequeueReady ==
  ASSUME RType, RType', ReadyInv, NEW c \in Crs, Dequeue(c)
  PROVE  ReadyInv'
<1>1. /\ work.at = "idle" /\ queue' = queue \ {c} /\ failing \subseteq failing' \cup {c}
      /\ UNCHANGED <<crs, secrets, version, armed, claims>>
  BY DEF Dequeue
<1>2. ASSUME NEW d \in Crs \ {c} PROVE Kept(d)'
  <2>1. Settled(d)' => Settled(d)
    BY <1>1 DEF Settled, Busy
  <2> QED
    BY <1>1, <2>1, QuietKeeps DEF ReadyInv
<1>3. CASE Exists(c)
  <2>1. /\ work' = [Idle EXCEPT !.cr = c, !.seen = crs[c], !.at = FirstStep(crs[c])]
        /\ FirstStep(crs[c]) \notin {"idle", "write", "report"}
    BY <1>3 DEF Dequeue, FirstStep
  <2>2. /\ work'.at \notin {"idle", "write", "report"} /\ work'.cr = c
        /\ work'.seen = crs[c] /\ ~work'.stale
    <3>1. Idle.stale = FALSE /\ Idle \in Work
      BY Choices DEF Idle
    <3> QED
      BY <2>1, <3>1 DEF Work
  <2>3. Kept(c)'
    BY <2>2 DEF Kept, Promised, Settled, Busy
  <2>4. ClaimsAreKept' /\ SeenOrQueued' /\ RepliesCount' /\ WrittenOrQueued'
    BY <1>1, <1>3, <2>2
       DEF Exists, ReadyInv, ClaimsAreKept, SeenOrQueued, RepliesCount, WrittenOrQueued
  <2> QED
    BY <1>2, <2>3, <2>4 DEF ReadyInv
<1>4. CASE ~Exists(c)
  <2>1. Kept(c)'
    BY <1>1, <1>4 DEF Kept, Promised, Exists
  <2>2. work' = work
    BY <1>4 DEF Dequeue
  <2>3. ClaimsAreKept' /\ SeenOrQueued' /\ RepliesCount' /\ WrittenOrQueued'
    BY <1>1, <2>2
       DEF ReadyInv, ClaimsAreKept, SeenOrQueued, RepliesCount, WrittenOrQueued
  <2> QED
    BY <1>2, <2>1, <2>3 DEF ReadyInv
<1> QED
  BY <1>3, <1>4

(* A step of the worker touches no secret but the one of the spec it read,  *)
(* which its own object claims.                                             *)
LEMMA OthersKept ==
  ASSUME RType, ReadyInv, work.at # "idle", NEW d \in Crs \ {work.cr},
         crs'[d] = crs[d], claims' = claims, queue \subseteq queue',
         failing \subseteq failing' \cup {work.cr},
         \A s \in SecretNames \ {work.seen.secret} : secrets'[s] = secrets[s]
  PROVE  Kept(d)'
<1>1. crs[d].secret \in SecretNames
  BY DEF RType, Cr
<1>2. Settled(d)' => Settled(d)
  BY DEF Settled, Busy
<1>3. work.cr \in claims[work.seen.secret]
  BY DEF ReadyInv, ClaimsAreKept
<1> QED
  BY <1>1, <1>2, <1>3, QuietKeeps DEF ReadyInv

(* A reconcile that goes on has its object in hand, one that ended with an  *)
(* error has a failure to its name.                                         *)
LEMMA OwnKept ==
  ASSUME RType, NEW c \in Crs, (work'.at # "idle" /\ work'.cr = c) \/ c \in failing'
  PROVE  Kept(c)'
BY DEF Kept, Promised, Settled, Busy

(* A step that goes on with what was read, and writes nothing.              *)
LEMMA GoesOn ==
  ASSUME RType, RType', ReadyInv, work.at # "idle", work'.at \notin {"idle", "write"},
         work'.at = "report" => work'.verdict # "Synced",
         work'.cr = work.cr, work'.seen = work.seen, work'.stale = work.stale,
         \A s \in SecretNames \ {work.seen.secret} : secrets'[s] = secrets[s],
         secrets'[work.seen.secret].version # 0
           => secrets'[work.seen.secret] = secrets[work.seen.secret],
         queue \subseteq queue', UNCHANGED <<crs, version, failing, claims>>
  PROVE  ReadyInv'
<1>1. \A d \in Crs : Kept(d)'
  BY OthersKept, OwnKept
<1>2. work.seen.secret \in SecretNames /\ work.cr \in Crs
  BY DEF RType, Work, Cr
<1>3. ClaimsAreKept'
  BY <1>2 DEF ReadyInv, ClaimsAreKept
<1>4. SeenOrQueued' /\ RepliesCount' /\ WrittenOrQueued'
  BY DEF ReadyInv, SeenOrQueued, RepliesCount, WrittenOrQueued
<1> QED
  BY <1>1, <1>3, <1>4 DEF ReadyInv

(* A step that ends with an error, whatever it wrote into the status.       *)
LEMMA EndsInError ==
  ASSUME RType, RType', ReadyInv, work.at # "idle", ReturnError,
         UNCHANGED <<secrets, version, claims>>, queue \subseteq queue',
         \A d \in Crs \ {work.cr} : crs'[d] = crs[d],
         crs'[work.cr].at # "none" => work.cr \in claims[crs'[work.cr].secret]
  PROVE  ReadyInv'
<1>0. work' = Idle /\ work'.at = "idle" /\ failing' = failing \cup {work.cr} /\ work.cr \in Crs
  BY Choices DEF ReturnError, RType, Work
<1>1. \A d \in Crs : Kept(d)'
  <2>1. \A d \in Crs \ {work.cr} : Kept(d)'
    BY <1>0, OthersKept
  <2>2. ASSUME NEW d \in Crs, d = work.cr PROVE Kept(d)'
    BY <1>0, <2>2, OwnKept
  <2> QED
    BY <2>1, <2>2
<1>2. ClaimsAreKept'
  BY <1>0 DEF ReadyInv, ClaimsAreKept
<1>3. SeenOrQueued' /\ RepliesCount' /\ WrittenOrQueued'
  BY <1>0 DEF ReadyInv, SeenOrQueued, RepliesCount, WrittenOrQueued
<1> QED
  BY <1>1, <1>2, <1>3 DEF ReadyInv

LEMMA WorkerReady ==
  ASSUME RType, RType', ReadyInv, WorkerStep
  PROVE  ReadyInv'
<1> DEFINE c == work.cr
           s == work.seen.secret
<1>0. /\ c \in Crs /\ work.seen \in Cr /\ s \in SecretNames /\ work.at # "idle"
      /\ c \in claims[s]
  <2>1. work.at # "idle"
    BY DEF WorkerStep, Cleanup, RemoveFinalizer, Conflict, Updating, AddFinalizer, ResolveConsumer, Goto,
           Issue, WriteSecret, ReportSynced, ReportFailure
  <2> QED
    BY <2>1 DEF RType, Work, Cr, ReadyInv, ClaimsAreKept
<1>1. CASE Cleanup
  <2>1. CASE secrets[s].version = 0 \/ CanDelete
    <3>1. /\ work' = [work EXCEPT !.at = "unfinalize"] /\ secrets' = [secrets EXCEPT ![s] = NoSecret]
          /\ queue \subseteq queue' /\ UNCHANGED <<crs, version, failing, claims>>
      BY <1>1, <2>1 DEF Cleanup, Goto
    <3>2. work'.at = "unfinalize" /\ work'.cr = c /\ work'.seen = work.seen /\ work'.stale = work.stale
      BY <3>1 DEF RType, Work
    <3>3. secrets'[s].version = 0 /\ \A x \in SecretNames \ {s} : secrets'[x] = secrets[x]
      BY <1>0, <3>1, Choices DEF RType
    <3> HIDE DEF c, s
    <3> QED
      BY <1>0, <3>1, <3>2, <3>3, GoesOn DEF c, s
  <2>2. CASE ~(secrets[s].version = 0 \/ CanDelete)
    BY <1>0, <1>1, <2>2, EndsInError DEF Cleanup, ReadyInv, ClaimsAreKept
  <2> QED
    BY <2>1, <2>2
<1>2. CASE Conflict
  BY <1>0, <1>2, EndsInError DEF Conflict, ReadyInv, ClaimsAreKept
<1>3. CASE ReportFailure
  <2>1. crs' = [crs EXCEPT ![c] = [work.seen EXCEPT !.ready = work.verdict]]
    BY <1>3 DEF ReportFailure, Update
  <2>2. crs'[c].secret = s /\ \A d \in Crs \ {c} : crs'[d] = crs[d]
    BY <1>0, <2>1 DEF RType, Cr
  <2>3. ReturnError /\ queue \subseteq queue' /\ UNCHANGED <<secrets, version, claims>>
    BY <1>3 DEF ReportFailure, Update
  <2> QED
    BY <1>0, <2>2, <2>3, EndsInError
<1>4. CASE ResolveConsumer
  <2>1. /\ work' = [work EXCEPT !.at = "issue"]
        /\ UNCHANGED <<crs, secrets, version, queue, failing, claims>>
    BY <1>4 DEF ResolveConsumer, Goto
  <2>2. work'.at = "issue" /\ work'.cr = c /\ work'.seen = work.seen /\ work'.stale = work.stale
    BY <2>1 DEF RType, Work
  <2> QED
    BY <1>0, <2>1, <2>2, GoesOn
<1>5. CASE Issue
  <2>1. /\ work' = [work EXCEPT !.at = "write", !.reply = version]
        /\ UNCHANGED <<crs, secrets, version, queue, failing, claims>>
    BY <1>5 DEF Issue
  <2>2. /\ work'.at = "write" /\ work'.cr = c /\ work'.seen = work.seen /\ work'.stale = work.stale
        /\ work'.reply = version
    BY <2>1 DEF RType, Work
  <2>3. \A d \in Crs : Kept(d)'
    BY <1>0, <2>1, <2>2, OthersKept, OwnKept
  <2>4. ClaimsAreKept' /\ SeenOrQueued' /\ RepliesCount' /\ WrittenOrQueued'
    BY <1>0, <2>1, <2>2 DEF ReadyInv, ClaimsAreKept, SeenOrQueued, RepliesCount, WrittenOrQueued
  <2> QED
    BY <2>3, <2>4 DEF ReadyInv
<1>6. CASE RemoveFinalizer
  <2>1. /\ ~work.stale /\ crs' = [crs EXCEPT ![c] = [work.seen EXCEPT !.at = "gone"]]
        /\ work' = Idle /\ failing' = failing \ {c} /\ queue \subseteq queue'
        /\ UNCHANGED <<secrets, version, claims>>
    BY <1>6 DEF RemoveFinalizer, Update
  <2>2. /\ crs'[c].at = "gone" /\ crs'[c].secret = s /\ \A d \in Crs \ {c} : crs'[d] = crs[d]
        /\ work'.at = "idle"
    BY <1>0, <2>1, Choices DEF RType, Cr
  <2>3. \A d \in Crs : Kept(d)'
    <3>1. \A d \in Crs \ {c} : Kept(d)'
      BY <1>0, <2>1, <2>2, OthersKept
    <3>2. ASSUME NEW d \in Crs, d = c PROVE Kept(d)'
      BY <2>2, <3>2 DEF Kept, Promised
    <3> QED
      BY <3>1, <3>2
  <2>4. ClaimsAreKept' /\ SeenOrQueued' /\ RepliesCount' /\ WrittenOrQueued'
    BY <1>0, <2>1, <2>2 DEF ReadyInv, ClaimsAreKept, SeenOrQueued, RepliesCount, WrittenOrQueued
  <2> QED
    BY <2>3, <2>4 DEF ReadyInv
<1>7. CASE AddFinalizer
  <2> DEFINE cr == [work.seen EXCEPT !.finalizer = TRUE]
  <2>1. /\ ~work.stale /\ crs' = [crs EXCEPT ![c] = cr]
        /\ work' = [work EXCEPT !.at = "resolve", !.seen = cr] /\ queue \subseteq queue'
        /\ UNCHANGED <<secrets, version, failing, claims>>
    BY <1>7 DEF AddFinalizer, Update
  <2>2. cr.secret = s
    BY <1>0 DEF Cr
  <2> HIDE DEF cr
  <2>3. /\ crs'[c] = cr /\ \A d \in Crs \ {c} : crs'[d] = crs[d]
        /\ work'.at = "resolve" /\ work'.cr = c /\ work'.seen = cr /\ ~work'.stale
    BY <1>0, <2>1 DEF RType, Work
  <2>4. \A d \in Crs : Kept(d)'
    BY <1>0, <2>1, <2>3, OthersKept, OwnKept
  <2>5. ClaimsAreKept' /\ SeenOrQueued' /\ RepliesCount' /\ WrittenOrQueued'
    BY <1>0, <2>1, <2>2, <2>3 DEF ReadyInv, ClaimsAreKept, SeenOrQueued, RepliesCount, WrittenOrQueued
  <2> QED
    BY <2>4, <2>5 DEF ReadyInv
<1>8. CASE WriteSecret
  <2> DEFINE new == [owner |-> c, names |-> work.seen.names, version |-> work.reply]
             refused == /\ ~(secrets[s].names = new.names /\ secrets[s].version = new.version)
                        /\ secrets[s].version # 0 /\ secrets[s].owner # c
  <2>1. /\ work'.at = "report" /\ work'.cr = c /\ work'.seen = work.seen /\ work'.stale = work.stale
        /\ work'.reply = work.reply /\ work'.verdict = IF refused THEN "SecretWriteError" ELSE "Synced"
    BY <1>8 DEF WriteSecret, RType, Work
  <2>2. /\ \A x \in SecretNames \ {s} : secrets'[x] = secrets[x]
        /\ \/ secrets'[s] = new
           \/ secrets'[s] = secrets[s] /\ secrets[s].names = new.names /\ secrets[s].version = new.version
           \/ secrets'[s] = secrets[s] /\ refused
    BY <1>0, <1>8 DEF WriteSecret, RType
  <2>3. queue \subseteq queue' /\ work.at = "write" /\ UNCHANGED <<crs, version, failing, claims>>
    BY <1>8 DEF WriteSecret
  <2>4. work.reply \in Nat /\ work.reply > 0
    BY <2>3 DEF ReadyInv, RepliesCount, RType, Work
  <2>5. new.owner = c /\ new.names = work.seen.names /\ new.version = work.reply
    OBVIOUS
  <2> HIDE DEF new
  <2>6. \A d \in Crs : Kept(d)'
    BY <1>0, <2>1, <2>2, <2>3, OthersKept, OwnKept
  <2>7. ClaimsAreKept' /\ SeenOrQueued' /\ RepliesCount'
    BY <1>0, <2>1, <2>2, <2>3, <2>4, <2>5 DEF ReadyInv, ClaimsAreKept, SeenOrQueued, RepliesCount
  <2>8. WrittenOrQueued'
    BY <1>0, <2>1, <2>2, <2>3, <2>4, <2>5 DEF WrittenOrQueued, Backed
  <2> QED
    BY <2>6, <2>7, <2>8 DEF ReadyInv
<1>9. CASE ReportSynced
  <2>1. /\ work' = Idle /\ work'.at = "idle" /\ failing' = failing \ {c} /\ queue \subseteq queue'
        /\ UNCHANGED <<secrets, version, claims>>
        /\ work.at = "report" /\ work.verdict = "Synced"
    BY <1>9, Choices DEF ReportSynced
  <2>2. /\ Synced.secret = s /\ Synced.names = work.seen.names
        /\ Synced.at = work.seen.at /\ Synced.version = work.reply
    BY <1>0 DEF Synced, Cr
  <2>3. /\ \A d \in Crs \ {c} : crs'[d] = crs[d]
        /\ \/ crs'[c] = Synced
           \/ crs'[c] = crs[c] /\ Synced = work.seen
    BY <1>0, <1>9 DEF ReportSynced, StatusChanged, RType
  <2>4. \A d \in Crs : Kept(d)'
    <3>1. \A d \in Crs \ {c} : Kept(d)'
      BY <1>0, <2>1, <2>3, OthersKept
    <3>2. ASSUME NEW d \in Crs, d = c, Promised(d)'
          PROVE  Backed(crs[d].secret, crs[d].names, crs[d].version)'
      <4>1. c \notin queue
        BY <2>1, <3>2 DEF Promised, Settled
      <4>2. crs'[c] = Synced
        BY <1>0, <2>3, <4>1 DEF ReadyInv, SeenOrQueued
      <4>3. claims[s] = {c}
        BY <2>1, <2>2, <3>2, <4>2 DEF Promised
      <4>4. Backed(s, work.seen.names, work.reply)
        BY <2>1, <4>1, <4>3 DEF ReadyInv, WrittenOrQueued
      <4> QED
        BY <2>1, <2>2, <3>2, <4>2, <4>4 DEF Backed
    <3> QED
      BY <3>1, <3>2 DEF Kept
  <2>5. ClaimsAreKept' /\ SeenOrQueued' /\ RepliesCount' /\ WrittenOrQueued'
    BY <1>0, <2>1, <2>2, <2>3 DEF ReadyInv, ClaimsAreKept, SeenOrQueued, RepliesCount, WrittenOrQueued
  <2> QED
    BY <2>4, <2>5 DEF ReadyInv
<1> QED
  BY <1>1, <1>2, <1>3, <1>4, <1>5, <1>6, <1>7, <1>8, <1>9 DEF WorkerStep

LEMMA FailingCallsReady ==
  ASSUME RType, RType', ReadyInv, CallFails
  PROVE  ReadyInv'
<1>0. /\ UNCHANGED <<crs, secrets, version, queue, claims>> /\ work.at # "idle"
      /\ work.cr \in Crs /\ work.seen.secret \in SecretNames
  BY DEF CallFails, Goto, Updating, RType, Work, Cr
<1>1. CASE ReturnError
  BY <1>0, <1>1, EndsInError DEF ReadyInv, ClaimsAreKept
<1>2. CASE Goto("cleanup", "unfinalize") /\ UNCHANGED <<armed, failing>>
  <2>1. /\ work'.at = "unfinalize" /\ work'.cr = work.cr /\ work'.seen = work.seen
        /\ work'.stale = work.stale
    BY <1>2 DEF Goto, RType, Work
  <2> QED
    BY <1>0, <1>2, <2>1, GoesOn
<1>3. ASSUME UNCHANGED <<armed, failing>>, NEW v \in Reasons \ {"Synced"},
             work' = [work EXCEPT !.at = "report", !.verdict = v]
      PROVE  ReadyInv'
  <2>1. /\ work'.at = "report" /\ work'.cr = work.cr /\ work'.seen = work.seen
        /\ work'.stale = work.stale /\ work'.verdict # "Synced"
    BY <1>3 DEF RType, Work
  <2> QED
    BY <1>0, <1>3, <2>1, GoesOn
<1>4. (CASE work.at = "resolve" -> "ConsumerNotReady"
         [] work.at = "issue"   -> "IssueFailed"
         [] work.at = "write"   -> "SecretWriteError") \in Reasons \ {"Synced"}
      \/ work.at \notin {"resolve", "issue", "write"}
  BY DEF Reasons
<1> QED
  BY <1>1, <1>2, <1>3, <1>4, Zenon DEF CallFails

LEMMA NextReady == RType /\ RType' /\ ReadyInv /\ [RNext]_vars => ReadyInv'
<1> SUFFICES ASSUME RType, RType', ReadyInv, [RNext]_vars PROVE ReadyInv'
  OBVIOUS
<1>1. CASE RNext
  <2>1. ASSUME NEW c \in Crs, NEW s \in SecretNames, NEW n \in NameSets,
               Create(c, s, n) \/ EditSpec(c, s, n) \/ Delete(c)
        PROVE  ReadyInv'
    BY <2>1, UsersReady
  <2>2. ASSUME NEW c \in Crs, Delete(c) PROVE ReadyInv'
    BY <2>1, <2>2, SomeAssumption
  <2>3. ASSUME NEW c \in Crs, Dequeue(c) PROVE ReadyInv'
    BY <2>3, DequeueReady
  <2>4. ASSUME NEW s \in SecretNames, RemoveSecret(s) \/ GarbageCollect(s) PROVE ReadyInv'
    BY <2>4, TakenReady
  <2> QED
    BY <1>1, <2>1, <2>2, <2>3, <2>4, ClusterReady, WorkerReady, FailingCallsReady, Zenon DEF RNext
<1>2. CASE UNCHANGED vars
  BY <1>2 DEF vars, ReadyInv, ClaimsAreKept, SeenOrQueued, RepliesCount, WrittenOrQueued,
              Kept, Promised, Settled, Busy, Backed
<1> QED
  BY <1>1, <1>2

(* Whatever users, the cluster and failing calls do meanwhile, and for any   *)
(* number of objects: one that is Ready for its current generation, that     *)
(* nothing will reconcile, and that has its secret's name for itself, has a  *)
(* secret for its names, no older than its status says.                      *)
THEOREM ReadyIsKept == RSpec => []ReadyHasItsSecret
<1>1. RInit => RType /\ AlwaysScheduled /\ ReadyInv
  BY InitSchedules, ReadyInit
<1>2. RType /\ AlwaysScheduled /\ ReadyInv /\ [RNext]_vars => (RType /\ AlwaysScheduled /\ ReadyInv)'
  BY NextKeeps, NextReady
<1>3. ReadyInv => ReadyHasItsSecret
  BY KeptIsReady DEF ReadyInv
<1> QED
  BY <1>1, <1>2, <1>3, PTL DEF RSpec
=============================================================================
