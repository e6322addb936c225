------------------------ MODULE CertificateReconciler ------------------------
(***************************************************************************)
(* The Kubernetes operator: one worker that takes ACMEHubCertificates off  *)
(* its queue and writes TLS Secrets (Reconcile in                          *)
(* integrations/kubernetes/internal/controller).  Every API call is a step *)
(* of its own, so users edit and delete objects while a reconcile that has *)
(* read them is under way; any call may fail, and the pod may restart.     *)
(* Delays are left out: a requeue is a timer that fires some time later.   *)
(***************************************************************************)
EXTENDS Integers, FiniteSets

CONSTANTS
  Crs,          \* ACMEHubCertificates, each created at most once
  Present,      \* those that exist when the operator starts
  SecretNames,  \* values of spec.secretName
  NameSets,     \* values of spec.domains
  CanDelete,    \* does the role allow the verb delete on secrets?
  MaxEvents,    \* bound: edits of users, renewals, failing calls, restarts
  Nobody

ASSUME BoundAssumption   == MaxEvents \in Nat
ASSUME NobodyAssumption == Nobody \notin Crs
ASSUME PresentAssumption == Present \subseteq Crs
ASSUME SomeAssumption    == Crs # {} /\ SecretNames # {} /\ NameSets # {}

VARIABLES
  crs,      \* the objects, as the API server has them
  secrets,  \* the Secrets of the namespace
  version,  \* the hub's current certificate
  queue,    \* the workqueue
  armed,    \* objects with a delayed requeue
  failing,  \* objects whose last reconcile returned an error (NumRequeues > 0)
  work,     \* the reconcile under way
  claims,   \* history: the objects that ever named a secret
  events    \* how many of them there were

vars == <<crs, secrets, version, queue, armed, failing, work, claims, events>>

Reasons == {"unset", "Synced", "ConsumerNotReady", "IssueFailed", "SecretWriteError"}

Cr == [at: {"none", "live", "deleting", "gone"}, finalizer: BOOLEAN,
       secret: SecretNames, names: NameSets, gen: Nat,
       ready: Reasons, obs: Nat, version: Nat]

(* version 0 is a secret that does not exist *)
Secret == [owner: Crs \cup {Nobody}, names: NameSets, version: Nat]

Phases == {"idle", "cleanup", "unfinalize", "finalize", "resolve", "issue", "write", "report"}

Work == [at: Phases, cr: Crs, seen: Cr, stale: BOOLEAN,
         reply: Nat, verdict: Reasons, changed: BOOLEAN]

RType ==
  /\ crs \in [Crs -> Cr]
  /\ secrets \in [SecretNames -> Secret]
  /\ \A s \in SecretNames : secrets[s].version # 0 => secrets[s].owner \in Crs
  /\ version \in Nat
  /\ queue \subseteq Crs /\ armed \subseteq Crs /\ failing \subseteq Crs
  /\ work \in Work
  /\ claims \in [SecretNames -> SUBSET Crs]
  /\ events \in Nat

Exists(c)  == crs[c].at \in {"live", "deleting"}
Busy(c)    == work.at # "idle" /\ work.cr = c
Settled(c) == c \notin queue \cup failing /\ ~Busy(c)

Event == events < MaxEvents /\ events' = events + 1

NoSecret == [owner |-> Nobody, names |-> CHOOSE n \in NameSets : TRUE, version |-> 0]
NoCr     == [at |-> "none", finalizer |-> FALSE, secret |-> CHOOSE s \in SecretNames : TRUE,
             names |-> CHOOSE n \in NameSets : TRUE, gen |-> 0, ready |-> "unset",
             obs |-> 0, version |-> 0]
NewCr(s, n) == [NoCr EXCEPT !.at = "live", !.secret = s, !.names = n, !.gen = 1]
Idle     == [at |-> "idle", cr |-> CHOOSE c \in Crs : TRUE, seen |-> NoCr, stale |-> FALSE,
             reply |-> 0, verdict |-> "unset", changed |-> FALSE]

RInit ==
  /\ crs = [c \in Crs |-> IF c \in Present THEN NewCr(NoCr.secret, NoCr.names) ELSE NoCr]
  /\ claims = [s \in SecretNames |-> IF s = NoCr.secret THEN Present ELSE {}]
  /\ secrets = [s \in SecretNames |-> NoSecret]
  /\ version = 1
  /\ queue = Present /\ armed = {} /\ failing = {}
  /\ work = Idle
  /\ events = 0

-----------------------------------------------------------------------------
(* Users, the hub and the cluster.  For(ACMEHubCertificate) and Owns(Secret) *)
(* enqueue the object, or the owner of the secret, at every change.          *)

Changed(c, cr) ==
  /\ Event
  /\ crs' = [crs EXCEPT ![c] = cr]
  /\ queue' = queue \cup {c}
  /\ work' = [work EXCEPT !.stale = @ \/ work.cr = c]
  /\ UNCHANGED <<secrets, version, armed, failing>>

Create(c, s, n) ==
  /\ crs[c].at = "none"
  /\ Changed(c, NewCr(s, n))
  /\ claims' = [claims EXCEPT ![s] = @ \cup {c}]

EditSpec(c, s, n) ==
  /\ Exists(c) /\ <<s, n>> # <<crs[c].secret, crs[c].names>>
  /\ Changed(c, [crs[c] EXCEPT !.secret = s, !.names = n, !.gen = @ + 1])
  /\ claims' = [claims EXCEPT ![s] = @ \cup {c}]

(* An object with a finalizer is only marked. *)
Delete(c) ==
  /\ crs[c].at = "live"
  /\ Changed(c, [crs[c] EXCEPT !.at = IF crs[c].finalizer THEN "deleting" ELSE "gone"])
  /\ UNCHANGED claims

RemoveSecret(s) ==
  /\ secrets[s].version # 0
  /\ Event
  /\ secrets' = [secrets EXCEPT ![s] = NoSecret]
  /\ queue' = queue \cup {secrets[s].owner}
  /\ UNCHANGED <<crs, version, armed, failing, work, claims>>

GarbageCollect(s) ==
  /\ secrets[s].version # 0 /\ crs[secrets[s].owner].at = "gone"
  /\ secrets' = [secrets EXCEPT ![s] = NoSecret]
  /\ queue' = queue \cup {secrets[s].owner}
  /\ UNCHANGED <<crs, version, armed, failing, work, claims, events>>

HubRenews ==
  /\ Event
  /\ version' = version + 1
  /\ UNCHANGED <<crs, secrets, queue, armed, failing, work, claims>>

TimerFires(c) ==
  /\ c \in armed
  /\ armed' = armed \ {c} /\ queue' = queue \cup {c}
  /\ UNCHANGED <<crs, secrets, version, failing, work, claims, events>>

(* The new pod lists every object; timers and failure counts are gone. *)
Restart ==
  /\ Event
  /\ work' = Idle /\ armed' = {} /\ failing' = {}
  /\ queue' = {c \in Crs : Exists(c)}
  /\ UNCHANGED <<crs, secrets, version, claims>>

-----------------------------------------------------------------------------
(* The worker. *)

Goto(from, to) == work.at = from /\ work' = [work EXCEPT !.at = to]

(* A slip: the error is logged and dropped. *)
ReturnNil ==
  /\ work' = Idle
  /\ failing' = failing \cup {work.cr}
  /\ UNCHANGED armed

(* return ctrl.Result{}, err: requeued by the rate limiter *)
ReturnError ==
  /\ work' = Idle
  /\ armed' = armed \cup {work.cr} /\ failing' = failing \cup {work.cr}

FirstStep(cr) ==
  IF cr.at = "deleting" THEN "cleanup" ELSE IF cr.finalizer THEN "resolve" ELSE "finalize"

Dequeue(c) ==
  /\ work.at = "idle" /\ c \in queue
  /\ queue' = queue \ {c}
  /\ IF Exists(c)
       THEN /\ work' = [Idle EXCEPT !.cr = c, !.seen = crs[c], !.at = FirstStep(crs[c])]
            /\ UNCHANGED failing
       ELSE failing' = failing \ {c} /\ UNCHANGED work
  /\ UNCHANGED <<crs, secrets, version, armed, claims, events>>

(* A slip: a secret that is already gone is an error. *)
CleanupOnce ==
  /\ work.at = "cleanup"
  /\ LET s == work.seen.secret IN
     IF secrets[s].version # 0 /\ CanDelete
       THEN /\ Goto("cleanup", "unfinalize")
            /\ secrets' = [secrets EXCEPT ![s] = NoSecret]
            /\ queue' = queue \cup {secrets[s].owner}
            /\ UNCHANGED <<armed, failing>>
       ELSE ReturnError /\ UNCHANGED <<secrets, queue>>
  /\ UNCHANGED <<crs, version, claims, events>>

(* The deletion takes the secret the spec names, whoever owns it. *)
Cleanup ==
  /\ work.at = "cleanup"
  /\ LET s == work.seen.secret IN
     IF secrets[s].version = 0 \/ CanDelete
       THEN /\ Goto("cleanup", "unfinalize")
            /\ secrets' = [secrets EXCEPT ![s] = NoSecret]
            /\ queue' = queue \cup ({secrets[s].owner} \ {Nobody})
            /\ UNCHANGED <<armed, failing>>
       ELSE ReturnError /\ UNCHANGED <<secrets, queue>>
  /\ UNCHANGED <<crs, version, claims, events>>

Synced == [work.seen EXCEPT !.ready = "Synced", !.obs = work.seen.gen, !.version = work.reply]

(* statusChanged *)
StatusChanged == work.changed \/ Synced # work.seen

Updating ==
  \/ work.at \in {"unfinalize", "finalize"}
  \/ work.at = "report" /\ (work.verdict = "Synced" => StatusChanged)

(* Update fails with a conflict when the object changed after it was read. *)
Conflict ==
  /\ work.stale /\ Updating
  /\ ReturnError
  /\ UNCHANGED <<crs, secrets, version, queue, claims, events>>

Update(cr) ==
  /\ ~work.stale
  /\ crs' = [crs EXCEPT ![work.cr] = cr]
  /\ queue' = IF cr = crs[work.cr] THEN queue ELSE queue \cup {work.cr}
  /\ UNCHANGED <<secrets, version, claims, events>>

RemoveFinalizer ==
  /\ work.at = "unfinalize"
  /\ Update([work.seen EXCEPT !.at = "gone"])
  /\ work' = Idle /\ failing' = failing \ {work.cr}
  /\ UNCHANGED armed

AddFinalizer ==
  /\ work.at = "finalize"
  /\ LET cr == [work.seen EXCEPT !.finalizer = TRUE] IN
     /\ Update(cr)
     /\ work' = [work EXCEPT !.at = "resolve", !.seen = cr]
  /\ UNCHANGED <<armed, failing>>

ResolveConsumer ==
  /\ Goto("resolve", "issue")
  /\ UNCHANGED <<crs, secrets, version, queue, armed, failing, claims, events>>

Issue ==
  /\ work.at = "issue"
  /\ work' = [work EXCEPT !.at = "write", !.reply = version]
  /\ UNCHANGED <<crs, secrets, version, queue, armed, failing, claims, events>>

(* A slip: any secret with the certificate's names counts as equal. *)
WriteSecretIfMissing ==
  /\ work.at = "write"
  /\ LET c == work.cr
         s == work.seen.secret
         new == [owner |-> c, names |-> work.seen.names, version |-> work.reply]
         equal == secrets[s].names = new.names /\ secrets[s].version # 0
         refused == ~equal /\ secrets[s].version # 0 /\ secrets[s].owner # c
         written == ~equal /\ ~refused
     IN /\ secrets' = IF written THEN [secrets EXCEPT ![s] = new] ELSE secrets
        /\ queue' = IF written THEN queue \cup {c} ELSE queue
        /\ work' = [work EXCEPT !.at = "report", !.changed = written,
                      !.verdict = IF refused THEN "SecretWriteError" ELSE "Synced"]
  /\ UNCHANGED <<crs, version, armed, failing, claims, events>>

(* CreateOrUpdate: an equal secret is left alone, whoever owns it; one that *)
(* another object controls is refused by SetControllerReference.            *)
WriteSecret ==
  /\ work.at = "write"
  /\ LET c == work.cr
         s == work.seen.secret
         new == [owner |-> c, names |-> work.seen.names, version |-> work.reply]
         equal == secrets[s].names = new.names /\ secrets[s].version = new.version
         refused == ~equal /\ secrets[s].version # 0 /\ secrets[s].owner # c
         written == ~equal /\ ~refused
     IN /\ secrets' = IF written THEN [secrets EXCEPT ![s] = new] ELSE secrets
        /\ queue' = IF written THEN queue \cup {c} ELSE queue
        /\ work' = [work EXCEPT !.at = "report", !.changed = written,
                      !.verdict = IF refused THEN "SecretWriteError" ELSE "Synced"]
  /\ UNCHANGED <<crs, version, armed, failing, claims, events>>

(* A slip: no requeue after success, and none pending. *)
ReportAndForget ==
  /\ work.at = "report" /\ work.verdict = "Synced"
  /\ IF StatusChanged
       THEN /\ ~work.stale
            /\ crs' = [crs EXCEPT ![work.cr] = Synced]
            /\ queue' = queue \cup {work.cr}
       ELSE UNCHANGED <<crs, queue>>
  /\ work' = Idle
  /\ armed' = armed \ {work.cr} /\ failing' = failing \ {work.cr}
  /\ UNCHANGED <<secrets, version, claims, events>>

(* Success asks for a requeue at the local renewal time. *)
ReportSynced ==
  /\ work.at = "report" /\ work.verdict = "Synced"
  /\ IF StatusChanged
       THEN /\ ~work.stale
            /\ crs' = [crs EXCEPT ![work.cr] = Synced]
            /\ queue' = queue \cup {work.cr}
       ELSE UNCHANGED <<crs, queue>>
  /\ work' = Idle
  /\ armed' = armed \cup {work.cr} /\ failing' = failing \ {work.cr}
  /\ UNCHANGED <<secrets, version, claims, events>>

ReportFailure ==
  /\ work.at = "report" /\ work.verdict # "Synced"
  /\ Update([work.seen EXCEPT !.ready = work.verdict])
  /\ ReturnError

(* A call fails.  Resolving, issuing and writing are reported in the status, *)
(* a failing Get in the cleanup counts as no secret, the rest is returned.   *)
CallFails ==
  /\ \/ Updating /\ ReturnError
     \/ work.at = "cleanup" /\ ReturnError
     \/ Goto("cleanup", "unfinalize") /\ UNCHANGED <<armed, failing>>
     \/ /\ work.at \in {"resolve", "issue", "write"}
        /\ work' = [work EXCEPT !.at = "report",
                      !.verdict = CASE work.at = "resolve" -> "ConsumerNotReady"
                                    [] work.at = "issue"   -> "IssueFailed"
                                    [] work.at = "write"   -> "SecretWriteError"]
        /\ UNCHANGED <<armed, failing>>
  /\ Event
  /\ UNCHANGED <<crs, secrets, version, queue, claims>>

WorkerStep ==
  \/ Cleanup \/ RemoveFinalizer \/ Conflict \/ AddFinalizer \/ ResolveConsumer
  \/ Issue \/ WriteSecret \/ ReportSynced \/ ReportFailure

RNext ==
  \/ \E c \in Crs, s \in SecretNames, n \in NameSets : Create(c, s, n) \/ EditSpec(c, s, n)
  \/ \E c \in Crs : Delete(c) \/ TimerFires(c) \/ Dequeue(c)
  \/ \E s \in SecretNames : RemoveSecret(s) \/ GarbageCollect(s)
  \/ WorkerStep \/ CallFails \/ Restart \/ HubRenews

(* The worker goes on, its queue is first in first out, timers fire. *)
RFairness ==
  /\ WF_vars(WorkerStep)
  /\ \A c \in Crs : SF_vars(Dequeue(c)) /\ WF_vars(TimerFires(c))

RSpec == RInit /\ [][RNext]_vars /\ RFairness

-----------------------------------------------------------------------------
(* The operator watches neither its consumers nor the hub, so an object that *)
(* no change and no timer brings back is never renewed: whatever failed,     *)
(* conflicted or restarted, each existing object is queued, in work or armed.*)
AlwaysScheduled == \A c \in Crs : Exists(c) => c \in queue \cup armed \/ Busy(c)

(* Ready=True for the current generation is not a stale promise: once nothing *)
(* is queued, in work or failing, the secret exists, is for these names, and  *)
(* is no older than the certificate whose dates the status shows.  Two        *)
(* objects that name one secret do break it, hence the sole claimant.         *)
ReadyHasItsSecret ==
  \A c \in Crs :
    LET cr == crs[c] IN
    /\ cr.at = "live" /\ cr.ready = "Synced" /\ cr.obs = cr.gen
    /\ Settled(c) /\ claims[cr.secret] = {c}
    => /\ secrets[cr.secret].names = cr.names
       /\ secrets[cr.secret].version >= cr.version /\ cr.version > 0

(* A deleted object goes away: the worker's cleanup and its finalizer come to *)
(* an end however often the object is edited or the calls fail meanwhile.     *)
DeletionFinishes == \A c \in Crs : crs[c].at = "deleting" ~> crs[c].at = "gone"

(* When users and failures are done, every object that has its secret's name *)
(* for itself ends up Ready with the hub's current certificate, and stays so.*)
EventuallySynced ==
  \A c \in Crs :
    <>[](crs[c].at = "live" /\ claims[crs[c].secret] = {c}
         => /\ crs[c].ready = "Synced" /\ crs[c].version = version
            /\ secrets[crs[c].secret] = [owner |-> c, names |-> crs[c].names, version |-> version])
=============================================================================
