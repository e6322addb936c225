-------------------------- MODULE ConsumerReconciler --------------------------
(***************************************************************************)
(* The two consumer controllers of the Kubernetes operator                 *)
(* (acmehubconsumer_controller.go, clusteracmehubconsumer_controller.go):  *)
(* each has a queue and one worker, looks at a consumer's spec, the        *)
(* namespaced one at the token secret as well, and writes a Ready          *)
(* condition.  They watch their consumers only, never a secret.            *)
(* Objects and secrets change between any two calls; calls may fail.       *)
(***************************************************************************)
EXTENDS Integers

CONSTANTS
  Namespaced,   \* ACMEHubConsumers
  Clustered,    \* ClusterACMEHubConsumers
  TokenSecrets, \* secrets a spec may refer to
  MaxChanges    \* bound: changes by users, failing calls, restarts

ASSUME ConsumerAssumption == Namespaced \cap Clustered = {} /\ Namespaced \cup Clustered # {}
ASSUME SecretAssumption   == TokenSecrets # {}
ASSUME ChangesAssumption  == MaxChanges \in Nat

VARIABLES
  objects,  \* the consumers, as the API server has them
  secrets,  \* the token secrets
  due,      \* the workqueues
  delayed,  \* consumers the rate limiter holds back
  probe,    \* the reconcile under way, by controller
  had,      \* history: what each consumer's secret was since its spec was written
  changes   \* how many of them there were

consumerVars == <<objects, secrets, due, delayed, probe, had, changes>>

AllConsumers == Namespaced \cup Clustered
Controllers  == {"consumer", "cluster"}
ControllerOf(c) == IF c \in Namespaced THEN "consumer" ELSE "cluster"

States   == {"absent", "without token", "with token"}
Verdicts == {"unset", "Valid", "InvalidEndpoint", "SecretNotFound", "TokenMissing", "Unreadable"}
Spec     == [endpoint : BOOLEAN, secretRef : TokenSecrets]
Object   == [exists : BOOLEAN, spec : Spec, generation : Nat, ready : Verdicts, observed : Nat]
Probe    == [at : {"idle", "check", "update"}, consumer : AllConsumers, seen : Object,
             stale : BOOLEAN, verdict : Verdicts]

NoObject == [exists |-> FALSE, spec |-> CHOOSE s \in Spec : TRUE, generation |-> 0,
             ready |-> "unset", observed |-> 0]
NoProbe  == [at |-> "idle", consumer |-> CHOOSE c \in AllConsumers : TRUE, seen |-> NoObject,
             stale |-> FALSE, verdict |-> "unset"]

ConsumersTypeOK ==
  /\ objects \in [AllConsumers -> Object]
  /\ secrets \in [TokenSecrets -> States]
  /\ due \subseteq AllConsumers /\ delayed \subseteq AllConsumers
  /\ probe \in [Controllers -> Probe]
  /\ \A k \in Controllers : probe[k].at # "idle" => ControllerOf(probe[k].consumer) = k
  /\ had \in [AllConsumers -> SUBSET States]
  /\ changes \in 0..MaxChanges

ConsumersInit ==
  /\ objects = [c \in AllConsumers |-> NoObject]
  /\ secrets = [s \in TokenSecrets |-> "absent"]
  /\ due = {} /\ delayed = {}
  /\ probe = [k \in Controllers |-> NoProbe]
  /\ had = [c \in AllConsumers |-> {}]
  /\ changes = 0

Probed(c) == probe[ControllerOf(c)].at # "idle" /\ probe[ControllerOf(c)].consumer = c
Quiet(c)  == c \notin due \cup delayed /\ ~Probed(c)

Change == changes < MaxChanges /\ changes' = changes + 1

-----------------------------------------------------------------------------
(* Users.  For(...) enqueues a consumer at every change of it. *)
Written(c, object) ==
  /\ Change
  /\ objects' = [objects EXCEPT ![c] = object]
  /\ due' = due \cup {c}
  /\ probe' = [probe EXCEPT ![ControllerOf(c)].stale = @ \/ Probed(c)]
  /\ UNCHANGED <<secrets, delayed>>

Apply(c, spec) ==
  /\ objects[c].exists => spec # objects[c].spec
  /\ Written(c, IF objects[c].exists
                THEN [objects[c] EXCEPT !.spec = spec, !.generation = @ + 1]
                ELSE [NoObject EXCEPT !.exists = TRUE, !.spec = spec, !.generation = 1])
  /\ had' = [had EXCEPT ![c] = {secrets[spec.secretRef]}]

DeleteConsumer(c) ==
  /\ objects[c].exists
  /\ Written(c, NoObject)
  /\ UNCHANGED had

(* No controller hears of it. *)
WriteTokenSecret(s, state) ==
  /\ Change
  /\ state # secrets[s]
  /\ secrets' = [secrets EXCEPT ![s] = state]
  /\ had' = [c \in AllConsumers |->
               IF objects[c].spec.secretRef = s THEN had[c] \cup {state} ELSE had[c]]
  /\ UNCHANGED <<objects, due, delayed, probe>>

DelayEnds(c) ==
  /\ c \in delayed
  /\ delayed' = delayed \ {c} /\ due' = due \cup {c}
  /\ UNCHANGED <<objects, secrets, probe, had, changes>>

(* The new pod lists every consumer; what was held back is gone. *)
OperatorRestarts ==
  /\ Change
  /\ probe' = [k \in Controllers |-> NoProbe] /\ delayed' = {}
  /\ due' = {c \in AllConsumers : objects[c].exists}
  /\ UNCHANGED <<objects, secrets, had>>

-----------------------------------------------------------------------------
(* The workers. *)
Ends(k) == probe' = [probe EXCEPT ![k] = NoProbe]

(* A slip: the error is logged and dropped. *)
DropError(k) == Ends(k) /\ UNCHANGED delayed

(* return ctrl.Result{}, err: requeued by the rate limiter *)
RequeueError(k) == Ends(k) /\ delayed' = delayed \cup {probe[k].consumer}

(* A consumer that is gone is ignored. *)
Take(c) ==
  LET k == ControllerOf(c) IN
  /\ probe[k].at = "idle" /\ c \in due
  /\ due' = due \ {c}
  /\ probe' = IF objects[c].exists
              THEN [probe EXCEPT ![k] = [NoProbe EXCEPT !.at = "check", !.consumer = c, !.seen = objects[c]]]
              ELSE probe
  /\ UNCHANGED <<objects, secrets, delayed, had, changes>>

(* Any other error of the first Get is returned. *)
GetFails(c) ==
  /\ Change
  /\ probe[ControllerOf(c)].at = "idle" /\ c \in due
  /\ due' = due \ {c} /\ delayed' = delayed \cup {c}
  /\ UNCHANGED <<objects, secrets, probe, had>>

Judged(k, verdict) ==
  /\ probe[k].at = "check"
  /\ probe' = [probe EXCEPT ![k].at = "update", ![k].verdict = verdict]
  /\ UNCHANGED <<objects, secrets, due, delayed, had>>

(* What a secret in this state makes of a consumer. *)
TokenVerdict(state) ==
  CASE state = "absent"        -> "SecretNotFound"
    [] state = "without token" -> "TokenMissing"
    [] state = "with token"    -> "Valid"

(* An endpoint is looked at first, and is all a cluster consumer needs. *)
CheckEndpoint(k) ==
  /\ ~probe[k].seen.spec.endpoint \/ k = "cluster"
  /\ Judged(k, IF probe[k].seen.spec.endpoint THEN "Valid" ELSE "InvalidEndpoint")
  /\ UNCHANGED changes

CheckSecret(k) ==
  /\ probe[k].seen.spec.endpoint /\ k = "consumer"
  /\ Judged(k, TokenVerdict(secrets[probe[k].seen.spec.secretRef]))
  /\ UNCHANGED changes

(* Any error of the Get counts as a secret that is not found. *)
SecretUnreadable(k) ==
  /\ probe[k].seen.spec.endpoint /\ k = "consumer"
  /\ Judged(k, "Unreadable")
  /\ Change

(* setCondition and ObservedGeneration *)
Reported(k) == [probe[k].seen EXCEPT !.ready = probe[k].verdict, !.observed = probe[k].seen.generation]

(* Status().Update: an equal status is no change, hence no event. *)
Updates(k) ==
  LET c == probe[k].consumer IN
  /\ probe[k].at = "update" /\ ~probe[k].stale
  /\ objects' = [objects EXCEPT ![c] = Reported(k)]
  /\ due' = IF Reported(k) = objects[c] THEN due ELSE due \cup {c}
  /\ UNCHANGED <<secrets, had>>

UpdateStatus(k) ==
  /\ Updates(k)
  /\ Ends(k)
  /\ UNCHANGED <<delayed, changes>>

(* It conflicts when the object was written, or deleted, after it was read. *)
UpdateConflicts(k) ==
  /\ probe[k].at = "update" /\ probe[k].stale
  /\ RequeueError(k)
  /\ UNCHANGED <<objects, secrets, due, had, changes>>

(* It fails, perhaps after the API server has written it. *)
UpdateFails(k) ==
  /\ probe[k].at = "update"
  /\ Updates(k) \/ UNCHANGED <<objects, secrets, due, had>>
  /\ RequeueError(k)
  /\ Change

ConsumersNext ==
  \/ \E c \in AllConsumers :
       (\E spec \in Spec : Apply(c, spec)) \/ DeleteConsumer(c) \/ DelayEnds(c) \/ Take(c) \/ GetFails(c)
  \/ \E s \in TokenSecrets, state \in States : WriteTokenSecret(s, state)
  \/ \E k \in Controllers :
       \/ CheckEndpoint(k) \/ CheckSecret(k) \/ SecretUnreadable(k)
       \/ UpdateStatus(k) \/ UpdateConflicts(k) \/ UpdateFails(k)
  \/ OperatorRestarts

ConsumersSpec == ConsumersInit /\ [][ConsumersNext]_consumerVars

-----------------------------------------------------------------------------
(* What the controller of c may have found since its spec was written. *)
Findings(c) ==
  IF ~objects[c].spec.endpoint THEN {"InvalidEndpoint"}
  ELSE IF c \in Clustered THEN {"Valid"}
  ELSE {"Unreadable"} \cup {TokenVerdict(state) : state \in had[c]}

(* acmehubconsumer_controller.go:72: whatever conflicts, fails or restarts,  *)
(* once a consumer is neither queued, held back nor looked at its condition  *)
(* is about the present generation, and was true of it at some time since    *)
(* that was written (no secret is watched, so it need not be true any more). *)
ConditionsFollowTheSpec ==
  \A c \in AllConsumers : objects[c].exists /\ Quiet(c) =>
    objects[c].observed = objects[c].generation /\ objects[c].ready \in Findings(c)
=============================================================================
