----------------------------- MODULE AgentDaemon -----------------------------
(***************************************************************************)
(* acmehub-cli agent (integrations/acmehub-cli/cmd/agent.go): fetch the    *)
(* certificate, run the hook that installs it, sleep until the local       *)
(* renewal time; after a failure sleep for the backoff instead.  SIGTERM   *)
(* may arrive at any moment: it cancels a fetch and a sleep but not a hook.*)
(***************************************************************************)
EXTENDS HubSide

CONSTANTS
  LocalAge,  \* age at which RenewAt falls: 0.9 * lifetime
  Base,      \* first delay after a failure
  MaxDelay   \* cap of the delay (Max in backoff.go)

ASSUME DelayAssumption == {LocalAge, Base, MaxDelay} \subseteq Nat /\ 0 < Base /\ Base <= MaxDelay

VARIABLES
  daemon,     \* the flag -d
  at,         \* where the loop is
  since,      \* when the fetch under way began
  held,       \* notBefore of the certificate fetched last
  installed,  \* notBefore of the certificate of the last successful hook
  attempt,    \* failures in a row
  wakeAt,     \* when the sleep ends
  signalled,  \* the context is cancelled
  endedAt     \* history: when the last cycle ended

agentVars == <<daemon, at, since, held, installed, attempt, wakeAt, signalled, endedAt>>

None == -1

AgentTypeOK ==
  /\ daemon \in BOOLEAN /\ signalled \in BOOLEAN
  /\ at \in {"start", "fetching", "answered", "hook", "sleep", "down"}
  /\ held \in Nat \cup {None} /\ installed \in Nat \cup {None}
  /\ {since, attempt, wakeAt, endedAt} \subseteq Nat

RenewAt(nb) == nb + LocalAge

AgentInit ==
  /\ daemon \in BOOLEAN /\ signalled = FALSE
  /\ at = "start" /\ held = None /\ installed = None
  /\ since = 0 /\ attempt = 0 /\ wakeAt = 0 /\ endedAt = 0

(* Doubled for every attempt, up to the cap. *)
Delay(n) ==
  LET d[i \in 0..n] == IF i = 0 THEN Base ELSE IF 2 * d[i-1] >= MaxDelay THEN MaxDelay ELSE 2 * d[i-1]
  IN  d[n]

(* The cycle ends; the loop sleeps for d unless the run is over. *)
SleepOrEnd(d, over) ==
  /\ at' = IF over THEN "down" ELSE "sleep"
  /\ wakeAt' = now + d
  /\ endedAt' = now

Fetch ==
  /\ at = "start"
  /\ at' = "fetching" /\ since' = now
  /\ UNCHANGED <<daemon, held, installed, attempt, wakeAt, signalled, endedAt>>

(* The hub has answered; the answer is on its way. *)
FetchAnswered ==
  /\ at = "fetching" /\ ~signalled
  /\ at' = "answered" /\ held' = Answer.nb
  /\ UNCHANGED <<daemon, since, installed, attempt, wakeAt, signalled, endedAt>>

StartHook ==
  /\ at = "answered" /\ ~signalled
  /\ at' = "hook"
  /\ UNCHANGED <<daemon, since, held, installed, attempt, wakeAt, signalled, endedAt>>

(* A slip: the error is retried at once, without a look at the context. *)
CycleRetries ==
  /\ at \in {"fetching", "answered", "hook"}
  /\ at' = IF daemon THEN "start" ELSE "down"
  /\ UNCHANGED <<daemon, since, held, installed, attempt, wakeAt, signalled, endedAt>>

(* The error ends a single run; the daemon retries, unless it was told to stop. *)
CycleFails ==
  /\ at \in {"fetching", "answered", "hook"}
  /\ SleepOrEnd(Delay(attempt), ~daemon \/ signalled)
  /\ attempt' = attempt + 1
  /\ UNCHANGED <<daemon, since, held, installed, signalled>>

(* A slip: the local renewal time is counted from now. *)
HookEndsFromNow ==
  /\ at = "hook"
  /\ SleepOrEnd(LocalAge, ~daemon)
  /\ installed' = held /\ attempt' = 0
  /\ UNCHANGED <<daemon, since, held, signalled>>

HookEnds ==
  /\ at = "hook"
  /\ SleepOrEnd(Positive(RenewAt(held) - now), ~daemon)
  /\ installed' = held /\ attempt' = 0
  /\ UNCHANGED <<daemon, since, held, signalled>>

WakeUp ==
  /\ at = "sleep" /\ now >= wakeAt
  /\ at' = "start"
  /\ UNCHANGED <<daemon, since, held, installed, attempt, wakeAt, signalled, endedAt>>

(* A sleep whose end and whose cancellation are both due may end either way. *)
SleepCancelled ==
  /\ at = "sleep" /\ signalled
  /\ at' = "down"
  /\ UNCHANGED <<daemon, since, held, installed, attempt, wakeAt, signalled, endedAt>>

(* Only the daemon listens; a single run is killed. *)
Sigterm ==
  /\ at # "down" /\ ~signalled
  /\ signalled' = TRUE
  /\ at' = IF daemon THEN at ELSE "down"
  /\ UNCHANGED <<daemon, since, held, installed, attempt, wakeAt, endedAt>>

Loop == Fetch \/ FetchAnswered \/ StartHook \/ WakeUp \/ SleepCancelled
AgentStep == Loop \/ CycleFails \/ HookEnds \/ Sigterm

(* The loop does not dawdle and a fetch is over when its timeout is; a hook *)
(* takes as long as it likes.                                               *)
AgentTick ==
  /\ at # "start"
  /\ at \in {"fetching", "answered"} => now < since + Timeout /\ ~signalled
  /\ at = "sleep" => now < wakeAt /\ ~signalled
  /\ Advance

AgentNext ==
  \/ AgentStep /\ UNCHANGED hubVars
  \/ (AgentTick \/ Renew) /\ UNCHANGED agentVars

(* The process runs on, and its calls come to an end. *)
AgentFairness ==
  /\ WF_<<hubVars, agentVars>>((Loop \/ CycleFails) /\ UNCHANGED hubVars)
  /\ WF_<<hubVars, agentVars>>(HookEnds /\ UNCHANGED hubVars)

AgentSpec == HubInit /\ AgentInit /\ [][AgentNext]_<<hubVars, agentVars>> /\ AgentFairness

-----------------------------------------------------------------------------
(* While a request or a sleep is on, neither the local renewal time of what *)
(* is installed nor the end of the last cycle with its longest delay is     *)
(* passed by more than one request, however many failures came before: so   *)
(* what is installed lags behind the hub for a bounded time only.           *)
InstalledInTime ==
  at \in {"fetching", "answered", "sleep"}
  => \E t \in {endedAt + MaxDelay} \cup {RenewAt(nb) : nb \in {installed} \ {None}} : now <= t + Timeout

(* A signal ends the daemon, whatever it was doing. *)
StopsOnSignal == signalled ~> at = "down"
=============================================================================
