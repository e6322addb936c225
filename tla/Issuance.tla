------------------------------- MODULE Issuance -------------------------------
(***************************************************************************)
(* Issuing and renewing certificates: requestCert and runIssue             *)
(* (server/core/pki/core.ts) and scanAndRenew (server/core/pki/cron.ts)    *)
(* over the Certificate, CertEvent and ResourceLock tables.                *)
(*                                                                         *)
(* Requests and scans run in separate Workers; every D1 statement is one   *)
(* step and everything may happen between two of them.  A run is one call  *)
(* of runIssue together with the acquire before it.  The run of a request  *)
(* lives in waitUntil, so it may go on after the request was answered.     *)
(*                                                                         *)
(* Domain names are atoms with a coverage relation; a certificate or a CSR *)
(* is its set of names, {} when the column is ''.  Where a certificate is  *)
(* in its life is one of three ages, which the clock (an action) advances. *)
(* Lock expiry is reduced to two instants: a row is live until Lapse.      *)
(***************************************************************************)
EXTENDS Integers, FiniteSets, FiniteSetsExt

CONSTANTS
  Names,       \* domain names, wildcard names included
  Wildcards,   \* those that start with "*."
  CoverPairs,  \* <<s, n>>: a certificate for s serves n (coversDomain)
  Reqs,        \* POST /pki/v1/certificates/issue calls
  Sse,         \* those that accept text/event-stream
  Domains,     \* the domains each request asks for
  Scans,       \* firings of the cron trigger
  MaxRows,     \* bound: rows ever inserted into Certificate
  MaxDeletes,  \* bound: certificates the administrator deletes
  MaxFaults,   \* bound: statements of a run that D1 fails
  PastSans,    \* SAN sets one of which may have been issued before
  NoRun

ASSUME CoverAssumption ==
  /\ CoverPairs \subseteq Names \X Names
  /\ \A n \in Names : <<n, n>> \in CoverPairs
  /\ \A x, y, z \in Names :
       <<x, y>> \in CoverPairs /\ <<y, z>> \in CoverPairs => <<x, z>> \in CoverPairs
ASSUME NamesAssumption ==
  /\ Wildcards \subseteq Names
  /\ Domains \in [Reqs -> (SUBSET Names) \ {{}}]
  /\ PastSans \subseteq SUBSET Names
  /\ Sse \subseteq Reqs
ASSUME RunsAssumption == Reqs \cap (Scans \X (0..MaxRows)) = {}
ASSUME BoundAssumption == MaxRows \in Nat /\ MaxDeletes \in Nat /\ MaxFaults \in Nat

VARIABLES
  rows,    \* the Certificate table
  locks,   \* the ResourceLock table
  events,  \* the terminal event in CertEvent of each run, or "none"
  rpc,     \* where each run is
  job,     \* the arguments and locals of each run
  qpc,     \* where each request is
  via,     \* checkRunId of each request
  answer,  \* what requestCert will return, or returned
  stream,  \* the last completed or failed event sent to an SSE client
  todo,    \* rows a scan has selected and not handled yet
  deletes, \* deletions so far
  faults   \* failed statements so far

asked == <<qpc, via, answer, stream>>
spent == <<deletes, faults>>
vars  == <<rows, locks, events, rpc, job, asked, todo, spent>>

RowIds == 1..MaxRows
Runs   == Reqs \cup (Scans \X RowIds)

Locks == INSTANCE ResourceLockTable WITH LockIds <- Names

Live   == 1  \* expiresAt of a lock row whose lease runs
Lapsed == 0  \* and of one whose lease is over, at the instant Live

Ages    == {"fresh", "due", "expired"}
RowType == [state : {"unused", "live", "deleted"}, hash : SUBSET Names,
            sans : SUBSET Names, csr : SUBSET Names, cert : SUBSET Names,
            age : Ages, slotReached : BOOLEAN]
JobType == [row : 0..MaxRows, hash : SUBSET Names, domains : SUBSET Names,
            csr : SUBSET Names, cert : SUBSET Names, pending : SUBSET Names]
RunPhases == {"none", "purge", "check", "insert", "refused", "select", "create",
              "reselect", "acme", "store", "completed", "failed", "release",
              "ended", "broken", "killed"}
ReqPhases == {"new", "renewing", "issuing", "owner", "tail", "poll", "final",
              "lastError", "answered", "evicted"}
AnswerType == [status : {"none", "ok", "issueFailed", "retry", "crash"},
               names : SUBSET Names, age : Ages]
MessageType == [kind : {"none", "completed", "failed"}, names : SUBSET Names]

NoRow    == [state |-> "unused", hash |-> {}, sans |-> {}, csr |-> {}, cert |-> {},
             age |-> "fresh", slotReached |-> FALSE]
NewRow(h, D) == [NoRow EXCEPT !.state = "live", !.hash = h, !.sans = D]
GoneRow      == [NoRow EXCEPT !.state = "deleted"]
IssuedRow(h, D, csr, cert, past) ==
  [state |-> "live", hash |-> h, sans |-> D, csr |-> csr, cert |-> cert,
   age |-> "fresh", slotReached |-> past]

NoJob    == [row |-> 0, hash |-> {}, domains |-> {}, csr |-> {}, cert |-> {},
             pending |-> {}]
NoAnswer == [status |-> "none", names |-> {}, age |-> "fresh"]
Message(kind, S) == [kind |-> kind, names |-> S]

TypeOK ==
  /\ rows \in [RowIds -> RowType]
  /\ locks \in Locks!Table
  /\ events \in [Runs -> {"none", "completed", "failed"}]
  /\ rpc \in [Runs -> RunPhases]
  /\ job \in [Runs -> JobType]
  /\ qpc \in [Reqs -> ReqPhases]
  /\ via \in [Reqs -> Runs]
  /\ answer \in [Reqs -> AnswerType]
  /\ stream \in [Reqs -> MessageType]
  /\ todo \in [Scans -> SUBSET JobType]
  /\ deletes \in Nat /\ faults \in Nat
-----------------------------------------------------------------------------
(* Choosing a certificate (coverage.ts, match.ts, decide.ts).  Every       *)
(* consumer of the model may see every certificate of the one account.     *)

CoversAll(S, D) == \A d \in D : \E s \in S : <<s, d>> \in CoverPairs

LiveRows    == {i \in RowIds : rows[i].state = "live"}
ByHash(h)   == {i \in LiveRows : rows[i].hash = h}

ScoreCert(S, D) ==
    1000 * Cardinality({s \in S \cap Wildcards : \E d \in D : <<s, d>> \in CoverPairs})
  + 100  * Cardinality((S \ Wildcards) \cap D)
  +        Cardinality((S \ Wildcards) \ D)

(* A slip: the best score among all certificates, covering or not. *)
PickAnyCert(D) ==
  {i \in LiveRows : \A j \in LiveRows :
     ScoreCert(rows[j].sans, D) <= ScoreCert(rows[i].sans, D)}

(* Row ids grow with createdAt. *)
PickBestCert(D) ==
  LET eligible == {i \in LiveRows : CoversAll(rows[i].sans, D)}
      top == {i \in eligible : \A j \in eligible :
                ScoreCert(rows[j].sans, D) <= ScoreCert(rows[i].sans, D)}
  IN  {i \in top : \A j \in top : j <= i}

Decide(row) ==
  IF row.cert = {} THEN "issue" ELSE IF row.age = "fresh" THEN "cache" ELSE "renew"
-----------------------------------------------------------------------------
Init ==
  /\ \E S \in PastSans, a \in Ages, due \in BOOLEAN :
       /\ a # "fresh" => due
       /\ rows = [i \in RowIds |->
            IF i = 1 /\ S # {}
            THEN [IssuedRow(S, S, S, S, due) EXCEPT !.age = a]
            ELSE NoRow]
  /\ locks = Locks!Empty
  /\ events = [r \in Runs |-> "none"]
  /\ rpc = [r \in Runs |-> "none"]
  /\ job = [r \in Runs |-> NoJob]
  /\ qpc = [q \in Reqs |-> "new"]
  /\ via = [q \in Reqs |-> q]
  /\ answer = [q \in Reqs |-> NoAnswer]
  /\ stream = [q \in Reqs |-> Message("none", {})]
  /\ todo = [s \in Scans |-> {}]
  /\ deletes = 0 /\ faults = 0
-----------------------------------------------------------------------------
(* requestCert up to acquire.                                              *)

ReqGoto(q, from, to) == qpc[q] = from /\ qpc' = [qpc EXCEPT ![q] = to]
RunGoto(r, from, to) == rpc[r] = from /\ rpc' = [rpc EXCEPT ![r] = to]

RunArgs(i, h, D, csr) == [NoJob EXCEPT !.row = i, !.hash = h, !.domains = D, !.csr = csr]
Answer(st, i) == [status |-> st, names |-> rows[i].cert, age |-> rows[i].age]
Failure(st)   == [NoAnswer EXCEPT !.status = st]

(* emit: only a client that accepts text/event-stream is sent events. *)
Send(q, m) == stream' = IF q \in Sse THEN [stream EXCEPT ![q] = m] ELSE stream

MatchNone(q) ==
  /\ PickBestCert(Domains[q]) = {}
  /\ ReqGoto(q, "new", "issuing")
  /\ RunGoto(q, "none", "purge")
  /\ job' = [job EXCEPT ![q] = RunArgs(0, Domains[q], Domains[q], {})]
  /\ UNCHANGED <<rows, locks, events, via, answer, stream, todo, spent>>

ServeCached(q) ==
  /\ \E i \in PickBestCert(Domains[q]) :
       /\ Decide(rows[i]) = "cache"
       /\ answer' = [answer EXCEPT ![q] = Answer("ok", i)]
       /\ Send(q, Message("completed", rows[i].cert))
  /\ ReqGoto(q, "new", "answered")
  /\ UNCHANGED <<rows, locks, events, rpc, job, via, todo, spent>>

(* Due but not expired: the run renews the matched row in the background,  *)
(* as a certificate for the requested names, with the row's key and CSR.   *)
RenewInBackground(q) ==
  /\ \E i \in PickBestCert(Domains[q]) :
       /\ Decide(rows[i]) = "renew" /\ rows[i].age # "expired"
       /\ answer' = [answer EXCEPT ![q] = Answer("ok", i)]
       /\ job' = [job EXCEPT ![q] = RunArgs(i, Domains[q], Domains[q], rows[i].csr)]
  /\ ReqGoto(q, "new", "renewing")
  /\ RunGoto(q, "none", "purge")
  /\ UNCHANGED <<rows, locks, events, via, stream, todo, spent>>

(* Expired or never issued: issue, reusing the matched row's key and CSR.  *)
IssueAgain(q) ==
  /\ \E i \in PickBestCert(Domains[q]) :
       /\ rows[i].cert = {} \/ rows[i].age = "expired"
       /\ job' = [job EXCEPT ![q] = RunArgs(0, Domains[q], Domains[q], rows[i].csr)]
  /\ ReqGoto(q, "new", "issuing")
  /\ RunGoto(q, "none", "purge")
  /\ UNCHANGED <<rows, locks, events, via, answer, stream, todo, spent>>

(* The old certificate goes out once acquire has answered either way.      *)
AnswerRenewing(q) ==
  /\ rpc[q] \notin {"purge", "check", "insert"}
  /\ ReqGoto(q, "renewing", "answered")
  /\ Send(q, Message("completed", answer[q].names))
  /\ UNCHANGED <<rows, locks, events, rpc, job, via, answer, todo, spent>>
-----------------------------------------------------------------------------
(* acquire, as in ResourceLocks, then the row an issuing request writes.   *)

Purge(r) ==
  /\ RunGoto(r, "purge", "check")
  /\ locks' = Locks!PurgeExpired(locks, job[r].domains, Live)
  /\ UNCHANGED <<rows, events, job, asked, todo, spent>>

Refuse(r) ==
  /\ Locks!HeldByAnother(locks, job[r].domains, r)
  /\ RunGoto(r, "check", "refused")
  /\ UNCHANGED <<rows, locks, events, job, asked, todo, spent>>

PassCheck(r) ==
  /\ ~Locks!HeldByAnother(locks, job[r].domains, r)
  /\ RunGoto(r, "check", "insert")
  /\ job' = [job EXCEPT ![r].pending = job[r].domains]
  /\ UNCHANGED <<rows, locks, events, asked, todo, spent>>

InsertLock(r) ==
  /\ rpc[r] = "insert"
  /\ \E n \in job[r].pending :
       /\ locks' = Locks!Upsert(locks, n, r, Live)
       /\ job' = [job EXCEPT ![r].pending = @ \ {n}]
  /\ UNCHANGED <<rows, events, rpc, asked, todo, spent>>

Acquired(r) ==
  /\ job[r].pending = {}
  /\ RunGoto(r, "insert", IF job[r].row = 0 THEN "select" ELSE "acme")
  /\ UNCHANGED <<rows, locks, events, job, asked, todo, spent>>

(* SELECT id WHERE certHash = certHash *)
SelectRow(r) ==
  /\ \/ \E i \in ByHash(job[r].hash) :
            /\ RunGoto(r, "select", "acme")
            /\ job' = [job EXCEPT ![r].row = i]
     \/ /\ ByHash(job[r].hash) = {}
        /\ RunGoto(r, "select", "create")
        /\ UNCHANGED job
  /\ UNCHANGED <<rows, locks, events, asked, todo, spent>>

NextRow(i) == rows[i].state = "unused" /\ \A j \in RowIds : j < i => rows[j].state # "unused"

(* A slip: INSERT OR REPLACE. *)
CreateOrReplaceRow(r) ==
  /\ \E i \in RowIds :
       /\ IF ByHash(job[r].hash) = {} THEN NextRow(i) ELSE i \in ByHash(job[r].hash)
       /\ rows' = [rows EXCEPT ![i] = NewRow(job[r].hash, job[r].domains)]
       /\ job' = [job EXCEPT ![r].row = i]
  /\ RunGoto(r, "create", "acme")
  /\ UNCHANGED <<locks, events, asked, todo, spent>>

(* INSERT ... ON CONFLICT DO NOTHING RETURNING id *)
CreateRow(r) ==
  /\ \/ /\ ByHash(job[r].hash) = {}
        /\ \E i \in RowIds :
             /\ NextRow(i)
             /\ rows' = [rows EXCEPT ![i] = NewRow(job[r].hash, job[r].domains)]
             /\ job' = [job EXCEPT ![r].row = i]
        /\ RunGoto(r, "create", "acme")
     \/ /\ ByHash(job[r].hash) # {}
        /\ RunGoto(r, "create", "reselect")
        /\ UNCHANGED <<rows, job>>
  /\ UNCHANGED <<locks, events, asked, todo, spent>>

(* An exception before runIssue has begun leaves requestCert with the locks *)
(* still in the table; a scan goes on with its next row.                   *)
Throw(r, from) ==
  /\ rpc[r] \in from
  /\ rpc' = [rpc EXCEPT ![r] = "killed"]
  /\ IF r \in Reqs
     THEN /\ qpc' = [qpc EXCEPT ![r] = "answered"]
          /\ answer' = [answer EXCEPT ![r] = Failure("crash")]
          /\ Send(r, Message("failed", {}))
          /\ UNCHANGED via
     ELSE UNCHANGED asked

(* The row another run inserted; row!.id throws when it is gone.           *)
ReselectRow(r) ==
  \/ /\ \E i \in ByHash(job[r].hash) : job' = [job EXCEPT ![r].row = i]
     /\ RunGoto(r, "reselect", "acme")
     /\ UNCHANGED <<rows, locks, events, asked, todo, spent>>
  \/ /\ ByHash(job[r].hash) = {}
     /\ Throw(r, {"reselect"})
     /\ UNCHANGED <<rows, locks, events, job, todo, spent>>
-----------------------------------------------------------------------------
(* runIssue.                                                               *)

CsrOf(j) == IF j.csr = {} THEN j.domains ELSE j.csr

(* A slip: completed is sent before the row is updated. *)
AcmeIssuesEarly(r) ==
  /\ RunGoto(r, "acme", "completed")
  /\ job' = [job EXCEPT ![r].csr = CsrOf(job[r]), ![r].cert = CsrOf(job[r])]
  /\ UNCHANGED <<rows, locks, events, asked, todo, spent>>

AcmeIssues(r) ==
  /\ RunGoto(r, "acme", "store")
  /\ job' = [job EXCEPT ![r].csr = CsrOf(job[r]), ![r].cert = CsrOf(job[r])]
  /\ UNCHANGED <<rows, locks, events, asked, todo, spent>>

(* A domain without zone or credential, a refused order, a DNS failure.    *)
(* CertMatch tells which orders must fail; the CA decides the others.      *)
AcmeFails(r) ==
  /\ RunGoto(r, "acme", "failed")
  /\ UNCHANGED <<rows, locks, events, job, asked, todo, spent>>

(* UPDATE Certificate SET ..., sans, certHash WHERE id: nothing to update  *)
(* when the row was deleted, an error when another row has the certHash.   *)
Store(r) ==
  /\ rpc[r] = "store"
  /\ \/ /\ rows[job[r].row].state # "live"
        /\ RunGoto(r, "store", "completed")
        /\ UNCHANGED rows
     \/ /\ rows[job[r].row].state = "live"
        /\ ByHash(job[r].hash) \subseteq {job[r].row}
        /\ RunGoto(r, "store", "completed")
        /\ \E past \in BOOLEAN :
             rows' = [rows EXCEPT ![job[r].row] =
               IssuedRow(job[r].hash, job[r].domains, job[r].csr, job[r].cert, past)]
     \/ /\ rows[job[r].row].state = "live"
        /\ ~(ByHash(job[r].hash) \subseteq {job[r].row})
        /\ RunGoto(r, "store", "failed")
        /\ UNCHANGED rows
  /\ UNCHANGED <<locks, events, job, asked, todo, spent>>

(* appendEvent of the terminal event; emit, for completed only, reaches an *)
(* SSE client whose requestCert has not returned (a renewal has no emit).  *)
Announce(r, e) ==
  /\ RunGoto(r, e, "release")
  /\ events' = [events EXCEPT ![r] = e]
  /\ IF e = "completed" /\ r \in Reqs /\ qpc[r] \in {"issuing", "tail", "final", "lastError"}
     THEN Send(r, Message("completed", job[r].cert))
     ELSE UNCHANGED stream
  /\ UNCHANGED <<rows, locks, job, qpc, via, answer, todo, spent>>

Release(r) ==
  /\ RunGoto(r, "release", "ended")
  /\ locks' = Locks!DeleteOwned(locks, r)
  /\ UNCHANGED <<rows, events, job, asked, todo, spent>>

(* D1 fails a statement of the run: before runIssue, or inside it, where   *)
(* the catch block appends failed and the finally block releases, unless   *)
(* they are what fails.                                                    *)
Fault(r) ==
  /\ faults < MaxFaults
  /\ faults' = faults + 1
  /\ \/ Throw(r, {"purge", "check", "insert", "select", "create", "reselect"})
     \/ RunGoto(r, "store", "failed") /\ UNCHANGED asked
     \/ RunGoto(r, "completed", "failed") /\ UNCHANGED asked
     \/ RunGoto(r, "failed", "release") /\ UNCHANGED asked
     \/ RunGoto(r, "release", "broken") /\ UNCHANGED asked
  /\ UNCHANGED <<rows, locks, events, job, todo, deletes>>
-----------------------------------------------------------------------------
(* requestCert from acquire to the answer.                                 *)

(* A slip: the run is left to waitUntil and not awaited. *)
AwaitNothing(q) ==
  /\ q \notin Sse
  /\ rpc[q] \in {"acme", "store", "completed", "failed", "release", "ended", "broken"}
  /\ ReqGoto(q, "issuing", "final")
  /\ UNCHANGED <<rows, locks, events, rpc, job, via, answer, stream, todo, spent>>

(* A client without SSE awaits its own run, which rethrows its failure.    *)
AwaitRun(q) ==
  /\ q \notin Sse
  /\ \/ /\ rpc[q] = "ended" /\ events[q] = "completed"
        /\ ReqGoto(q, "issuing", "final")
        /\ UNCHANGED answer
     \/ /\ rpc[q] = "ended" /\ events[q] = "failed"
        /\ ReqGoto(q, "issuing", "answered")
        /\ answer' = [answer EXCEPT ![q] = Failure("issueFailed")]
     \/ /\ rpc[q] = "broken" \/ (rpc[q] = "ended" /\ events[q] = "none")
        /\ ReqGoto(q, "issuing", "answered")
        /\ answer' = [answer EXCEPT ![q] = Failure("crash")]
  /\ UNCHANGED <<rows, locks, events, rpc, job, via, stream, todo, spent>>

(* A client with SSE tails its own run's events.                           *)
TailOwn(q) ==
  /\ q \in Sse
  /\ rpc[q] \notin {"purge", "check", "insert", "refused", "select", "create", "reselect"}
  /\ ReqGoto(q, "issuing", "tail")
  /\ UNCHANGED <<rows, locks, events, rpc, job, via, answer, stream, todo, spent>>

GoLookup(q) ==
  /\ rpc[q] = "refused"
  /\ ReqGoto(q, "issuing", "owner")
  /\ UNCHANGED <<rows, locks, events, rpc, job, via, answer, stream, todo, spent>>

(* SELECT owner WHERE id IN lockIds LIMIT 1, after the refusal.            *)
LookupOwner(q) ==
  /\ \/ \E n \in Domains[q] :
            /\ Locks!Taken(locks, n)
            /\ via' = [via EXCEPT ![q] = locks[n].owner]
            /\ ReqGoto(q, "owner", IF q \in Sse THEN "tail" ELSE "poll")
     \/ /\ \A n \in Domains[q] : ~Locks!Taken(locks, n)
        /\ ReqGoto(q, "owner", "poll")
        /\ UNCHANGED via
  /\ UNCHANGED <<rows, locks, events, rpc, job, answer, stream, todo, spent>>

TailTerminal(q) ==
  /\ events[via[q]] # "none"
  /\ ReqGoto(q, "tail", "final")
  /\ Send(q, IF events[via[q]] = "completed" THEN Message("completed", job[via[q]].cert)
                                             ELSE Message("failed", {}))
  /\ UNCHANGED <<rows, locks, events, rpc, job, via, answer, todo, spent>>

PollFound(q) ==
  /\ \E i \in ByHash(Domains[q]) : rows[i].cert # {}
  /\ ReqGoto(q, "poll", "final")
  /\ UNCHANGED <<rows, locks, events, rpc, job, via, answer, stream, todo, spent>>

(* A slip: only the poll loop looks at its deadline. *)
DeadlineOfPoll(q) ==
  /\ ReqGoto(q, "poll", "final")
  /\ UNCHANGED <<rows, locks, events, rpc, job, via, answer, stream, todo, spent>>

(* A slip: a client that tails its own run is not told of the timeout. *)
DeadlineUntold(q) ==
  /\ ReqGoto(q, "tail", "final") \/ ReqGoto(q, "poll", "final")
  /\ UNCHANGED <<rows, locks, events, rpc, job, via, answer, stream, todo, spent>>

(* The 120 s deadline of either loop. *)
Deadline(q) ==
  /\ \/ /\ ReqGoto(q, "tail", "final")
        /\ IF via[q] = q THEN Send(q, Message("failed", {})) ELSE UNCHANGED stream
     \/ ReqGoto(q, "poll", "final") /\ UNCHANGED stream
  /\ UNCHANGED <<rows, locks, events, rpc, job, via, answer, todo, spent>>

FinalSelect(q) ==
  /\ \/ \E i \in ByHash(Domains[q]) :
            /\ rows[i].cert # {}
            /\ answer' = [answer EXCEPT ![q] = Answer("ok", i)]
            /\ ReqGoto(q, "final", "answered")
     \/ /\ \A i \in ByHash(Domains[q]) : rows[i].cert = {}
        /\ ReqGoto(q, "final", "lastError")
        /\ UNCHANGED answer
  /\ UNCHANGED <<rows, locks, events, rpc, job, via, stream, todo, spent>>

(* A slip: no completed event is taken for a failure. *)
LastErrorGuess(q) ==
  /\ ReqGoto(q, "lastError", "answered")
  /\ answer' = [answer EXCEPT ![q] =
       Failure(IF events[via[q]] # "completed" THEN "issueFailed" ELSE "retry")]
  /\ Send(q, Message("failed", {}))
  /\ UNCHANGED <<rows, locks, events, rpc, job, via, todo, spent>>

LastError(q) ==
  /\ ReqGoto(q, "lastError", "answered")
  /\ answer' = [answer EXCEPT ![q] =
       Failure(IF events[via[q]] = "failed" THEN "issueFailed" ELSE "retry")]
  /\ Send(q, Message("failed", {}))
  /\ UNCHANGED <<rows, locks, events, rpc, job, via, todo, spent>>
-----------------------------------------------------------------------------
(* scanAndRenew: one SELECT, then the selected rows one after another.     *)

ScanJob(i) == RunArgs(i, rows[i].hash, rows[i].sans, rows[i].csr)

ScanSelect(s) ==
  /\ todo[s] = {} /\ \A i \in RowIds : rpc[<<s, i>>] = "none"
  /\ todo' = [todo EXCEPT ![s] =
       {ScanJob(i) : i \in {j \in LiveRows : rows[j].slotReached /\ rows[j].cert # {}}}]
  /\ UNCHANGED <<rows, locks, events, rpc, job, asked, spent>>

ScanNext(s) ==
  /\ \A i \in RowIds : rpc[<<s, i>>] \in {"none", "refused", "ended", "broken", "killed"}
  /\ \E j \in todo[s] :
       /\ RunGoto(<<s, j.row>>, "none", "purge")
       /\ job' = [job EXCEPT ![<<s, j.row>>] = j]
       /\ todo' = [todo EXCEPT ![s] = @ \ {j}]
  /\ UNCHANGED <<rows, locks, events, asked, spent>>
-----------------------------------------------------------------------------
(* The environment.                                                        *)

Age(i) ==
  /\ rows[i].state = "live" /\ rows[i].cert # {}
  /\ \/ rows[i].age = "fresh" /\ ~rows[i].slotReached
        /\ rows' = [rows EXCEPT ![i].slotReached = TRUE]
     \/ rows[i].age = "fresh" /\ rows[i].slotReached
        /\ rows' = [rows EXCEPT ![i].age = "due"]
     \/ rows[i].age = "due" /\ rows' = [rows EXCEPT ![i].age = "expired"]
  /\ UNCHANGED <<locks, events, rpc, job, asked, todo, spent>>

(* The lease of a row runs out. *)
Lapse(n) ==
  /\ Locks!Taken(locks, n) /\ locks[n].expiresAt = Live
  /\ locks' = [locks EXCEPT ![n].expiresAt = Lapsed]
  /\ UNCHANGED <<rows, events, rpc, job, asked, todo, spent>>

(* DELETE /api/certificates/:id *)
DeleteRow(i) ==
  /\ deletes < MaxDeletes
  /\ rows[i].state = "live"
  /\ rows' = [rows EXCEPT ![i] = GoneRow]
  /\ deletes' = deletes + 1
  /\ UNCHANGED <<locks, events, rpc, job, asked, todo, faults>>

(* The Worker of a request is evicted, and its run with it. *)
EvictRequest(q) ==
  /\ qpc[q] \notin {"new", "evicted"}
  /\ qpc[q] = "answered" => rpc[q] \notin {"none", "refused", "ended", "broken", "killed"}
  /\ qpc' = [qpc EXCEPT ![q] = IF @ = "answered" THEN @ ELSE "evicted"]
  /\ rpc' = [rpc EXCEPT ![q] = IF @ \in {"none", "refused", "ended", "broken"} THEN @ ELSE "killed"]
  /\ UNCHANGED <<rows, locks, events, job, via, answer, stream, todo, spent>>

EvictScan(s) ==
  /\ \E i \in RowIds :
       /\ rpc[<<s, i>>] \notin {"none", "refused", "ended", "broken", "killed"}
       /\ rpc' = [rpc EXCEPT ![<<s, i>>] = "killed"]
  /\ todo' = [todo EXCEPT ![s] = {}]
  /\ UNCHANGED <<rows, locks, events, job, asked, spent>>
-----------------------------------------------------------------------------
RunStep(r) ==
  \/ Purge(r) \/ Refuse(r) \/ PassCheck(r) \/ InsertLock(r) \/ Acquired(r)
  \/ SelectRow(r) \/ CreateRow(r) \/ ReselectRow(r)
  \/ AcmeIssues(r) \/ AcmeFails(r) \/ Store(r)
  \/ Announce(r, "completed") \/ Announce(r, "failed") \/ Release(r)

ReqStep(q) ==
  \/ MatchNone(q) \/ ServeCached(q) \/ RenewInBackground(q) \/ IssueAgain(q)
  \/ AnswerRenewing(q) \/ AwaitRun(q) \/ TailOwn(q) \/ GoLookup(q)
  \/ LookupOwner(q) \/ TailTerminal(q) \/ PollFound(q) \/ Deadline(q)
  \/ FinalSelect(q) \/ LastError(q)

ScanStep(s) == ScanSelect(s) \/ ScanNext(s)

Environment ==
  \/ \E i \in RowIds : Age(i) \/ DeleteRow(i)
  \/ \E n \in Names : Lapse(n)
  \/ \E r \in Runs : Fault(r)
  \/ \E q \in Reqs : EvictRequest(q)
  \/ \E s \in Scans : EvictScan(s)

Next ==
  \/ \E r \in Runs : RunStep(r)
  \/ \E q \in Reqs : ReqStep(q)
  \/ \E s \in Scans : ScanStep(s)
  \/ Environment

Spec == Init /\ [][Next]_vars

(* A Worker that is not evicted keeps executing, a D1 call and an ACME     *)
(* order end one way or the other, and a loop with a deadline meets it.    *)
Fairness ==
  /\ \A r \in Runs : WF_vars(RunStep(r))
  /\ \A q \in Reqs : WF_vars(ReqStep(q))

FairSpec == Spec /\ Fairness
-----------------------------------------------------------------------------
(* Whatever mixture of background renewals under another name set, reused  *)
(* CSRs and concurrent scans wrote a row, its certificate serves every     *)
(* name the row claims to serve.                                           *)
StoredCertCoversSans ==
  \A i \in LiveRows : rows[i].cert # {} => CoversAll(rows[i].cert, rows[i].sans)

(* A client that gets a certificate gets one for all the names it asked    *)
(* for, also when it got it from another request's run.  An SSE client     *)
(* gets what it is streamed; when acquire refused it, that is the events   *)
(* of whichever run holds one of its names.                                *)
AnswersCoverTheRequest ==
  /\ \A q \in Reqs \ Sse : qpc[q] = "answered" /\ answer[q].status = "ok" =>
       CoversAll(answer[q].names, Domains[q])
  /\ \A q \in Sse : stream[q].kind = "completed" /\ rpc[q] # "refused" =>
       CoversAll(stream[q].names, Domains[q])

(* A stream that ends tells its client completed or failed, whatever the   *)
(* order of the run's events, the deadline and the exceptions, unless      *)
(* acquire had refused the request: then requestCert may return a          *)
(* certificate that routes.ts does not send.                               *)
StreamsEndWithVerdict ==
  \A q \in Sse : qpc[q] = "answered" /\ stream[q].kind = "none" =>
    rpc[q] = "refused" /\ answer[q].status = "ok"

(* "issuance failed" is answered only when the request's own run, or a run *)
(* that held one of its names, has failed.                                 *)
FailureHasACause ==
  \A q \in Reqs : qpc[q] = "answered" /\ answer[q].status = "issueFailed" =>
    \E r \in Runs : events[r] = "failed" /\ job[r].domains \cap Domains[q] # {}

(* The completed event is appended after the certificate is in the table:  *)
(* whoever tails it finds the certificate, unless the row was deleted.     *)
CompletedImpliesStored ==
  \A r \in Runs : events[r] = "completed" =>
    \/ rows[job[r].row].state = "deleted"
    \/ rows[job[r].row].cert # {}

(* A request that has been told of a failure, or that has looked for its    *)
(* certificate in vain.                                                     *)
GoneWithout(q) ==
  qpc[q] = "lastError" \/ (qpc[q] = "answered" /\ answer[q].status # "ok")

(* A request whose own run completes goes without its certificate only when *)
(* at that moment the row is deleted or has been given another certHash, or *)
(* its release has failed; and no run that its request has given up         *)
(* completes after all, unless so.  (The moment counts: a third run may     *)
(* give the row its old certHash again before the answer goes out.)         *)
OwnSuccessIsServed ==
  [][\A q \in Reqs \ Sse :
       LET Unserved == GoneWithout(q) /\ events[q] = "completed" IN
       ~Unserved /\ Unserved' =>
         \/ rows'[job[q].row].state = "deleted"
         \/ rows'[job[q].row].hash # Domains[q]
         \/ rpc'[q] = "broken"]_vars

(* What the hub promises, CertificateHub, read off the tables and the place *)
(* of each request.                                                         *)
HubOutcome(q) ==
  CASE qpc[q] = "evicted"  -> "gone"
    [] qpc[q] = "answered" -> IF answer[q].status = "ok" THEN "given" ELSE "refused"
    [] OTHER               -> IF answer[q].status = "ok" THEN "taken" ELSE "asked"

Hub == INSTANCE CertificateHub WITH
         Clients   <- Reqs,
         Wants     <- Domains,
         Places    <- RowIds,
         shelf     <- [i \in RowIds |-> rows[i].cert],
         withdrawn <- {i \in RowIds : rows[i].state = "deleted"},
         outcome   <- [q \in Reqs |-> HubOutcome(q)],
         given     <- [q \in Reqs |-> IF HubOutcome(q) \in {"taken", "given"}
                                        THEN answer[q].names ELSE {}]

(* However a request came by it, what requestCert returns is a certificate  *)
(* that was in the table at one instant between request and answer and      *)
(* covers what was asked; and no statement, of however many runs over one   *)
(* row, takes a certificate out of the table but the administrator's.       *)
ImplementsHub == Hub!Spec

(* Every request ends: a refused one too, and one that waits for a run     *)
(* whose Worker is gone.                                                   *)
EveryRequestEnds ==
  \A q \in Reqs : qpc[q] = "issuing" ~> qpc[q] \in {"answered", "evicted"}
=============================================================================
