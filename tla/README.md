# TLA+ models of ACME Hub

ACME Hub is a certificate hub on Cloudflare Workers: consumers ask it over HTTP
for a certificate for a set of domain names, and it answers from its D1 tables or
issues one at an ACME CA through DNS-01. A cron trigger renews what is due. Small
clients (a Caddy plugin, a CLI agent, a Kubernetes operator) fetch and install.

This directory models the parts whose correctness is hard to see and harder to
test: several Workers that share D1 tables, with no transaction across two
statements, leases that expire, Workers that vanish and clients that wait for one
another's work; TXT records that several orders list, create and delete; the three
clients, which fetch, cache, install and retry on their own; and the console, whose
tabs edit the same rows with calls that answer in any order.

## The system

| Part | State | Operations | Interacts with |
|---|---|---|---|
| `server/core/resource-locks/service.ts` | `ResourceLock` rows: id = hash of a domain, owner = run id, expiresAt | `acquire` (purge, select, upserts), `release` | called by requests and cron |
| `server/core/pki/core.ts` `requestCert` | locals of one request | match, serve from the table, renew in the background, issue and await, wait for the owner | locks, `Certificate`, `CertEvent`, `runIssue` |
| `server/core/pki/core.ts` `runIssue` | locals of one run | ACME order, slot, UPDATE of the row, events, release | locks, `Certificate`, `CertEvent`, CA, DNS |
| `server/core/pki/cron.ts` | a snapshot of due rows | select at most ten, renew one by one | as above |
| `coverage.ts`, `decide.ts`, `match.ts` | none | which certificate serves a request, and whether it is due | pure |
| `schedule.ts` | none | the 3 h window in which a certificate is renewed | pure, reads the table's `renewAt` |
| `events.ts` | `CertEvent` rows per run | append, tail | clients with SSE |
| `issue.ts`, `resolve.ts`, `utils/dns-clients` | TXT records at the provider | create, check, remove challenges | CA, DNS |
| `acme-accounts`, `domains`, `consumers`, `dns-credentials`, `certificates` | administrator's tables | CRUD, cascades | read by all of the above |
| `integrations/caddy` | certificate cache | GetCertificate | `POST /pki/v1/certificates/issue` |
| `integrations/acmehub-cli` | last certificate, attempt counter | fetch, hook, sleep | same |
| `integrations/kubernetes`, certificates | Secret, status, finalizer | Reconcile | same |
| `integrations/kubernetes`, consumers | a Ready condition per consumer | Reconcile of either kind | token Secrets |
| `server/core/auth`, `settings`, `logs` | a signed cookie, two keys, log rows | login, load and save, append and page | the administrator's browser |
| `src/` (Vue) | per tab: session, forms, lists, open dialogues | pages over the CRUD API | several calls under way at once |

What is hard in it: the check and the upserts of `acquire` are separate
statements; a lease is 120 s and is never renewed while an order may take longer;
a Worker can be evicted between any two statements; a background renewal writes
the *requesting* client's names over the row it matched while it reuses the row's
CSR; a refused client follows the events of a run that may be about other names,
may have failed or may be gone; the cron works from a snapshot. A DNS client lists
and then creates, or lists and then deletes. A Kubernetes reconcile reads, writes and
reports in separate API calls. The console sends whole forms back, and its answers
overtake one another.

What makes each part correct:

* locks: at most one holder of a domain unless two acquires raced or a lease ran
  out; no row without a live or crashed owner; no live lease taken away;
* requests and runs: every stored certificate serves every name of its row; every
  answered certificate serves every requested name; a failure that is reported
  has happened; a completed run's certificate is in the table; a stream ends with
  a verdict; every request ends;
* cron: no certificate that can be renewed expires; a scan never damages a row;
* slots: no window is booked by more certificates than a scan renews, and none lies
  before the certificate;
* choice: an answer serves every host that was asked for;
* DNS: a record stands while it is looked up, and none stays behind;
* Caddy plugin: nothing due for renewal is served from the cache, and every entry
  serves its host; agent: the hub's certificate is installed in time, and a signal
  ends it; operator: no object is forgotten, a Ready object has its secret, deletion
  ends, and what a consumer's condition says was so since its spec was written;
* administrator: deleted accounts leave no references, revoked tokens stay revoked,
  stored accounts can sign, untouched settings stay, no tab is left blank, lists
  belong to the consumer shown, paging through logs misses nothing, and what a page
  edits and removes is the row it shows.

## Modules

**`ResourceLockTable`** – the table and one operator for each SQL statement of
`service.ts` (`PurgeExpired`, `HeldByAnother`, `Upsert`, `DeleteOwned`). Both
models of locking use it, so a statement is modelled once.

**`ResourceLocks`** – runs that take, hold and release locks under a clock. One
action per statement: `Begin` (computes `now`), `Purge`, `Refuse`/`PassCheck` (the
SELECT), `InsertRow` (one upsert), `Acquired`, `Release`; `Crash` stops a run
anywhere, `Tick` advances the clock. `raced` is a history variable: runs whose
section from the SELECT to the last upsert overlapped that of a run with a common
domain. It only appears in properties and never in a guard.

**`Issuance`** – `requestCert`, `runIssue` and `scanAndRenew` over the three
tables. A *run* is one call of `runIssue` with the `acquire` before it; requests
and scans each own runs, and a request's run lives in `waitUntil`, hence goes on
after the answer. `rpc` and `qpc` are the places of runs and requests in the
code; `job` holds a run's arguments and locals, `via` is `checkRunId`, `answer`
what `requestCert` returns, `stream` the last `completed` or `failed` message an
SSE client was sent. Correspondence, in the order of `core.ts`:

| Code | Actions |
|---|---|
| match, cache hit (261–274) | `ServeCached` |
| renew in the background (276–308) | `RenewInBackground`, `AnswerRenewing` |
| issue: no match, expired, never issued (310–332) | `MatchNone`, `IssueAgain` |
| `acquire` | `Purge`, `Refuse`, `PassCheck`, `InsertLock`, `Acquired` |
| select, insert, reselect the row (336–367) | `SelectRow`, `CreateRow`, `ReselectRow` |
| `runIssue` (149–227) | `AcmeIssues`, `AcmeFails`, `Store`, `Announce`, `Release`, `Fault` |
| await or tail the own run (383–415) | `AwaitRun`, `TailOwn`, `TailTerminal`, `Deadline` |
| refused (416–466) | `GoLookup`, `LookupOwner`, `TailTerminal`, `PollFound`, `Deadline` |
| answer (469–493) | `FinalSelect`, `LastError` |
| `cron.ts` | `ScanSelect`, `ScanNext` |
| clock, administrator, eviction | `Age`, `Lapse`, `DeleteRow`, `EvictRequest`, `EvictScan` |

Abstractions: names are atoms with a reflexive and transitive coverage relation
(`MCIssuance` computes it with `CertCoverage`, `CertMatchProofs` proves that
`coversDomain` is such a relation); a certificate or CSR is its set of names; a
certificate is fresh, due or expired, and whether its renewal slot has come is a
separate bit (`Renewal` has the slots; here `Store` chooses freely); lock expiry is
live or lapsed; an order may succeed or fail at any time. There is one ACME account
and every certificate is visible to every consumer. A hash is the set it was
computed from, so collisions do not exist.

**`CertificateHub`** – what `Issuance` promises, without runs, locks, events or
deadlines: a table of certificates and clients that ask. A client is given (`Take`) a
certificate that is in the table at one instant and covers all it wants, and is told so
at once or later (`Give`), or it is refused or its Worker goes (`Fail`); a certificate is
replaced (`Issue`) or withdrawn for good (`Withdraw`) and never just gone. `ImplementsHub`
is its specification under the mapping in `Issuance`: a place is a row, a client's
outcome is read off `qpc` and `answer` (`HubOutcome`), so the many ways to an answer
(from the table, renewing in the background, after the own run, after another's run,
past the deadline) are one `Take`, and creating a row, losing a lock or a failed
statement are stutters.

**`CertCoverage`** – names as label sequences with or without `*.`, and the pure
functions on them: `CoversDomain`, `CertCoversAll`, `ScoreCert` (`coverage.ts`),
`AllowMatch`, `CertAllowed` (`match.ts`), `PickPrimaryDomain` (`utils/domain.ts`).
`Serves` is not code: it says what a TLS client accepts, and the properties use it.

**`CertMatch`** – what `Issuance` abstracts from, one request at a time: rows with
real names, consumers with allow rules, `MatchCert` (filter, score, newest first),
and the three ways on, `Reuse`, `Renew` and `Issue`, each with the whole effect of
its run; `Scan` is a renewal by cron, `Age` the clock. `Resolves` is `getDns`: which
CSRs can be challenged at all. With `AnyOutcome` orders may also fail, or succeed
because the CA still holds an authorisation.

**`Renewal`** – when certificates are renewed, with time in windows of three hours.
`Choose` is the part of `runIssue` that reads the occupancy and picks the slot,
`Store` its UPDATE; between the two other runs may choose as well, which the history
variable `raced` remembers. `ScanSelect`, `ScanRenews`, `ScanSkips` and `Evict` are
`scanAndRenew` with its LIMIT, its order and its per-row `catch`; `Stuck`
certificates are those whose order fails from some day on. `Tick` ends a window once
the scan is through: three hours are ample for ten rows.

**`DnsChallenge`** – DNS-01 challenges of concurrent orders (`issue.ts`, `resolve.ts`,
`utils/dns-clients`, `dig-resolver.ts`), one action per call to a provider: `Begin`
(the zones as they are when the order starts), `EnsureLists` and `EnsureCreates`, the
CA's lookup (`CaAccepts` over `Published`), `RemoveLists`, `Delete` and
`DeleteMissing` (a record that another challenge has removed), `Removed`,
`Unanswerable` (no zone), `CallFails`, `AnswerLost`, `Evict`, `EditDomains`. `Pages`
is what a list call may return: Cloudflare filters by name, Alibaba Cloud by a key word
that longer names contain too, and both stop after a page. `skipped` is a history
variable: the records a removal was due to take and did not, because a call failed, the
Worker was evicted, the page was full, or the loop ended at a record that the removal of
another challenge with the same value had deleted meanwhile (`cloudflare.ts:117`). The last
needs no failure at all: it is a race the code loses.

**`CertificateReconciler`** – the Kubernetes operator: the objects and Secrets as the
API server has them, the work queue, the delayed requeues and the one reconcile under
way, one action per API call.

| `Reconcile` | Actions |
|---|---|
| Get (50–53) | `Dequeue` |
| deletion (56–74) | `Cleanup`, `RemoveFinalizer` |
| finalizer (76–82) | `AddFinalizer` |
| consumer and token (84–94), hub (96–110) | `ResolveConsumer`, `Issue`, `CallFails`, `ReportFailure` |
| `CreateOrUpdate` (112–142) | `WriteSecret` |
| status and requeue (150–191) | `ReportSynced`, `Conflict` |
| users, cluster, pod, hub | `Create`, `EditSpec`, `Delete`, `RemoveSecret`, `GarbageCollect`, `Restart`, `TimerFires`, `HubRenews` |

`work.stale` says that the object has changed since it was read, which is what makes
an Update conflict. `CanDelete` is the role. `claims` is a history variable: which
objects ever named a secret.

**`ConsumerReconciler`** – the operator's two consumer controllers, each a queue and a
worker: `Take` reads the consumer, `CheckEndpoint`, `CheckSecret` or `SecretUnreadable`
judge it, `UpdateStatus`, `UpdateConflicts` or `UpdateFails` report; `GetFails` is the first
Get that returns an error. Both kinds share the
model; a cluster consumer has no secret to look at. `probe.stale` is what makes an Update
conflict, as above. `Apply`, `DeleteConsumer`, `WriteTokenSecret` and
`OperatorRestarts` come between any two calls. The history variable `had` holds the states
of each consumer's secret since its spec was written, for the controllers watch no
secrets: a condition may be out of date, but never made up.

**`HubSide`** – what a client sees of the hub: one current certificate, its dates, the
`Cache-Control` of an answer (`decide.ts`), and the clock. `CaddyCache` and
`AgentDaemon` extend it.

**`CaddyCache`** – the Caddy plugin: `Provision` chooses the source of its
configuration (inline, environment, file) and `DetectWildcards` the wildcards;
`GetCertificate` is `Get` or `Miss`, then `HubAnswers`, `Arrive` (which stores) or
`FetchFails`, for handshakes that overlap.

**`AgentDaemon`** – the loop of `acmehub-cli agent`: `Fetch`, `FetchAnswered`,
`StartHook`, `HookEnds`, `CycleFails` with its `Delay`, `WakeUp`, and a signal at any
time (`Sigterm`, `SleepCancelled`). A request takes at most `Timeout`.

**`HookSocket`** – a hook's calls of `acme <verb>`: processes that share one socket
pair with the agent. A request is two pieces (length, argv), a response three (status,
size, payload; an empty payload is no piece), as `frame.go` writes and reads them:
`WriteLength`, `WriteArgv`, `ReadRequest`, `WriteResponse`, `ReadResponse`. A call may be
killed between any two (`Kill`), and calls may overlap. Whoever then finds another piece
than it expects is out of step: the loop returns and leaves its end open (`Gone`,
`server.go:18`), a call fails, prints what is no response or waits for bytes (`Misread`).
The history variable `torn` says that part of a frame may have been left in the stream.

**`AdminStore`** – the rows the console edits. A tab has one form or one request under
way (`work`): `OpenForm`, `OpenNew`, `Save`, `Create`, `CreateParent`, `RemoveChild`;
the deletion of an account or credential statement by statement (`FindParent`,
`NullConsumers`, `NullCertificates`, `NullDomains`, `RemoveParent`); the rotation of a
token (`RotateFind`, `RotateWrite`); an issuing run that reads an account and inserts
a certificate with it (`RunReads`, `RunInserts`); `Stop` between two statements. Four
history variables say what was nulled, who took a reference after that, which tokens
were replaced and which replacement an older form has undone.

**`AccountRegistry`** – the editor of an ACME account and the registration behind a
save: `Edit` (clearing and pasting keys, URL, external account binding), `Submit`,
`Register` at the CA, `Write`, and a failure between any two. With a key and a URL in the
form `isRegistered` asks no CA, so a URL or key pasted beside the other, and a directory
changed while both stay, are stored as they are and no run can sign with them; the history
variable `unmatched` has those accounts.

**`Settings`** – setting pages that `Load`, `Type` and save a whole form, which the
server writes key by key (`SetSetting`).

**`ConsoleSession`** – the cookie, which tabs share, and each tab's idea of it:
`Login`, `Logout`, `Check`, `Fetch`, their answers and failures in any order, and
`HandleUnauthorized`, which runs some time after a 401.

**`ConsumerPage`** – the page of a consumer with its list of certificates and the
request dialogue: fetches, rotations and lists under way, each served at one moment
and arriving at another. The dialogue declares `onClose` (`RequestCertModal.vue:24`) and
never calls it, so it only ends by a click beside it (`Dismiss`), and the reload the page
hands it (`ConsumerDetailPage.vue:126`) never runs: the history variable `added` says that
a certificate came after a list was last asked for.

**`LogPager`** – the log table, to which rows are added out of the order of their ids,
and the page that counts, selects and turns. A second call may be under way (`earlier`),
and whichever answer comes is shown.

**`DetailPage`** – the pages of one account, credential, domain or certificate, which
share a frame, a removal button and their `setup`. `Visit` and `Browse` move through the
browser's history; `Arrive` is what the router and the watcher make of the new route: a
component of the same kind stays and reads the other row, any other is mounted anew.
`ServeRead` and `ReadArrives` are the two ends of a read, `ConfirmRemoval`,
`ServeRemoval`, `RemovalArrives` (which goes back, from wherever the tab is by then) and
`RemovalFails` those of a removal; `ClickEdit` and `EditorCloses` are the form. The editor
takes the row shown, the removal that of the route: while a read is under way, or after
one that failed, the two differ, and the property says so.

**`MCResourceLocks`**, **`MCIssuance`**, **`MCCertMatch`**, **`MCRenewal`**,
**`MCCertificateReconciler`**, **`MCDnsChallenge`** give the constants of the runs.
**`MCClients`** puts the clients' four programs side by side, **`MCConsole`** the seven
parts of the console: parts that share no step are explored one at a time, the others
standing still, since their interleavings show nothing. **`ResourceLocksProofs`**,
**`IssuanceProofs`**, **`CertMatchProofs`**, **`RenewalProofs`**,
**`CertificateReconcilerProofs`**, **`ClientsProofs`**, **`DnsChallengeProofs`**,
**`ConsoleProofs`** hold the theorems.

Each definition that a comment calls *a slip* is a wrong variant of the one after
it, a mistake one could make in that code. Nothing uses them: they are there to
be put in the place of the right one, and the property named in `PROJECT.json`
then fails.

## Runs

| Run | Instance | Shows |
|---|---|---|
| `resource_locks` | 3 runs, 3 ids, overlapping sets, TTL 1, clock to 3 | the three lock properties, with crashes at every statement |
| `issuance_same` | 2 clients of one host, one with SSE; 3 rows, 1 deletion, 1 failed statement | what either is told follows from what its run did; requests and table implement `CertificateHub` |
| `issuance_split` | 2 SSE clients, wildcard and apex, over one row for either or both | every answer and every own stream covers its client's names when two runs with disjoint locks write one row |
| `issuance_scan` | a client and a scan, 1 deletion, 1 failed statement | stored certificates cover their names when a writer works from a snapshot; completed is announced only when the certificate is stored |
| `issuance_ends` | as `issuance_same`, with fairness | every request that starts issuing ends |
| `cert_match` | 2 consumers, 5 sets to ask for, 3 rows, orders that may fail | every successful answer serves, for a TLS client, every host asked for; `coversDomain` agrees with that meaning for all names |
| `renewal` | 3 certificates, one stuck; 2 per scan, look-back and lead 2, lifetime 6, one dead scan, 8 windows | no overbooked window without a race, no certificate due at once, no healthy one expires |
| `operator` | 2 objects, 2 secret names, 2 sets of names, 3 events (edits, renewals, failing calls, restarts) | no object is forgotten; a Ready object has its secret; deletion ends; all settles in sync |
| `clients` | 2 handshakes, 1 host, 2 wildcards, every configuration; the agent with lifetime 8 and 12 instants; 2 calls of a hook, one of 3 verbs each, killed or overlapping at any piece; a consumer of either kind, a token secret, 4 changes or failures | nothing due from the cache, entries serve their hosts, the strongest source wins; installed in time, stopped by a signal; responses reach their calls, and calls return while the stream is whole; conditions follow the spec |
| `dns` | 2 orders, 3 challenges at one name, 2 of one value; 2 providers, pages of 2, 1 edit, 1 error | records stand while looked up, none stays that a removal came to, orders end |
| `console` | 2 tabs, an account or a credential with its children, a run; one account editor, 2 directories; 2 setting pages; 2 tabs' session; 2 consumers, 3 lists; 5 log rows, pages of 2, 2 calls under way; 3 rows, two of one kind, 4 entries of history, 3 reads | the properties of the administrator's side |
| `deletion_stuck` | as `operator`, without the verb delete | an object that has a secret is never deleted |

The last one ends in a counterexample, on purpose: the operator deletes the secret in
its finalizer, and the role it documents and ships does not allow that (`findings` in
`PROJECT.json`). More disagreements between the code and what is written about it were
met on the way, and the models have each of them; they have no run of their own.

* The comment on the table promises that nobody issues one domain concurrently
  ("防止并发签发同一域名"): two acquires may both pass the SELECT, and a run may outlive
  its 120 s lease. `ExclusiveUnlessRacedOrLapsed` has both exceptions.
* `decide.test.ts` renews what is expired: a client that was refused is answered with
  whatever certificate its row has, also an expired one.
* A current certificate is passed over for an expired or empty row of more names,
  because rows are ranked before they are looked at, and the request issues again
  (against the Kubernetes README: "cached certificates and renewals return immediately").
* A request for a host that an expired wildcard row covers sends the wildcard's CSR,
  for which no challenge can be answered, and fails with 412 until the wildcard is
  renewed.
* As many rows whose order always fails as a scan takes starve all others, since they
  keep their `renewAt`; in `renewal` there are fewer.
* A row changes its name set when a narrower request renews it, and `sans` then names
  less than the certificate does; what stays true is `StoredCertCoversSans`.
* A consumer whose only rule is fulltext `*.e` never finds its own certificate, because
  `certAllowed` tests the stored common name `e`.
* A logout that fails leaves a blank page (the exception of `AppPagesAreSignedIn`).
* The page of a consumer hands its dialogue an `onClose` that loads the list again, and
  the dialogue never calls it: after a request the list is stale until something else
  loads it. `ListFollowsConsumer` claims of a list no more than it had when asked for.

Bounds. Two requests are the fewest that race, wait for one another and share a row;
three runs on three ids are the fewest in which a run is raced by one and outlived by
another. Three rows hold the row there was before, one per request, and one inserted
again after a deletion. One deletion and one failed statement reach every branch that
handles them. TTL 1 and a clock to 3 let a lease lapse, be taken over and lapse again.
The names of `cert_match` are an apex, its wildcard, a host, a wildcard below and a name
below that: every way two names can be related; its hosts are all sequences of up to
three of four labels. In `renewal`, six windows of lifetime are the fewest in which no
certificate expires: with five, two certificates booked for one window, a row that uses
up half of each scan and a dead scan are already too much; `SYMMETRY` swaps the two
healthy ones, and no liveness is checked there. The code's numbers (56 windows of
look-back, a third of 90 days left) leave far more. In `operator`, three events are the
fewest that edit an object during its reconcile, let the retry fail and restart the pod.
In `clients`, twelve instants are a lifetime and a half: renewal age 5, local age 7 and
margin 2 keep the order they have in the code (two thirds, nine tenths, one day), and a
longest delay of 3 is reached after two failures. Two calls of a hook are the fewest of
which one overlaps the other or is killed before it; the three verbs are one answered,
one with an empty payload and one refused. Four changes create a consumer and its secret,
edit either during a reconcile and fail its report. In `dns`, a page of two is full as
soon as a foreign record joins, and four records are more than three challenges create
unless one is created twice. In `console`, two tabs suffice to interleave a deletion with
a form, an issuing run is the third actor; three lists are the fewest of which one
overtakes another and a third is right; five log rows fill two pages and part of a third;
two accounts and a certificate are the fewest rows between which a page is kept as well
as replaced, and three reads let an older answer come last. `MaxToken`, `MaxEdit`,
`MaxKey`, `MaxLoads`, `MaxFetches`, `MaxPageToken`, `MaxIssued`, `MaxLogs`, `MaxVisits`,
`MaxReads` and `MaxChanges` bound what would grow without end.

Deadlock is not checked (`CHECK_DEADLOCK FALSE`): when all requests are answered
and all runs have ended the system is at rest, and clocks stop at their bound.

Fairness. In `issuance_ends`: weak fairness of each run's and each request's own steps. A
Worker that is not evicted keeps executing, a D1 call and an ACME order return or throw,
and the waiting loops have a 120 s deadline. Nothing is assumed of scans, the clock, the
administrator, eviction or D1 failures; eviction is an outcome the property allows. In
`dns`: each challenge's own steps and the end of an order, for the same reason. In
`operator`: the worker goes on (weak), timers fire (weak), and an object in the queue is
taken in turn (strong, for the queue is first in first out while other objects come and
go); nothing is assumed of users, the cluster, the hub or failures, of which there are
finitely many. In `clients`: the agent's loop, its hook, which has to end since the code
sets it no limit, and in the socket the serving goroutine and each call once it has
begun: a process goes on when what it reads is there. The other runs check safety and
state none.

## Proofs

TLAPS proves the following for every value of the constants that satisfies their
assumptions (`CoverAssumption`: coverage is a preorder on names, as `coversDomain` is;
`NoRunAssumption`, `IdsOfAssumption`, `NamesAssumption`, `RunsAssumption`,
`BoundAssumption`, `TimeAssumption`: types, non-empty domain sets, distinct runs;
`HostsAssumption`: there are enough hosts to tell the names apart; in `Renewal`, the lead
is at least the look-back, that is, lifetime times ratio is at least 7 days;
`AgesAssumption`, `TimeoutAssumption`: a client's request times out within the hub's
margin, 120 s against a day; `RowAssumption`: rows of different tables differ;
`OrdersAssumption`, `ForeignAssumption`, `SizesAssumption`: types, and that records of
others have other values and ids; `SomeAssumption`, `PresentAssumption`,
`NobodyAssumption`, `CertsAssumption`, `VerbAssumption`, `EabAssumption`,
`KeyAssumption`, `PageAssumption`, `DetailAssumption`, `ConsumerAssumption`,
`SecretAssumption`, `ChangesAssumption`: sets that are not empty, are finite or do not
meet, and values that stand for nothing; `ProfileAssumption`: the configuration's empty
profile has become `default` before it is looked up).

**`ResourceLocksProofs`.** `TypeCorrect`, `Exclusion`, `NoLeak` and `LeaseKept`.
Exclusion alone is not inductive: nothing in it links the table to who believes to
hold what. `LockInv` adds that a run that has upserted an id and has not raced
owns the row unless its lease has lapsed (`OwnsWhatItUpserted`), that such a row
carries at least the owner's expiry, and that `pending` is only used while
inserting. Then two holders that neither raced nor lapsed would both own one row.

**`IssuanceProofs`.** `TypeCorrect`, `StoredCoverage`, `AnswerCoverage`,
`HubImplemented`, `VerdictsAreSent`, `FailuresHaveCauses`, `CompletedIsStored` and
`SuccessIsServed`. The argument has three layers, and four invariants beside them.
`PlaceInv` says where things can be: a request's own run is for the request's
names, a run has no terminal event before it got to append one, and a client
follows another run only if it was refused. `CoverInv` follows
the certificate on its way: a row's certificate and CSR cover its names, a job's
CSR covers its names, a snapshot is as good as the row it was taken from, a
certificate about to be stored or announced covers its job, and so does what a
client was sent. The step that needs care is a renewal that reuses a wide row's
CSR for narrower names: the CSR still covers them, because the match required the
row's names to cover the request and coverage is transitive.

The streams of refused clients are excluded from `AnswersCoverTheRequest`: they
follow whichever run holds one of their names, and that run may be for other
names. TLC finds that case at once if the exclusion is dropped.

`PromiseInv` is the third layer, for the refinement: an exception in a run can only
answer a request that still waits for it (`RunsAreAwaited`: a request that was told its
renewal has begun is not told later that it failed), and neither jobs nor live rows are
for no names (`NothingNameless`), since a certificate for none would look like a row
without one. Each run, request and scan step is then an abstract step or a stutter.

`VerdictInv`, for `VerdictsAreSent`: only refused requests follow another run, and a
stream that is about to end without a verdict belongs to one of them. `CauseInv`, for
`FailuresHaveCauses`: a lock row is for a name of its owner's job, so the run that a
refused request finds and follows has a name in common with it, and only such a run's
failure is passed on. `StoredInv`, for `CompletedIsStored`: a run's row is in the table
before it is announced, and no write of another run, a renewal included, takes a
certificate out of a row; only its deletion does. For `SuccessIsServed`, `RunsAreOver`: a
request looks for its certificate, or is told of a failure, when its run has nothing left
to do. The property is about a step, not a state: with a third client a row may be
renamed before the search and named back before the answer, which leaves a state that
shows no reason for the refusal any more.

**`CertMatchProofs`.** `CoverageOrder`: `coversDomain` is a preorder, which is what
`IssuanceProofs` assumes. `SemanticCoverage`: it accepts exactly the rows that leave
no host out. `AnswersServe` needs `MatchInv`: the certificate and the CSR of a row
are for the same names and cover those the row claims. `AnswersServeHosts` alone says
nothing about rows, and a renewal would not preserve it: it takes the names from the
request and the CSR from the row.

**`RenewalProofs`.** `TypeCorrect`, and `SlotsAhead` from `BookingInv`, which adds that a
run between reading the occupancy and its UPDATE has chosen a window of the look-back.
`SlotsFit` rests on the pigeonhole principle (`PigeonsFit`, from injections and the
cardinality of products, without induction): if every window of the look-back held
`Limit` others there would be more certificates than fit. Between its choice and its
UPDATE a run keeps its room (`ChoicesHaveRoom`), because whoever chooses meanwhile is
marked as disturbed; at most one run under way is not (`OneUndisturbed`).

`HealthyAreRenewed` needs to know that the scans keep up, which is a matter of numbers:
`ScansKeepUp` asks that fewer rows than a scan takes fail for good, and that the scans
that are left between the last window a certificate may be booked for and its expiry,
less those that die, have room for all healthy rows beside the failing ones. With the
code's numbers (90 days, a ratio of a third, 10 rows a scan) that is 239 scans: over two
thousand rows if one fails. The run's instance meets it with equality. The argument
counts: a row that is still booked for window s has seen a scan in every window since; a
scan that is not cut off renews a row booked by then at the latest, for every place that
no failing row took, and rows booked later cannot overtake it, for they come after it in
the scan; and what is issued now is booked for a later window. So `ScansSince` has it
that after n such scans only what n times `Gain` leaves of the healthy rows is still
behind; `ScanSoFar` says the same of a scan half way, whose rows are `Pending`.

**`CertificateReconcilerProofs`.** `ReconcilerTypes`, and `NothingIsForgotten`, which is
inductive together with the types: an object leaves the queue only into the worker's
hands, and every way out of the worker arms a requeue or ends the object.
`ReadyIsKept` from `ReadyInv`: the owner of a secret, and the object in work with the
spec it read, are among those who ever claimed that secret (`ClaimsAreKept`), so with
one claimant whoever takes the secret away queues its object; what the worker has read
is current or its object is queued (`SeenOrQueued`); and what it is about to report
stands or its object is queued (`WrittenOrQueued`).

**`ClientsProofs`.** `CacheServesNothingDue` from `CacheInv`: an answer on its way was
given a max-age that ends a margin before the renewal age, and it has been on its way
for less than that margin; so has what was stored, whoever overwrote it.
`CacheServesItsHosts`: every fetch under way is for a name that serves the host it is
for (`ShakesServe`). `ResponsesAreOwn` from `SockInv`: while no call is disturbed at most
one waits, and the stream holds pieces of its
request or of its response, in their order, and the loop is at the piece that fits
(`OneAtATime`). `StrongestWins` follows the provider's steps through `ProviderInv`: what
resolving one source after another leaves is what the ranking says (`FirstIsTaken`,
`ProfileResolves`). `AgentIsInTime` from `AgentInv`, where a request and the sleep before
it start no later than the deadline and have lasted no longer than they may. The agent's
delay doubles by a recursive function; that such a function exists (`BackoffExists`) and
that its values stay within the cap (`DelayIsCapped`) is proved by a least
counterexample, a minimal element of a set of numbers. `ConditionsHold` from
`ConsumersInv`: a consumer nobody will look at again has a condition that fits; one that
is being looked at and has not been written since it was read is still what was read, and
its verdict fits what its secret was (so the report, if it does not conflict, fits); and
`had` always holds the secret's present state. `ClientsTypes` puts the types of the four
programs together.

**`DnsChallengeProofs`.** `RecordsStand` and `RecordsAreRemoved` from `DnsInv`: what a
challenge has listed for deletion carries its own name and value (`ListedIsOwn`), ids
are never reused (`IdsAreUnique`), a challenge keeps the zone it started with
(`Places`), and for every record somebody is still going to remove it
(`SomeoneRemoves`); `TypeCorrect` adds that a record is only created where a zone was
found. `SomeoneRemoves` is where the argument lies: a record that two challenges
of one value share may be listed by the one and created again by the other.

**`ConsoleProofs`.** Each part of the console by itself, then all together.
`StoreTypes`, `DeletionsClean` and `RevocationHolds` from `ReferenceInv` and `TokenInv`:
a removed parent has had all its tables nulled, a reference to a nulled parent was taken
late, forms, runs and choices hold only parents there were, and no token is above the
counter. `AccountsSign` from `RegistryInv`: a registered pair in a form, and what it is
about to write, is one that the CA of its directory gave unless the admin put it
together or changed the directory beside it, and a registration is only asked for half a
pair (`FormsAreOwnOrGiven`).
`UntouchedFieldsHold` from `SettingsInv`: what a page loaded was the value of its key
once (`LoadedIsHad`), however many saves have come between. `TabsAreSignedIn` holds of
every step by itself, given the types. `ListsFollow` from `PageInv`: the load started last
carries the page's token, and what it holds is right but for certificates added since
(`LastLoadFollows`); a token names one consumer for ever (`TokensNameOne`), so a list
asked for with the right token is of the right consumer. `NothingIsMissed` and
`LastPageEnds` from `PagerInv`: rows are only added, so what stood when the first page
was read moves to later pages only, and the rows up to the read position have been met
(`WalkCovers`, over the ranks of the rows). `OneRow` from `DetailInv`: of the reads under
way only the one sent last is sure to be for the row of the route, and once its answer has
come it is that row that is shown, or an error; off these pages nothing is shown, read or
failed. `PartsAreAlone`: the composition that the run
checks implements each part's own specification, so every theorem of a part is one of
the whole; `ConsoleTypes` is such a one.

The type invariants are theorems for all instances, and the runs do not repeat them.

Only model-checked: liveness (`EveryRequestEnds`, `DeletionFinishes`,
`EventuallySynced`, `StopsOnSignal`, `CallsReturn`, `OrdersEnd`), since fairness and
ENABLED are out of the prover's reach. Every safety property of the runs is a theorem.

## Not modelled

* Validation and authorisation before the match, and D1 failures of the reads a
  request makes itself (they end the request with a 4xx/5xx and change nothing).
* Progress events (`started`, `decision`, `challenge`), heartbeats, and the fact
  that an SSE owner gets every event of its run twice (`emit` and the tail).
* Writes to a closed stream, which the HTTP library ignores.
* Certificates that cannot be parsed or have no lifetime.
* More than one ACME account; accounts deleted or unregistered between the scan's
  SELECT and its run.
* Rows created within one second, whose order by `createdAt` is arbitrary.
* Certificates whose lifetime times ratio is under a week: their slot may already be
  past when it is booked, and every scan renews them again.
* Of the operator: the lag of its caches (a reconcile reads what the API server has) and
  the length of the rate limiter's delays.
* Of the clients: key and file formats, the jitter of the backoff, the use of a
  proxy (one that does not parse fails the provisioning), the parsing of the Caddyfile,
  and the eviction of cache entries, which the plugin does not do.
* Of DNS: the signature of Alibaba Cloud's API, the propagation between a provider's
  servers (a record is published when it is created) and time to live.
* Of the console: lists that only show rows, formatting, the age of
  the cookie. Direct writes to certificates by the API, which no page makes.

What is not in this repository is taken from how it is used. The answers of
`useAsyncState` may arrive in any order, and each is shown (`ConsumerPage`, `DetailPage`,
`LogPager`). `useCachedCollection` keeps a list for 30 s, which is the same as a form
opened earlier. A click beside a `vue-final-modal` closes it and nothing else.

Hazards that no property covers, because the damage lies outside the models or because
the code's answer to them is a matter of taste:

* requests for fewer names than the matched row rewrite its names (`core.ts:297`), and
  reuse its wider CSR (`issue.ts:54`); an expired or empty row may outscore a current
  one (`coverage.ts:73`); `certAllowed` tests a common name without its wildcard
  (`core.ts:104`);
* the cleaning of challenges starts with an event outside its `try` (`issue.ts:133`),
  and one value may belong to two orders (`issue.ts:138`);
* PUT of an account registers at the CA before it finds that the id is missing
  (`acme-accounts/routes.ts:60`); a changed directory with an emptied URL and a kept key
  registers the old key anew, and with the URL kept it is stored as it is, beside a URL
  of another CA with which no run can sign (`registrar.ts:14`, `:34`);
* settings are written key by key, so two saves may mix (`settings/service.ts:31`); a
  logout that fails leaves the cookie (`stores/auth.ts:31`); the answer of a rotation
  may arrive after a navigation (`ConsumerDetailPage.vue:152`); a change of provider
  clears the fields of a credential that is being loaded (`DnsCredentialEditor.vue:55`);
* the Caddy cache never evicts (`cache.go:30`); an agent whose certificate is past its
  local renewal time asks the hub without a pause (`agent.go:134`); a hook has no limit
  of time (`hook.go:89`);
* a changed `secretName` leaves the old secret behind, two objects may name one secret,
  and each change of a status is an event that requeues its object past the rate limiter
  (`acmehubcertificate_controller.go:61`, `:126`, `:90`).

Hazards that a property names as its exception: the model has them and reaches them, and
the code loses.

| Where | What happens | Exception of |
|---|---|---|
| `resource-locks/service.ts:23`, `core.ts:327` | two acquires pass the SELECT; a run outlives its lease | `ExclusiveUnlessRacedOrLapsed` |
| `core.ts:417` | a refused client follows the stream of a run for other names | `AnswersCoverTheRequest` |
| `cron.ts:37` | as many rows that always fail as a scan takes starve the others | `HealthyNeverExpire` (by `ScansKeepUp`) |
| `cloudflare.ts:117` | two removals of one value: the one that comes late to a record gives up the rest | `NothingLeftBehind` |
| `aliyun.ts:119` | a record beyond the page is not removed | `NothingLeftBehind` |
| `sock.go:26`, `server.go:18` | calls that overlap take one another's response; after part of a frame the loop is gone and a call blocks as long as the hook runs | `OwnResponses`, `CallsReturn` |
| `acme-accounts/routes.ts:94` | a form saved or a certificate inserted after its table was nulled refers to nothing | `DanglingNeedsALateWrite` |
| `registrar.ts:14` | a URL or key pasted beside the other, a directory changed beside both | `AccountsCanSign` |
| `consumers/routes.ts:19` | a form opened before the rotation brings the old token back | `RevokedStaysRevoked` |
| `SettingPage.vue:46` | a form loaded earlier writes back what another page has replaced | `UntouchedFieldsKeepTheirValues` |
| `ConsumerDetailPage.vue:61`, `:126` | a list overtakes the one asked for last; none is loaded after a request | `ListFollowsConsumer` |
| `logs/service.ts:26` | a row is added between the count and the select | `LastPageIsTheEnd` |
| `RemovalButton.vue:25` | the removal of the row of the route while another is shown, during a read or after one that failed | `ButtonsActOnOneRow` |
| `stores/auth.ts:31` | a logout that fails leaves a blank page | `AppPagesAreSignedIn` |

## Plan

1. An abstract specification of leases that `ResourceLocks` implements, and its proof.
2. Abstract specifications of the operator and of DNS challenges (what a user and what
   the CA may rely on), with their refinements.
3. Progress events of a run, and an SSE owner that is sent each of them twice.
