---------------------------- MODULE IssuanceProofs ----------------------------
(* Theorems about issuing, for every set of names with a reflexive and     *)
(* transitive coverage relation, every set of requests and scans, and      *)
(* every number of rows.                                                   *)
EXTENDS Issuance, TLAPS

(* What a lock statement leaves in a row is a row.                         *)
LEMMA LockStatements ==
  ASSUME locks \in Locks!Table, NEW r \in Runs
  PROVE  /\ \A ids \in SUBSET Names : Locks!PurgeExpired(locks, ids, Live) \in Locks!Table
         /\ \A n \in Names : Locks!Upsert(locks, n, r, Live) \in Locks!Table
         /\ Locks!DeleteOwned(locks, r) \in Locks!Table
  BY DEF Locks!Table, Locks!Row, Locks!PurgeExpired, Locks!Upsert, Locks!DeleteOwned,
         Locks!Absent, Locks!Taken, Live

(* The records that actions put into the tables.                           *)
LEMMA ConstantRecords == NoRow \in RowType /\ NoJob \in JobType /\ NoAnswer \in AnswerType
  BY BoundAssumption DEF NoRow, NoJob, NoAnswer, RowType, JobType, AnswerType, Ages

(* The locals of a run stay well-typed under each of the updates that      *)
(* runIssue and requestCert make to them.                                  *)
LEMMA JobRecords ==
  /\ \A i \in 0..MaxRows, h, D, csr \in SUBSET Names : RunArgs(i, h, D, csr) \in JobType
  /\ \A j \in JobType :
       /\ \A p \in SUBSET Names : [j EXCEPT !.pending = p] \in JobType
       /\ \A i \in 0..MaxRows : [j EXCEPT !.row = i] \in JobType
       /\ [j EXCEPT !.csr = CsrOf(j), !.cert = CsrOf(j)] \in JobType
<1>1. \A i \in 0..MaxRows, h, D, csr \in SUBSET Names : RunArgs(i, h, D, csr) \in JobType
  BY ConstantRecords DEF RunArgs, JobType
<1>2. ASSUME NEW j \in JobType
      PROVE  /\ \A p \in SUBSET Names : [j EXCEPT !.pending = p] \in JobType
             /\ \A i \in 0..MaxRows : [j EXCEPT !.row = i] \in JobType
             /\ [j EXCEPT !.csr = CsrOf(j), !.cert = CsrOf(j)] \in JobType
  BY DEF JobType, CsrOf
<1> QED
  BY <1>1, <1>2

(* Every answer requestCert gives is an error or the contents of a row.    *)
LEMMA AnswerRecords ==
  /\ \A st \in {"none", "ok", "issueFailed", "retry", "crash"} : Failure(st) \in AnswerType
  /\ rows \in [RowIds -> RowType] => \A i \in RowIds : Answer("ok", i) \in AnswerType
<1>1. \A st \in {"none", "ok", "issueFailed", "retry", "crash"} : Failure(st) \in AnswerType
  BY ConstantRecords DEF Failure, AnswerType
<1>2. ASSUME rows \in [RowIds -> RowType], NEW i \in RowIds PROVE Answer("ok", i) \in AnswerType
  BY <1>2 DEF Answer, AnswerType, RowType
<1> QED
  BY <1>1, <1>2

(* Every message of a stream is a message, and sending one touches only    *)
(* the stream of the client.                                               *)
LEMMA Messages ==
  ASSUME stream \in [Reqs -> MessageType], NEW q \in Reqs,
         NEW k \in {"none", "completed", "failed"}, NEW S \in SUBSET Names
  PROVE  Message(k, S) \in MessageType /\ (Send(q, Message(k, S)) => stream' \in [Reqs -> MessageType])
  BY DEF MessageType, Message, Send

(* What INSERT, UPDATE and DELETE leave in a row of Certificate is a row.  *)
LEMMA RowRecords ==
  /\ \A h, D \in SUBSET Names : NewRow(h, D) \in RowType
  /\ GoneRow \in RowType
  /\ \A h, D, C, K \in SUBSET Names, past \in BOOLEAN :
       /\ IssuedRow(h, D, C, K, past) \in RowType
       /\ \A a \in Ages : [IssuedRow(h, D, C, K, past) EXCEPT !.age = a] \in RowType
<1>1. \A h, D \in SUBSET Names : NewRow(h, D) \in RowType
  BY ConstantRecords DEF NewRow, RowType
<1>2. GoneRow \in RowType
  BY ConstantRecords DEF GoneRow, RowType
<1>3. \A h, D, C, K \in SUBSET Names, past \in BOOLEAN :
       /\ IssuedRow(h, D, C, K, past) \in RowType
       /\ \A a \in Ages : [IssuedRow(h, D, C, K, past) EXCEPT !.age = a] \in RowType
  BY DEF IssuedRow, RowType, Ages
<1> QED
  BY <1>1, <1>2, <1>3

(* Row ids are row numbers, and 0 stands for no row.                       *)
LEMMA RowIdsAreNumbers == RowIds \subseteq 0..MaxRows /\ 0 \in 0..MaxRows
  BY BoundAssumption DEF RowIds

(* pickBestCert only chooses among the rows that cover the request.        *)
LEMMA BestIsLive == \A D : PickBestCert(D) \subseteq {i \in LiveRows : CoversAll(rows[i].sans, D)}
  BY DEF PickBestCert

AskedType ==
  /\ qpc \in [Reqs -> ReqPhases]
  /\ via \in [Reqs -> Runs]
  /\ answer \in [Reqs -> AnswerType]
  /\ stream \in [Reqs -> MessageType]

(* An exception before runIssue leaves the client with an error.           *)
LEMMA ThrowType ==
  ASSUME TypeOK, NEW r \in Runs, NEW from, Throw(r, from) \/ UNCHANGED asked
  PROVE  AskedType'
<1> USE DEF TypeOK, AskedType, asked
<1>1. CASE UNCHANGED asked
  BY <1>1
<1>2. CASE Throw(r, from) /\ r \in Reqs
  BY <1>2, Messages, AnswerRecords DEF Throw, ReqPhases
<1>3. CASE Throw(r, from) /\ r \notin Reqs
  BY <1>3 DEF Throw
<1> QED
  BY <1>1, <1>2, <1>3

(* No statement of acquire, of the row creation or of runIssue breaks the  *)
(* types of the tables.                                                    *)
LEMMA RunTypeStep ==
  ASSUME TypeOK, NEW r \in Runs, RunStep(r)
  PROVE  TypeOK'
<1> USE DEF TypeOK, RunGoto, RunPhases, asked, spent
<1> DEFINE J == job[r]
<1>0. /\ locks \in Locks!Table /\ J \in JobType
      /\ J.hash \in SUBSET Names /\ J.domains \in SUBSET Names /\ J.csr \in SUBSET Names
      /\ J.cert \in SUBSET Names /\ J.pending \in SUBSET Names
  BY DEF JobType
<1>1. CASE Purge(r)
  BY <1>0, <1>1, LockStatements DEF Purge
<1>2. CASE Refuse(r) \/ Acquired(r) \/ AcmeFails(r)
  BY <1>2 DEF Refuse, Acquired, AcmeFails
<1>3. CASE PassCheck(r)
  <2>1. [J EXCEPT !.pending = J.domains] \in JobType
    BY <1>0, JobRecords
  <2> QED
    BY <1>3, <2>1 DEF PassCheck
<1>4. CASE InsertLock(r)
  <2> PICK n \in J.pending : /\ locks' = Locks!Upsert(locks, n, r, Live)
                             /\ job' = [job EXCEPT ![r].pending = @ \ {n}]
    BY <1>4 DEF InsertLock
  <2>1. [J EXCEPT !.pending = J.pending \ {n}] \in JobType
    BY <1>0, JobRecords
  <2>2. locks' \in Locks!Table
    BY <1>0, LockStatements
  <2> QED
    BY <1>4, <2>1, <2>2 DEF InsertLock
<1>5. CASE SelectRow(r) \/ CreateRow(r) \/ ReselectRow(r)
  <2>1. \A i \in RowIds : [J EXCEPT !.row = i] \in JobType
    BY <1>0, JobRecords, RowIdsAreNumbers
  <2>2. job' \in [Runs -> JobType]
    BY <1>5, <2>1 DEF SelectRow, CreateRow, ReselectRow, ByHash, LiveRows
  <2>3. rows' \in [RowIds -> RowType]
    BY <1>0, <1>5, RowRecords DEF SelectRow, CreateRow, ReselectRow
  <2>4. Throw(r, {"reselect"}) \/ UNCHANGED asked
    BY <1>5 DEF SelectRow, CreateRow, ReselectRow
  <2>5. AskedType'
    BY <2>4, ThrowType DEF AskedType
  <2> QED
    BY <1>5, <2>2, <2>3, <2>5 DEF SelectRow, CreateRow, ReselectRow, Throw, AskedType
<1>6. CASE AcmeIssues(r)
  <2>1. [J EXCEPT !.csr = CsrOf(J), !.cert = CsrOf(J)] \in JobType
    BY <1>0, JobRecords
  <2> QED
    BY <1>6, <2>1 DEF AcmeIssues
<1>7. CASE Store(r)
  <2>1. rows' \in [RowIds -> RowType]
    BY <1>0, <1>7, RowRecords DEF Store
  <2> QED
    BY <1>7, <2>1 DEF Store
<1>8. CASE Announce(r, "completed") \/ Announce(r, "failed")
  <2>1. stream' \in [Reqs -> MessageType]
    BY <1>0, <1>8, Messages DEF Announce
  <2> QED
    BY <1>8, <2>1 DEF Announce
<1>9. CASE Release(r)
  BY <1>0, <1>9, LockStatements DEF Release
<1> QED
  BY <1>1, <1>2, <1>3, <1>4, <1>5, <1>6, <1>7, <1>8, <1>9 DEF RunStep

(* Nor does any step of requestCert,                                       *)
LEMMA ReqTypeStep ==
  ASSUME TypeOK, NEW q \in Reqs, ReqStep(q)
  PROVE  TypeOK'
<1> USE DEF TypeOK, RunGoto, ReqGoto, RunPhases, ReqPhases, spent
<1> q \in Runs /\ Domains[q] \in SUBSET Names
  BY NamesAssumption DEF Runs
<1>0. PickBestCert(Domains[q]) \subseteq RowIds
  BY BestIsLive DEF LiveRows
<1>1. CASE MatchNone(q)
  BY <1>1, JobRecords, RowIdsAreNumbers DEF MatchNone
<1>2. CASE ServeCached(q)
  BY <1>0, <1>2, AnswerRecords, Messages DEF ServeCached, RowType
<1>3. CASE RenewInBackground(q)
  <2>1. \A i \in RowIds : rows[i].csr \in SUBSET Names
    BY DEF RowType
  <2>2. \A i \in RowIds : RunArgs(i, Domains[q], Domains[q], rows[i].csr) \in JobType
    BY <2>1, JobRecords, RowIdsAreNumbers
  <2>3. job' \in [Runs -> JobType] /\ answer' \in [Reqs -> AnswerType]
    BY <1>0, <1>3, <2>2, AnswerRecords DEF RenewInBackground
  <2> QED
    BY <1>3, <2>3 DEF RenewInBackground
<1>4. CASE IssueAgain(q)
  <2>1. \A i \in RowIds : RunArgs(0, Domains[q], Domains[q], rows[i].csr) \in JobType
    BY JobRecords, RowIdsAreNumbers DEF RowType
  <2> QED
    BY <1>0, <1>4, <2>1 DEF IssueAgain
<1>5. CASE TailOwn(q) \/ GoLookup(q) \/ PollFound(q)
  BY <1>5 DEF TailOwn, GoLookup, PollFound
<1>10. CASE AnswerRenewing(q)
  BY <1>10, Messages DEF AnswerRenewing, AnswerType
<1>11. CASE TailTerminal(q)
  <2>1. job[via[q]].cert \in SUBSET Names
    BY DEF JobType
  <2> QED
    BY <1>11, <2>1, Messages DEF TailTerminal
<1>12. CASE Deadline(q)
  BY <1>12, Messages DEF Deadline
<1>6. CASE AwaitRun(q)
  BY <1>6, AnswerRecords DEF AwaitRun
<1>7. CASE LookupOwner(q)
  BY <1>7 DEF LookupOwner, Locks!Taken, Locks!Table, Locks!Row
<1>8. CASE FinalSelect(q)
  BY <1>8, AnswerRecords DEF FinalSelect, ByHash, LiveRows
<1>9. CASE LastError(q)
  BY <1>9, AnswerRecords, Messages DEF LastError
<1> QED
  BY <1>1, <1>2, <1>3, <1>4, <1>5, <1>6, <1>7, <1>8, <1>9,
     <1>10, <1>11, <1>12 DEF ReqStep

(* nor of scanAndRenew,                                                    *)
LEMMA ScanTypeStep ==
  ASSUME TypeOK, NEW s \in Scans, ScanStep(s)
  PROVE  TypeOK'
<1> USE DEF TypeOK, RunGoto, RunPhases, asked, spent
<1>1. CASE ScanSelect(s)
  <2>1. \A i \in RowIds : {rows[i].hash, rows[i].sans, rows[i].csr} \subseteq SUBSET Names
    BY DEF RowType
  <2>2. \A i \in LiveRows : ScanJob(i) \in JobType
    BY <2>1, JobRecords, RowIdsAreNumbers DEF ScanJob, LiveRows
  <2> QED
    BY <1>1, <2>2 DEF ScanSelect
<1>2. CASE ScanNext(s)
  <2> PICK j \in todo[s] : /\ RunGoto(<<s, j.row>>, "none", "purge")
                           /\ job' = [job EXCEPT ![<<s, j.row>>] = j]
                           /\ todo' = [todo EXCEPT ![s] = @ \ {j}]
    BY <1>2 DEF ScanNext
  <2>1. job' \in [Runs -> JobType] /\ todo' \in [Scans -> SUBSET JobType]
    OBVIOUS
  <2> QED
    BY <1>2, <2>1 DEF ScanNext
<1> QED
  BY <1>1, <1>2 DEF ScanStep

(* nor anything the environment does.                                      *)
LEMMA EnvironmentTypeStep == ASSUME TypeOK, Environment PROVE TypeOK'
<1> USE DEF TypeOK, RunPhases, ReqPhases, asked, spent
<1>1. ASSUME NEW i \in RowIds, Age(i) PROVE TypeOK'
  <2>1. /\ [rows[i] EXCEPT !.slotReached = TRUE] \in RowType
        /\ \A a \in Ages : [rows[i] EXCEPT !.age = a] \in RowType
    BY DEF RowType
  <2> QED
    BY <1>1, <2>1 DEF Age, Ages
<1>2. ASSUME NEW i \in RowIds, DeleteRow(i) PROVE TypeOK'
  BY <1>2, RowRecords DEF DeleteRow
<1>3. ASSUME NEW n \in Names, Lapse(n) PROVE TypeOK'
  BY <1>3 DEF Lapse, Lapsed, Locks!Table, Locks!Row
<1>4. ASSUME NEW q \in Reqs, EvictRequest(q) PROVE TypeOK'
  BY <1>4 DEF EvictRequest
<1>5. ASSUME NEW s \in Scans, EvictScan(s) PROVE TypeOK'
  BY <1>5 DEF EvictScan
<1>6. ASSUME NEW r \in Runs, Fault(r) PROVE TypeOK'
  <2>1. AskedType'
    BY <1>6, ThrowType DEF Fault
  <2> QED
    BY <1>6, <2>1 DEF Fault, Throw, RunGoto, AskedType
<1> QED
  BY <1>1, <1>2, <1>3, <1>4, <1>5, <1>6 DEF Environment

(* Every step keeps the types.                                             *)
LEMMA TypeStep == TypeOK /\ [Next]_vars => TypeOK'
<1> SUFFICES ASSUME TypeOK, [Next]_vars PROVE TypeOK'
  OBVIOUS
<1>1. CASE UNCHANGED vars
  BY <1>1 DEF vars, asked, spent, TypeOK
<1> QED
  BY <1>1, RunTypeStep, ReqTypeStep, ScanTypeStep, EnvironmentTypeStep DEF Next

(* The tables a deployment starts from are well-typed.                     *)
LEMMA InitType == Init => TypeOK
<1> SUFFICES ASSUME Init PROVE TypeOK
  OBVIOUS
<1>1. rows \in [RowIds -> RowType]
  BY NamesAssumption, ConstantRecords, RowRecords DEF Init
<1>2. locks \in Locks!Table
  BY DEF Init, Locks!Table, Locks!Empty, Locks!Absent, Locks!Row
<1> QED
  BY <1>1, <1>2, ConstantRecords DEF Init, TypeOK, RunPhases, ReqPhases, Runs, MessageType, Message

(* Type correctness of the three tables and of every handler's locals.     *)
THEOREM TypeCorrect == Spec => []TypeOK
  BY InitType, TypeStep, PTL DEF Spec
-----------------------------------------------------------------------------
(***************************************************************************)
(* Where requests and runs stand.  A run of a request issues for the names *)
(* of the request, its terminal event is the last thing it appends, and a  *)
(* request looks at another run only when acquire refused its own.         *)
(***************************************************************************)
OwnJob == \A q \in Reqs : rpc[q] # "none" => job[q].domains = Domains[q]

EventsAreLast ==
  \A r \in Runs : events[r] # "none" => rpc[r] \in {"release", "ended", "broken", "killed"}

ElsewhereOnlyIfRefused ==
  \A q \in Reqs : qpc[q] = "owner" \/ via[q] # q => rpc[q] = "refused"

PlaceInv == TypeOK /\ OwnJob /\ EventsAreLast /\ ElsewhereOnlyIfRefused

(* A run never changes what it was asked to issue, and no other run's job. *)
LEMMA RunKeepsItsTask ==
  ASSUME TypeOK, NEW r \in Runs, RunStep(r) \/ Fault(r)
  PROVE  /\ \A x \in Runs : job'[x].domains = job[x].domains /\ job'[x].hash = job[x].hash
         /\ \A x \in Runs \ {r} : job'[x] = job[x] /\ rpc'[x] = rpc[x] /\ events'[x] = events[x]
<1> USE DEF TypeOK, RunGoto
<1>1. CASE UNCHANGED job
  BY <1>1 DEF RunStep, Fault, Throw, Purge, Refuse, PassCheck, InsertLock, Acquired, SelectRow,
     CreateRow, ReselectRow, AcmeIssues, AcmeFails, Store, Announce, Release
<1>2. CASE PassCheck(r)
  BY <1>2 DEF PassCheck, JobType
<1>3. CASE InsertLock(r)
  BY <1>3 DEF InsertLock, JobType
<1>4. CASE SelectRow(r)
  BY <1>4 DEF SelectRow, JobType
<1>5. CASE CreateRow(r)
  BY <1>5 DEF CreateRow, JobType
<1>6. CASE ReselectRow(r)
  BY <1>6 DEF ReselectRow, Throw, JobType
<1>7. CASE AcmeIssues(r)
  BY <1>7 DEF AcmeIssues, JobType
<1> QED
  BY <1>1, <1>2, <1>3, <1>4, <1>5, <1>6, <1>7 DEF RunStep, Fault, Purge, Refuse, Acquired,
     AcmeFails, Store, Announce, Release

(* A run leaves its request at its place, but for an exception.            *)
LEMMA RunPlaceStep ==
  ASSUME PlaceInv, NEW r \in Runs, RunStep(r) \/ Fault(r)
  PROVE  OwnJob' /\ EventsAreLast' /\ ElsewhereOnlyIfRefused'
<1> USE DEF PlaceInv, TypeOK, RunGoto
<1> Reqs \subseteq Runs
  BY DEF Runs
<1>1. OwnJob'
  <2>1. rpc[r] # "none"
    BY DEF RunStep, Fault, Throw, Purge, Refuse, PassCheck, InsertLock, Acquired, SelectRow,
       CreateRow, ReselectRow, AcmeIssues, AcmeFails, Store, Announce, Release
  <2> QED
    BY <2>1, RunKeepsItsTask DEF OwnJob
<1>2. EventsAreLast'
  <2>1. events'[r] # "none" => rpc'[r] \in {"release", "ended", "broken", "killed"}
    BY DEF RunStep, Fault, Throw, Purge, Refuse, PassCheck, InsertLock, Acquired, SelectRow,
       CreateRow, ReselectRow, AcmeIssues, AcmeFails, Store, Announce, Release, EventsAreLast
  <2> QED
    BY <2>1, RunKeepsItsTask DEF EventsAreLast
<1>3. ElsewhereOnlyIfRefused'
  <2>1. /\ rpc[r] # "refused"
        /\ via' = via
        /\ \A q \in Reqs : qpc'[q] = "owner" => qpc[q] = "owner"
    BY DEF RunStep, Fault, Throw, Purge, Refuse, PassCheck, InsertLock, Acquired, SelectRow,
       CreateRow, ReselectRow, AcmeIssues, AcmeFails, Store, Announce, Release, asked
  <2> QED
    BY <2>1, RunKeepsItsTask DEF ElsewhereOnlyIfRefused
<1> QED
  BY <1>1, <1>2, <1>3

(* A request starts one run for its own names and looks up the owner of a  *)
(* lock only after the refusal.                                            *)
LEMMA ReqPlaceStep ==
  ASSUME PlaceInv, NEW q \in Reqs, ReqStep(q)
  PROVE  OwnJob' /\ EventsAreLast' /\ ElsewhereOnlyIfRefused'
<1> USE DEF PlaceInv, TypeOK, RunGoto, ReqGoto
<1> q \in Runs /\ Reqs \subseteq Runs
  BY DEF Runs
<1>1. ASSUME NEW i, NEW csr,
             rpc[q] = "none", rpc' = [rpc EXCEPT ![q] = "purge"], UNCHANGED <<events, via>>,
             job' = [job EXCEPT ![q] = RunArgs(i, Domains[q], Domains[q], csr)],
             NEW to \in {"renewing", "issuing"}, qpc' = [qpc EXCEPT ![q] = to]
      PROVE  OwnJob' /\ EventsAreLast' /\ ElsewhereOnlyIfRefused'
  <2>1. RunArgs(i, Domains[q], Domains[q], csr).domains = Domains[q]
    BY DEF RunArgs, NoJob
  <2>2. OwnJob'
    BY <1>1, <2>1 DEF OwnJob
  <2>3. EventsAreLast' /\ ElsewhereOnlyIfRefused'
    BY <1>1 DEF EventsAreLast, ElsewhereOnlyIfRefused
  <2> QED
    BY <2>2, <2>3
<1>2. CASE MatchNone(q) \/ RenewInBackground(q) \/ IssueAgain(q)
  BY <1>1, <1>2 DEF MatchNone, RenewInBackground, IssueAgain
<1>3. CASE ~(MatchNone(q) \/ RenewInBackground(q) \/ IssueAgain(q))
  <2>1. UNCHANGED <<rpc, job, events>>
    BY <1>3 DEF ReqStep, ServeCached, AnswerRenewing, AwaitRun, TailOwn, GoLookup, LookupOwner,
       TailTerminal, PollFound, Deadline, FinalSelect, LastError
  <2>2. /\ \A x \in Reqs \ {q} : via'[x] = via[x] /\ qpc'[x] = qpc[x]
        /\ qpc'[q] = "owner" \/ via'[q] # via[q] => rpc[q] = "refused"
    BY <1>3 DEF ReqStep, ServeCached, AnswerRenewing, AwaitRun, TailOwn, GoLookup, LookupOwner,
       TailTerminal, PollFound, Deadline, FinalSelect, LastError, ElsewhereOnlyIfRefused
  <2> QED
    BY <2>1, <2>2 DEF OwnJob, EventsAreLast, ElsewhereOnlyIfRefused
<1> QED
  BY <1>2, <1>3

(* Scans, ageing, deletion and eviction move no request to another run.    *)
LEMMA OtherPlaceStep ==
  ASSUME PlaceInv, (\E s \in Scans : ScanStep(s)) \/ Environment \/ UNCHANGED vars
  PROVE  OwnJob' /\ EventsAreLast' /\ ElsewhereOnlyIfRefused'
<1> USE DEF PlaceInv, TypeOK, asked
<1> Reqs \subseteq Runs
  BY DEF Runs
<1>1. ASSUME NEW r \in Runs, Fault(r) PROVE OwnJob' /\ EventsAreLast' /\ ElsewhereOnlyIfRefused'
  BY <1>1, RunPlaceStep
<1>2. ASSUME NEW s \in Scans, ScanNext(s) PROVE OwnJob' /\ EventsAreLast' /\ ElsewhereOnlyIfRefused'
  <2> PICK j \in todo[s] : /\ rpc[<<s, j.row>>] = "none"
                           /\ rpc' = [rpc EXCEPT ![<<s, j.row>>] = "purge"]
                           /\ job' = [job EXCEPT ![<<s, j.row>>] = j]
    BY <1>2 DEF ScanNext, RunGoto
  <2>1. j.row \in 0..MaxRows
    BY DEF JobType
  <2>2. \A q \in Reqs : q # <<s, j.row>>
    BY <2>1, RunsAssumption
  <2>3. \A q \in Reqs : rpc'[q] = rpc[q] /\ job'[q] = job[q]
    BY <2>2
  <2> QED
    BY <1>2, <2>3 DEF ScanNext, OwnJob, EventsAreLast, ElsewhereOnlyIfRefused
<1>3. ASSUME NEW q \in Reqs, EvictRequest(q) PROVE OwnJob' /\ EventsAreLast' /\ ElsewhereOnlyIfRefused'
  BY <1>3 DEF EvictRequest, OwnJob, EventsAreLast, ElsewhereOnlyIfRefused
<1>4. ASSUME NEW s \in Scans, EvictScan(s) PROVE OwnJob' /\ EventsAreLast' /\ ElsewhereOnlyIfRefused'
  <2> PICK i \in RowIds : /\ rpc[<<s, i>>] \notin {"none", "refused", "ended", "broken", "killed"}
                          /\ rpc' = [rpc EXCEPT ![<<s, i>>] = "killed"]
    BY <1>4 DEF EvictScan
  <2>1. \A q \in Reqs : rpc'[q] = rpc[q]
    BY RunsAssumption, RowIdsAreNumbers
  <2> QED
    BY <1>4, <2>1 DEF EvictScan, OwnJob, EventsAreLast, ElsewhereOnlyIfRefused
<1>5. CASE UNCHANGED <<events, rpc, job, asked>>
  BY <1>5 DEF OwnJob, EventsAreLast, ElsewhereOnlyIfRefused
<1> QED
  BY <1>1, <1>2, <1>3, <1>4, <1>5
     DEF ScanStep, ScanSelect, Environment, Age, Lapse, DeleteRow, vars

(* Every step keeps requests and runs in their places.                     *)
LEMMA PlaceStep == PlaceInv /\ [Next]_vars => PlaceInv'
<1> SUFFICES ASSUME PlaceInv, [Next]_vars PROVE PlaceInv'
  OBVIOUS
<1>1. TypeOK'
  BY TypeStep DEF PlaceInv
<1> QED
  BY <1>1, RunPlaceStep, ReqPlaceStep, OtherPlaceStep DEF Next, PlaceInv

(* Requests and runs start in their places.                                *)
LEMMA InitPlace == Init => PlaceInv
  BY InitType DEF Init, PlaceInv, OwnJob, EventsAreLast, ElsewhereOnlyIfRefused, Runs
-----------------------------------------------------------------------------
(***************************************************************************)
(* Coverage.  The inductive invariant follows the names from the request   *)
(* to the client: a row's key names itself, a CSR taken from a row covers  *)
(* what it was reused for because PickBestCert chose a covering row, and   *)
(* the certificate stored is the one that CSR asked for.                   *)
(***************************************************************************)
RowCovers(row) ==
  /\ row.hash = row.sans
  /\ row.cert # {} => CoversAll(row.cert, row.sans)
  /\ row.csr # {} => CoversAll(row.csr, row.sans)

JobCovers(j) ==
  /\ j.hash = j.domains
  /\ j.csr # {} => CoversAll(j.csr, j.domains)

RowsCover    == \A i \in RowIds : RowCovers(rows[i])
JobsCover    == \A r \in Runs : JobCovers(job[r])
TodoCovers   == \A s \in Scans : \A j \in todo[s] : JobCovers(j)

StoresCover ==
  \A r \in Runs : rpc[r] \in {"store", "completed"} \/ events[r] = "completed" =>
    job[r].cert = job[r].csr /\ CoversAll(job[r].cert, job[r].domains)

AnswersCover ==
  \A q \in Reqs : answer[q].status = "ok" \/ qpc[q] = "renewing" =>
    CoversAll(answer[q].names, Domains[q])

StreamsCover ==
  \A q \in Reqs : stream[q].kind = "completed" /\ rpc[q] # "refused" =>
    CoversAll(stream[q].names, Domains[q])

CoverInv ==
  /\ PlaceInv
  /\ RowsCover /\ JobsCover /\ TodoCovers /\ StoresCover
  /\ AnswersCover /\ StreamsCover

(* Coverage of name sets inherits reflexivity and transitivity.            *)
LEMMA CoverageOrder ==
  /\ \A A \in SUBSET Names : CoversAll(A, A)
  /\ \A A, B, C \in SUBSET Names : CoversAll(A, B) /\ CoversAll(B, C) => CoversAll(A, C)
  BY CoverAssumption DEF CoversAll

(* The records that actions write say what they cover.                     *)
LEMMA CoveringRecords ==
  /\ RowCovers(NoRow) /\ RowCovers(GoneRow) /\ JobCovers(NoJob)
  /\ \A D \in SUBSET Names : RowCovers(NewRow(D, D))
  /\ \A D, K \in SUBSET Names, past \in BOOLEAN :
       (K # {} => CoversAll(K, D))
         => /\ RowCovers(IssuedRow(D, D, K, K, past))
            /\ \A a \in Ages : RowCovers([IssuedRow(D, D, K, K, past) EXCEPT !.age = a])
  /\ \A i \in 0..MaxRows, D, K \in SUBSET Names :
       (K # {} => CoversAll(K, D)) => JobCovers(RunArgs(i, D, D, K))
  BY DEF RowCovers, JobCovers, NoRow, NoJob, GoneRow, NewRow, IssuedRow, RunArgs

(* What a run writes back into its job.                                    *)
LEMMA JobUpdatesCover ==
  ASSUME NEW j \in JobType, JobCovers(j)
  PROVE  /\ \A p \in SUBSET Names : JobCovers([j EXCEPT !.pending = p])
         /\ \A i \in 0..MaxRows : JobCovers([j EXCEPT !.row = i])
         /\ JobCovers([j EXCEPT !.csr = CsrOf(j), !.cert = CsrOf(j)])
         /\ CoversAll(CsrOf(j), j.domains)
<1>1. CoversAll(CsrOf(j), j.domains)
  BY CoverageOrder DEF JobCovers, CsrOf, JobType
<1> QED
  BY <1>1 DEF JobCovers, JobType

(* A run keeps the coverage of the table and of the jobs: the row it       *)
(* stores is covered because the CSR it was given is.                      *)
LEMMA RunCoverStep ==
  ASSUME CoverInv, NEW r \in Runs, RunStep(r) \/ Fault(r)
  PROVE  RowsCover' /\ JobsCover' /\ StoresCover'
<1> DEFINE J == job[r]
<1> USE DEF RunGoto
<1>0. /\ rows \in [RowIds -> RowType] /\ job \in [Runs -> JobType] /\ rpc \in [Runs -> RunPhases]
      /\ events \in [Runs -> {"none", "completed", "failed"}]
      /\ J \in JobType /\ JobCovers(J) /\ J.domains \in SUBSET Names
      /\ J.hash = J.domains /\ J.csr \in SUBSET Names
      /\ rpc[r] \notin {"release", "ended", "broken", "killed"} => events[r] # "completed"
  BY DEF CoverInv, PlaceInv, TypeOK, EventsAreLast, JobsCover, JobType, JobCovers
<1>1. CASE UNCHANGED <<rows, job>> /\ rpc'[r] \notin {"store", "completed"}
  <2>1. events'[r] = "completed" => events[r] = "completed" \/ rpc[r] = "completed"
    BY <1>0, <1>1 DEF RunStep, Fault, Throw, Purge, Refuse, PassCheck, InsertLock, Acquired,
       SelectRow, CreateRow, ReselectRow, AcmeIssues, AcmeFails, Store, Announce, Release
  <2> QED
    BY <1>0, <1>1, <2>1, RunKeepsItsTask DEF CoverInv, PlaceInv, RowsCover, JobsCover, StoresCover
<1>2. CASE PassCheck(r) \/ InsertLock(r)
  <2>1. PICK p \in SUBSET Names : job' = [job EXCEPT ![r] = [J EXCEPT !.pending = p]]
    <3>1. CASE PassCheck(r)
      BY <1>0, <3>1 DEF PassCheck
    <3>2. CASE InsertLock(r)
      BY <1>0, <3>2 DEF InsertLock, JobType
    <3> QED
      BY <1>2, <3>1, <3>2
  <2>2. JobCovers([J EXCEPT !.pending = p])
    BY <1>0, JobUpdatesCover DEF JobType
  <2>3. JobsCover'
    BY <1>0, <2>1, <2>2 DEF CoverInv, JobsCover
  <2>4. RowsCover' /\ StoresCover'
    BY <1>0, <1>2, <2>1 DEF PassCheck, InsertLock, CoverInv, RowsCover, StoresCover
  <2> QED
    BY <2>3, <2>4
<1>3. CASE SelectRow(r) \/ CreateRow(r) \/ ReselectRow(r)
  <2>1. \A i \in RowIds : JobCovers([J EXCEPT !.row = i])
    BY <1>0, JobUpdatesCover, RowIdsAreNumbers
  <2>2. JobsCover'
    BY <1>0, <1>3, <2>1 DEF SelectRow, CreateRow, ReselectRow, ByHash, LiveRows, CoverInv, JobsCover
  <2>3. RowCovers(NewRow(J.hash, J.domains))
    BY <1>0, CoveringRecords
  <2>4. RowsCover'
    BY <1>0, <1>3, <2>3 DEF SelectRow, CreateRow, ReselectRow, CoverInv, RowsCover
  <2>5. events' = events /\ rpc[r] \notin {"release", "ended", "broken", "killed"}
        /\ rpc'[r] \notin {"store", "completed"}
    BY <1>0, <1>3 DEF SelectRow, CreateRow, ReselectRow, Throw
  <2>6. StoresCover'
    BY <1>0, <2>5, RunKeepsItsTask DEF CoverInv, PlaceInv, StoresCover
  <2> QED
    BY <2>2, <2>4, <2>6
<1>4. CASE AcmeIssues(r)
  <2>1. /\ JobCovers([J EXCEPT !.csr = CsrOf(J), !.cert = CsrOf(J)])
        /\ CoversAll(CsrOf(J), J.domains)
    BY <1>0, JobUpdatesCover
  <2>2. JobsCover' /\ RowsCover'
    BY <1>0, <1>4, <2>1 DEF AcmeIssues, CoverInv, JobsCover, RowsCover
  <2>3. StoresCover'
    BY <1>0, <1>4, <2>1 DEF AcmeIssues, CoverInv, StoresCover, JobType
  <2> QED
    BY <2>2, <2>3
<1>5. CASE Store(r)
  <2>1. J.cert = J.csr /\ CoversAll(J.cert, J.domains)
    BY <1>5 DEF Store, CoverInv, StoresCover
  <2>2. \A past \in BOOLEAN : RowCovers(IssuedRow(J.hash, J.domains, J.csr, J.cert, past))
    BY <1>0, <2>1, CoveringRecords DEF JobCovers
  <2>3. RowsCover'
    BY <1>0, <1>5, <2>2 DEF Store, CoverInv, RowsCover
  <2>4. StoresCover'
    BY <1>0, <1>5, <2>1 DEF Store, CoverInv, StoresCover
  <2> QED
    BY <1>0, <1>5, <2>3, <2>4 DEF Store, CoverInv, JobsCover
<1>6. CASE Purge(r) \/ Refuse(r) \/ Acquired(r) \/ AcmeFails(r) \/ Release(r)
           \/ Announce(r, "completed") \/ Announce(r, "failed") \/ Fault(r)
  BY <1>0, <1>1, <1>6 DEF Purge, Refuse, Acquired, AcmeFails, Release, Announce, Fault, Throw
<1> QED
  BY <1>2, <1>3, <1>4, <1>5, <1>6 DEF RunStep

(* What a run tells a client, it tells about the client's own names.       *)
LEMMA RunTellsCover ==
  ASSUME CoverInv, NEW r \in Runs, RunStep(r) \/ Fault(r)
  PROVE  AnswersCover' /\ StreamsCover' /\ TodoCovers'
<1> USE DEF CoverInv, PlaceInv, TypeOK, RunGoto
<1> Reqs \subseteq Runs
  BY DEF Runs
<1>0. /\ Failure("crash").status # "ok" /\ Message("failed", {}).kind # "completed"
      /\ Message("completed", job[r].cert).names = job[r].cert
  BY DEF Failure, NoAnswer, Message
<1>1. \A q \in Reqs : rpc'[q] # "refused" => rpc[q] # "refused"
  BY RunKeepsItsTask DEF RunStep, Fault, Throw, Purge, Refuse, PassCheck, InsertLock, Acquired,
     SelectRow, CreateRow, ReselectRow, AcmeIssues, AcmeFails, Store, Announce, Release
<1>2. CASE \E from : Throw(r, from)
  <2>1. AnswersCover'
    BY <1>0, <1>2 DEF Throw, AnswersCover, asked
  <2>2. StreamsCover'
    BY <1>0, <1>1, <1>2 DEF Throw, StreamsCover, asked, Send
  <2> QED
    BY <2>1, <2>2 DEF RunStep, Fault, Purge, Refuse, PassCheck, InsertLock, Acquired,
       SelectRow, CreateRow, ReselectRow, AcmeIssues, AcmeFails, Store, Announce, Release, TodoCovers
<1>3. CASE Announce(r, "completed")
  <2>1. CoversAll(job[r].cert, job[r].domains) /\ (r \in Reqs => job[r].domains = Domains[r])
    BY <1>3 DEF Announce, StoresCover, OwnJob
  <2>2. StreamsCover'
    BY <1>0, <1>1, <1>3, <2>1 DEF Announce, Send, StreamsCover
  <2> QED
    BY <1>3, <2>2 DEF Announce, AnswersCover, TodoCovers
<1>4. CASE UNCHANGED asked
  BY <1>1, <1>4 DEF asked, RunStep, Fault, Purge, Refuse, PassCheck, InsertLock, Acquired,
     SelectRow, CreateRow, ReselectRow, AcmeIssues, AcmeFails, Store, Announce, Release,
     AnswersCover, StreamsCover, TodoCovers
<1>5. CASE Announce(r, "failed")
  BY <1>1, <1>5 DEF Announce, AnswersCover, StreamsCover, TodoCovers
<1> QED
  BY <1>2, <1>3, <1>4, <1>5 DEF RunStep, Fault, Purge, Refuse, PassCheck, InsertLock, Acquired,
     SelectRow, CreateRow, ReselectRow, AcmeIssues, AcmeFails, Store, Release

(* A request leaves the table alone; what it takes from a row covers what  *)
(* it asked for.                                                           *)
LEMMA TakenFromARow ==
  ASSUME CoverInv, NEW q \in Reqs, NEW i \in PickBestCert(Domains[q])
  PROVE  /\ i \in RowIds
         /\ rows[i].cert # {} => CoversAll(rows[i].cert, Domains[q])
         /\ \A k \in 0..MaxRows : JobCovers(RunArgs(k, Domains[q], Domains[q], rows[i].csr))
<1>1. /\ i \in RowIds /\ RowCovers(rows[i]) /\ CoversAll(rows[i].sans, Domains[q])
      /\ Domains[q] \in SUBSET Names /\ rows[i].sans \in SUBSET Names
      /\ rows[i].cert \in SUBSET Names /\ rows[i].csr \in SUBSET Names
  BY BestIsLive, NamesAssumption DEF LiveRows, CoverInv, PlaceInv, RowsCover, TypeOK, RowType
<1>2. /\ rows[i].cert # {} => CoversAll(rows[i].cert, Domains[q])
      /\ rows[i].csr # {} => CoversAll(rows[i].csr, Domains[q])
  BY <1>1, CoverageOrder DEF RowCovers
<1> QED
  BY <1>1, <1>2, CoveringRecords

(* A request keeps the coverage of rows, jobs and answers: what it hands   *)
(* to its run or to its client comes from a covering row.                  *)
LEMMA ReqCoverStep ==
  ASSUME CoverInv, NEW q \in Reqs, ReqStep(q)
  PROVE  RowsCover' /\ JobsCover' /\ StoresCover' /\ AnswersCover' /\ StreamsCover'
<1>0. /\ job \in [Runs -> JobType] /\ answer \in [Reqs -> AnswerType]
      /\ stream \in [Reqs -> MessageType] /\ qpc \in [Reqs -> ReqPhases]
      /\ rpc \in [Runs -> RunPhases] /\ q \in Runs /\ Reqs \subseteq Runs
      /\ Domains[q] \in SUBSET Names /\ {} \in SUBSET Names
  BY NamesAssumption DEF CoverInv, PlaceInv, TypeOK, Runs
<1>1. RowsCover' /\ UNCHANGED events
  BY <1>0 DEF ReqStep, MatchNone, ServeCached, RenewInBackground, IssueAgain, AnswerRenewing,
     AwaitRun, TailOwn, GoLookup, LookupOwner, TailTerminal, PollFound, Deadline, FinalSelect,
     LastError, CoverInv, RowsCover
<1>2. ASSUME NEW i, NEW csr, JobCovers(RunArgs(i, Domains[q], Domains[q], csr)),
             rpc[q] = "none", rpc' = [rpc EXCEPT ![q] = "purge"],
             job' = [job EXCEPT ![q] = RunArgs(i, Domains[q], Domains[q], csr)]
      PROVE  JobsCover' /\ StoresCover'
  <2>1. events[q] = "none"
    BY <1>0, <1>2 DEF CoverInv, PlaceInv, EventsAreLast
  <2>2. JobsCover'
    BY <1>0, <1>2 DEF CoverInv, JobsCover
  <2>3. StoresCover'
    BY <1>0, <1>1, <1>2, <2>1 DEF CoverInv, StoresCover
  <2> QED
    BY <2>2, <2>3
<1>3. ASSUME UNCHANGED <<rpc, job>> PROVE JobsCover' /\ StoresCover'
  BY <1>1, <1>3 DEF CoverInv, JobsCover, StoresCover
<1>4. ASSUME NEW m \in MessageType, Send(q, m), \A x \in Reqs : rpc'[x] = rpc[x],
             m.kind = "completed" /\ rpc[q] # "refused" => CoversAll(m.names, Domains[q])
      PROVE  StreamsCover'
  BY <1>0, <1>4 DEF Send, CoverInv, StreamsCover
<1>5. ASSUME UNCHANGED stream, \A x \in Reqs : rpc[x] = "refused" => rpc'[x] = "refused"
      PROVE  StreamsCover'
  BY <1>5 DEF CoverInv, StreamsCover
<1>6. Message("failed", {}) \in MessageType /\ Message("failed", {}).kind # "completed"
  BY DEF Message, MessageType
<1>7. CASE MatchNone(q)
  <2>1. JobCovers(RunArgs(0, Domains[q], Domains[q], {}))
    BY <1>0, CoveringRecords, RowIdsAreNumbers
  <2>2. JobsCover' /\ StoresCover'
    BY <1>2, <1>7, <2>1 DEF MatchNone, RunGoto
  <2>3. StreamsCover'
    BY <1>0, <1>5, <1>7 DEF MatchNone, RunGoto
  <2>4. AnswersCover'
    BY <1>0, <1>7 DEF MatchNone, ReqGoto, CoverInv, AnswersCover
  <2> QED
    BY <1>1, <2>2, <2>3, <2>4
<1>8. CASE RenewInBackground(q)
  <2> PICK i \in PickBestCert(Domains[q]) :
        /\ Decide(rows[i]) = "renew"
        /\ answer' = [answer EXCEPT ![q] = Answer("ok", i)]
        /\ job' = [job EXCEPT ![q] = RunArgs(i, Domains[q], Domains[q], rows[i].csr)]
    BY <1>8 DEF RenewInBackground
  <2>1. JobCovers(RunArgs(i, Domains[q], Domains[q], rows[i].csr))
    BY TakenFromARow, RowIdsAreNumbers
  <2>2. CoversAll(Answer("ok", i).names, Domains[q])
    BY TakenFromARow DEF Decide, Answer
  <2>3. AnswersCover'
    BY <1>0, <1>8, <2>2 DEF RenewInBackground, ReqGoto, CoverInv, AnswersCover
  <2>4. JobsCover' /\ StoresCover'
    BY <1>2, <1>8, <2>1 DEF RenewInBackground, RunGoto
  <2>5. StreamsCover'
    BY <1>0, <1>5, <1>8 DEF RenewInBackground, RunGoto
  <2> QED
    BY <1>1, <2>3, <2>4, <2>5
<1>9. CASE IssueAgain(q)
  <2> PICK i \in PickBestCert(Domains[q]) :
        job' = [job EXCEPT ![q] = RunArgs(0, Domains[q], Domains[q], rows[i].csr)]
    BY <1>9 DEF IssueAgain
  <2>1. JobCovers(RunArgs(0, Domains[q], Domains[q], rows[i].csr))
    BY TakenFromARow, RowIdsAreNumbers
  <2>2. JobsCover' /\ StoresCover'
    BY <1>2, <1>9, <2>1 DEF IssueAgain, RunGoto
  <2>3. StreamsCover'
    BY <1>0, <1>5, <1>9 DEF IssueAgain, RunGoto
  <2>4. AnswersCover'
    BY <1>0, <1>9 DEF IssueAgain, ReqGoto, CoverInv, AnswersCover
  <2> QED
    BY <1>1, <2>2, <2>3, <2>4
<1>10. CASE ServeCached(q)
  <2> PICK i \in PickBestCert(Domains[q]) :
        /\ Decide(rows[i]) = "cache"
        /\ answer' = [answer EXCEPT ![q] = Answer("ok", i)]
        /\ Send(q, Message("completed", rows[i].cert))
    BY <1>10 DEF ServeCached
  <2>1. CoversAll(rows[i].cert, Domains[q]) /\ rows[i].cert \in SUBSET Names
    BY TakenFromARow DEF Decide, CoverInv, PlaceInv, TypeOK, RowType
  <2>2. AnswersCover'
    BY <1>0, <1>10, <2>1 DEF ServeCached, ReqGoto, Answer, CoverInv, AnswersCover
  <2>3. /\ Message("completed", rows[i].cert) \in MessageType
        /\ Message("completed", rows[i].cert).names = rows[i].cert
    BY <2>1 DEF Message, MessageType
  <2>4. StreamsCover'
    BY <1>4, <1>10, <2>1, <2>3 DEF ServeCached
  <2> QED
    BY <1>1, <1>3, <1>10, <2>2, <2>4 DEF ServeCached
<1>11. CASE AnswerRenewing(q)
  <2>1. CoversAll(answer[q].names, Domains[q]) /\ answer[q].names \in SUBSET Names
    BY <1>0, <1>11 DEF AnswerRenewing, ReqGoto, CoverInv, AnswersCover, AnswerType
  <2>2. /\ Message("completed", answer[q].names) \in MessageType
        /\ Message("completed", answer[q].names).names = answer[q].names
    BY <2>1 DEF Message, MessageType
  <2>3. StreamsCover'
    BY <1>4, <1>11, <2>1, <2>2 DEF AnswerRenewing
  <2>4. AnswersCover'
    BY <1>0, <1>11 DEF AnswerRenewing, ReqGoto, CoverInv, AnswersCover
  <2> QED
    BY <1>1, <1>3, <1>11, <2>3, <2>4 DEF AnswerRenewing
<1>12. CASE FinalSelect(q)
  <2>1. \A i \in ByHash(Domains[q]) : rows[i].cert # {} =>
          CoversAll(Answer("ok", i).names, Domains[q])
    BY DEF ByHash, LiveRows, CoverInv, RowsCover, RowCovers, Answer
  <2>2. AnswersCover'
    BY <1>0, <1>12, <2>1 DEF FinalSelect, ReqGoto, CoverInv, AnswersCover
  <2> QED
    BY <1>1, <1>3, <1>5, <1>12, <2>2 DEF FinalSelect
<1>13. CASE AwaitRun(q) \/ LastError(q)
  <2>1. \A st \in {"issueFailed", "retry", "crash"} : Failure(st).status # "ok"
    BY DEF Failure, NoAnswer
  <2>2. AnswersCover'
    BY <1>0, <1>13, <2>1 DEF AwaitRun, LastError, ReqGoto, CoverInv, AnswersCover
  <2>3. StreamsCover'
    BY <1>4, <1>5, <1>6, <1>13 DEF AwaitRun, LastError
  <2> QED
    BY <1>1, <1>3, <1>13, <2>2, <2>3 DEF AwaitRun, LastError
<1>14. CASE TailTerminal(q)
  <2> DEFINE V == via[q]
  <2>1. V \in Runs /\ job[V].cert \in SUBSET Names
    BY <1>0 DEF CoverInv, PlaceInv, TypeOK, JobType
  <2>2. events[V] = "completed" /\ rpc[q] # "refused" => CoversAll(job[V].cert, Domains[q])
    <3> SUFFICES ASSUME events[V] = "completed", rpc[q] # "refused"
                 PROVE  CoversAll(job[V].cert, Domains[q])
      OBVIOUS
    <3>1. V = q
      BY DEF CoverInv, PlaceInv, ElsewhereOnlyIfRefused
    <3>2. rpc[q] # "none"
      BY <1>0, <3>1 DEF CoverInv, PlaceInv, EventsAreLast
    <3> QED
      BY <1>0, <3>1, <3>2 DEF CoverInv, PlaceInv, OwnJob, StoresCover
  <2>3. /\ Message("completed", job[V].cert) \in MessageType
        /\ Message("completed", job[V].cert).names = job[V].cert
    BY <2>1 DEF Message, MessageType
  <2>4. StreamsCover'
    BY <1>4, <1>6, <1>14, <2>2, <2>3 DEF TailTerminal
  <2> QED
    BY <1>0, <1>1, <1>3, <1>14, <2>4 DEF TailTerminal, ReqGoto, CoverInv, AnswersCover
<1>15. CASE TailOwn(q) \/ GoLookup(q) \/ LookupOwner(q) \/ PollFound(q) \/ Deadline(q)
  <2>1. StreamsCover'
    BY <1>4, <1>5, <1>6, <1>15 DEF TailOwn, GoLookup, LookupOwner, PollFound, Deadline
  <2>2. AnswersCover'
    BY <1>0, <1>15 DEF TailOwn, GoLookup, LookupOwner, PollFound, Deadline, ReqGoto,
       CoverInv, AnswersCover
  <2> QED
    BY <1>1, <1>3, <1>15, <2>1, <2>2 DEF TailOwn, GoLookup, LookupOwner, PollFound, Deadline
<1> QED
  BY <1>7, <1>8, <1>9, <1>10, <1>11, <1>12, <1>13, <1>14, <1>15 DEF ReqStep

(* A scan hands its runs the SAN set and the CSR of one and the same row,  *)
(* as they were when it selected them.                                     *)
LEMMA ScanCoverStep ==
  ASSUME CoverInv, NEW s \in Scans, ScanStep(s)
  PROVE  /\ RowsCover' /\ JobsCover' /\ StoresCover' /\ TodoCovers'
         /\ AnswersCover' /\ StreamsCover'
<1> USE DEF CoverInv, PlaceInv, TypeOK, asked
<1>1. CASE ScanSelect(s)
  <2>1. \A i \in LiveRows : JobCovers(ScanJob(i))
    <3> TAKE i \in LiveRows
    <3>1. /\ RowCovers(rows[i]) /\ rows[i].sans \in SUBSET Names /\ rows[i].csr \in SUBSET Names
          /\ i \in 0..MaxRows
      BY RowIdsAreNumbers DEF LiveRows, RowsCover, RowType
    <3> QED
      BY <3>1, CoveringRecords DEF ScanJob, RowCovers
  <2>2. TodoCovers'
    BY <1>1, <2>1 DEF ScanSelect, TodoCovers
  <2> QED
    BY <1>1, <2>2 DEF ScanSelect, RowsCover, JobsCover, StoresCover, AnswersCover, StreamsCover
<1>2. CASE ScanNext(s)
  <2> PICK j \in todo[s] : /\ rpc[<<s, j.row>>] = "none"
                           /\ rpc' = [rpc EXCEPT ![<<s, j.row>>] = "purge"]
                           /\ job' = [job EXCEPT ![<<s, j.row>>] = j]
                           /\ todo' = [todo EXCEPT ![s] = @ \ {j}]
    BY <1>2 DEF ScanNext, RunGoto
  <2>1. JobCovers(j)
    BY DEF TodoCovers
  <2>2. <<s, j.row>> \in Runs => events[<<s, j.row>>] = "none"
    BY DEF EventsAreLast
  <2>3. JobsCover'
    BY <2>1 DEF JobsCover
  <2>4. StoresCover'
    BY <1>2, <2>2 DEF ScanNext, StoresCover
  <2>5. TodoCovers'
    BY DEF TodoCovers
  <2>6. StreamsCover'
    BY <1>2 DEF ScanNext, StreamsCover, Runs
  <2> QED
    BY <1>2, <2>3, <2>4, <2>5, <2>6 DEF ScanNext, RowsCover, AnswersCover
<1> QED
  BY <1>1, <1>2 DEF ScanStep

(* Ageing and deletion leave no row uncovered, eviction stops runs.        *)
LEMMA EnvironmentCoverStep ==
  ASSUME CoverInv, Environment, \A r \in Runs : ~Fault(r)
  PROVE  /\ RowsCover' /\ JobsCover' /\ StoresCover' /\ TodoCovers'
         /\ AnswersCover' /\ StreamsCover'
<1> USE DEF CoverInv, PlaceInv, TypeOK, asked
<1>1. ASSUME NEW i \in RowIds, Age(i) PROVE RowsCover'
  <2>1. /\ RowCovers([rows[i] EXCEPT !.slotReached = TRUE])
        /\ \A a \in Ages : RowCovers([rows[i] EXCEPT !.age = a])
    BY DEF RowsCover, RowCovers, RowType
  <2> QED
    BY <1>1, <2>1 DEF Age, Ages, RowsCover
<1>2. ASSUME NEW i \in RowIds, DeleteRow(i) PROVE RowsCover'
  BY <1>2, CoveringRecords DEF DeleteRow, RowsCover
<1>3. ASSUME UNCHANGED rows PROVE RowsCover'
  BY <1>3 DEF RowsCover
<1>4. RowsCover'
  BY <1>1, <1>2, <1>3 DEF Environment, Lapse, EvictRequest, EvictScan
<1>5. UNCHANGED <<job, events, answer, stream>>
  BY DEF Environment, Age, DeleteRow, Lapse, EvictRequest, EvictScan
<1> DEFINE RunsStop == \A x \in Runs :
             rpc'[x] = rpc[x] \/ (rpc'[x] = "killed" /\ rpc[x] # "refused")
           RequestsStop == \A q \in Reqs : qpc'[q] = qpc[q] \/ qpc'[q] = "evicted"
<1>6. RunsStop /\ RequestsStop
  <2>1. ASSUME NEW q \in Reqs, EvictRequest(q) PROVE RunsStop /\ RequestsStop
    BY <2>1 DEF EvictRequest
  <2>2. ASSUME NEW s \in Scans, EvictScan(s) PROVE RunsStop /\ RequestsStop
    BY <2>2 DEF EvictScan
  <2>3. CASE UNCHANGED <<rpc, qpc>>
    BY <2>3
  <2> QED
    BY <2>1, <2>2, <2>3 DEF Environment, Age, DeleteRow, Lapse
<1>7. \A s \in Scans : todo'[s] \subseteq todo[s]
  BY DEF Environment, Age, DeleteRow, Lapse, EvictRequest, EvictScan
<1>8. JobsCover' /\ StoresCover'
  <2>1. JobsCover'
    BY <1>5 DEF JobsCover
  <2>2. StoresCover'
    BY <1>5, <1>6 DEF StoresCover
  <2> QED
    BY <2>1, <2>2
<1>9. TodoCovers'
  BY <1>7 DEF TodoCovers
<1>10. AnswersCover' /\ StreamsCover'
  BY <1>5, <1>6 DEF AnswersCover, StreamsCover, Runs
<1> QED
  BY <1>4, <1>8, <1>9, <1>10

(* Every step keeps the coverage invariant.                                *)
LEMMA CoverInvStep == CoverInv /\ [Next]_vars => CoverInv'
<1> SUFFICES ASSUME CoverInv, [Next]_vars PROVE CoverInv'
  OBVIOUS
<1>0. PlaceInv'
  BY PlaceStep DEF CoverInv
<1>1. ASSUME NEW r \in Runs, RunStep(r) \/ Fault(r) PROVE CoverInv'
  BY <1>0, <1>1, RunCoverStep, RunTellsCover DEF CoverInv
<1>2. ASSUME NEW q \in Reqs, ReqStep(q) PROVE CoverInv'
  <2>1. TodoCovers'
    BY <1>2 DEF ReqStep, MatchNone, ServeCached, RenewInBackground, IssueAgain, AnswerRenewing,
       AwaitRun, TailOwn, GoLookup, LookupOwner, TailTerminal, PollFound, Deadline, FinalSelect,
       LastError, CoverInv, TodoCovers
  <2> QED
    BY <1>0, <1>2, <2>1, ReqCoverStep DEF CoverInv
<1>3. ASSUME NEW s \in Scans, ScanStep(s) PROVE CoverInv'
  BY <1>0, <1>3, ScanCoverStep DEF CoverInv
<1>4. CASE Environment
  BY <1>0, <1>1, <1>4, EnvironmentCoverStep DEF CoverInv
<1>5. CASE UNCHANGED vars
  BY <1>0, <1>5 DEF vars, asked, CoverInv, RowsCover, JobsCover, StoresCover, TodoCovers,
     AnswersCover, StreamsCover
<1> QED
  BY <1>1, <1>2, <1>3, <1>4, <1>5 DEF Next

(* Coverage holds along the whole way from the table to the client.        *)
LEMMA CoverInvariant == Spec => []CoverInv
<1>1. Init => CoverInv
  <2> SUFFICES ASSUME Init PROVE CoverInv
    OBVIOUS
  <2>1. \A S \in PastSans : S \in SUBSET Names /\ CoversAll(S, S)
    BY NamesAssumption, CoverageOrder
  <2>2. RowsCover
    BY <2>1, CoveringRecords DEF Init, RowsCover
  <2>3. JobsCover /\ StoresCover /\ TodoCovers
    BY CoveringRecords DEF Init, JobsCover, StoresCover, TodoCovers
  <2>4. AnswersCover /\ StreamsCover
    BY DEF Init, AnswersCover, StreamsCover, NoAnswer, Message
  <2> QED
    BY <2>2, <2>3, <2>4, InitPlace DEF CoverInv
<1> QED
  BY <1>1, CoverInvStep, PTL DEF Spec

(* A stored certificate serves every name its row claims, through every    *)
(* mixture of background renewals under another name set and cron runs.    *)
THEOREM StoredCoverage == Spec => []StoredCertCoversSans
<1>1. CoverInv => StoredCertCoversSans
  BY DEF CoverInv, RowsCover, RowCovers, StoredCertCoversSans, LiveRows
<1> QED
  BY <1>1, CoverInvariant, PTL

(* A client that is given a certificate is given one for all the names it  *)
(* asked for, whichever run produced it.                                   *)
THEOREM AnswerCoverage == Spec => []AnswersCoverTheRequest
<1>1. CoverInv => AnswersCoverTheRequest
  BY NamesAssumption DEF CoverInv, AnswersCover, StreamsCover, AnswersCoverTheRequest
<1> QED
  BY <1>1, CoverInvariant, PTL

-----------------------------------------------------------------------------
(***************************************************************************)
(* The promise of CertificateHub.  Besides coverage it takes two things: a *)
(* request cannot be told of an exception in its run once it was answered  *)
(* (RunsAreAwaited), and no certificate is for no names (NothingNameless), *)
(* for such a one would look like none.                                    *)
(***************************************************************************)
Acquiring == {"purge", "check", "insert", "select", "create", "reselect"}

RunsAreAwaited ==
  \A q \in Reqs :
    /\ rpc[q] \in Acquiring => qpc[q] \in {"renewing", "issuing"}
    /\ qpc[q] = "renewing" =>
         answer[q].status = "ok" /\ job[q].row # 0 /\ rpc[q] \notin {"select", "create", "reselect"}
    /\ qpc[q] \notin {"renewing", "answered", "evicted"} => answer[q].status = "none"
    /\ qpc[q] = "answered" => answer[q].status # "none"

NothingNameless ==
  /\ \A i \in RowIds : IF rows[i].state = "live" THEN rows[i].sans # {} ELSE rows[i].cert = {}
  /\ \A r \in Runs : rpc[r] # "none" => job[r].domains # {}
  /\ \A s \in Scans : \A j \in todo[s] : j.domains # {}

PromiseInv == CoverInv /\ RunsAreAwaited /\ NothingNameless

(* A row is only written for the names of a job, which has some.           *)
LEMMA RunKeepsNames ==
  ASSUME PromiseInv, NEW r \in Runs, RunStep(r) \/ Fault(r)
  PROVE  NothingNameless'
<1> USE DEF RunGoto
<1>0. /\ rows \in [RowIds -> RowType] /\ job \in [Runs -> JobType] /\ TypeOK
      /\ rpc \in [Runs -> RunPhases]
  BY DEF PromiseInv, CoverInv, PlaceInv, TypeOK
<1>1. rpc[r] # "none" /\ todo' = todo
  BY DEF RunStep, Fault, Throw, Purge, Refuse, PassCheck, InsertLock, Acquired, SelectRow,
     CreateRow, ReselectRow, AcmeIssues, AcmeFails, Store, Announce, Release
<1>2. \A x \in Runs : rpc'[x] # "none" => job'[x].domains # {}
  BY <1>0, <1>1, RunKeepsItsTask DEF PromiseInv, NothingNameless
<1>3. job[r].domains # {}
  BY <1>1 DEF PromiseInv, NothingNameless
<1>4. \A i \in RowIds : IF rows'[i].state = "live" THEN rows'[i].sans # {} ELSE rows'[i].cert = {}
  <2>1. CASE UNCHANGED rows
    BY <2>1 DEF PromiseInv, NothingNameless
  <2>2. ASSUME NEW i \in RowIds, rows' = [rows EXCEPT ![i] = NewRow(job[r].hash, job[r].domains)]
        PROVE  \A k \in RowIds : IF rows'[k].state = "live" THEN rows'[k].sans # {} ELSE rows'[k].cert = {}
    BY <1>0, <1>3, <2>2 DEF NewRow, NoRow, PromiseInv, NothingNameless
  <2>3. ASSUME NEW i, NEW past,
               rows' = [rows EXCEPT ![i] = IssuedRow(job[r].hash, job[r].domains, job[r].csr, job[r].cert, past)]
        PROVE  \A k \in RowIds : IF rows'[k].state = "live" THEN rows'[k].sans # {} ELSE rows'[k].cert = {}
    BY <1>0, <1>3, <2>3 DEF IssuedRow, PromiseInv, NothingNameless
  <2> QED
    BY <2>1, <2>2, <2>3 DEF RunStep, Fault, Throw, Purge, Refuse, PassCheck, InsertLock, Acquired,
       SelectRow, CreateRow, ReselectRow, AcmeIssues, AcmeFails, Store, Announce, Release
<1> QED
  BY <1>1, <1>2, <1>4 DEF PromiseInv, NothingNameless

(* What a request asks for is not empty, and a scan takes its names from a *)
(* row.                                                                    *)
LEMMA OthersKeepNames ==
  ASSUME PromiseInv,
         (\E q \in Reqs : ReqStep(q)) \/ (\E s \in Scans : ScanStep(s))
           \/ Environment \/ UNCHANGED vars
  PROVE  NothingNameless'
<1> USE DEF RunGoto
<1>0. /\ rows \in [RowIds -> RowType] /\ job \in [Runs -> JobType]
      /\ rpc \in [Runs -> RunPhases] /\ todo \in [Scans -> SUBSET JobType]
      /\ Reqs \subseteq Runs
  BY DEF PromiseInv, CoverInv, PlaceInv, TypeOK, Runs
<1>1. ASSUME NEW q \in Reqs, ReqStep(q) PROVE NothingNameless'
  <2>1. UNCHANGED <<rows, todo>>
    BY <1>1 DEF ReqStep, MatchNone, ServeCached, RenewInBackground, IssueAgain, AnswerRenewing,
       AwaitRun, TailOwn, GoLookup, LookupOwner, TailTerminal, PollFound, Deadline, FinalSelect, LastError
  <2>2. ASSUME NEW i, NEW csr, rpc' = [rpc EXCEPT ![q] = "purge"],
               job' = [job EXCEPT ![q] = RunArgs(i, Domains[q], Domains[q], csr)]
        PROVE  \A r \in Runs : rpc'[r] # "none" => job'[r].domains # {}
    <3>1. RunArgs(i, Domains[q], Domains[q], csr).domains # {}
      BY NamesAssumption DEF RunArgs, NoJob
    <3> QED
      BY <1>0, <2>2, <3>1 DEF PromiseInv, NothingNameless
  <2>3. CASE UNCHANGED <<rpc, job>>
    BY <2>1, <2>3 DEF PromiseInv, NothingNameless
  <2>4. \A r \in Runs : rpc'[r] # "none" => job'[r].domains # {}
    BY <1>1, <2>2, <2>3 DEF ReqStep, MatchNone, ServeCached, RenewInBackground, IssueAgain,
       AnswerRenewing, AwaitRun, TailOwn, GoLookup, LookupOwner, TailTerminal, PollFound, Deadline,
       FinalSelect, LastError, PromiseInv, NothingNameless
  <2> QED
    BY <2>1, <2>4 DEF PromiseInv, NothingNameless
<1>2. ASSUME NEW s \in Scans, ScanSelect(s) PROVE NothingNameless'
  <2>1. \A i \in LiveRows : ScanJob(i).domains # {}
    BY DEF ScanJob, RunArgs, NoJob, LiveRows, PromiseInv, NothingNameless
  <2> QED
    BY <1>0, <1>2, <2>1 DEF ScanSelect, PromiseInv, NothingNameless
<1>3. ASSUME NEW s \in Scans, ScanNext(s) PROVE NothingNameless'
  <2> PICK j \in todo[s] : /\ rpc' = [rpc EXCEPT ![<<s, j.row>>] = "purge"]
                           /\ job' = [job EXCEPT ![<<s, j.row>>] = j]
                           /\ todo' = [todo EXCEPT ![s] = @ \ {j}]
    BY <1>3 DEF ScanNext
  <2>1. j.domains # {}
    BY DEF PromiseInv, NothingNameless
  <2> QED
    BY <1>0, <1>3, <2>1 DEF ScanNext, PromiseInv, NothingNameless
<1>4. ASSUME NEW i \in RowIds, Age(i) PROVE NothingNameless'
  BY <1>0, <1>4 DEF Age, RowType, PromiseInv, NothingNameless
<1>5. ASSUME NEW i \in RowIds, DeleteRow(i) PROVE NothingNameless'
  BY <1>0, <1>5 DEF DeleteRow, GoneRow, NoRow, PromiseInv, NothingNameless
<1>6. ASSUME NEW r \in Runs, Fault(r) PROVE NothingNameless'
  BY <1>6, RunKeepsNames
<1>7. ASSUME NEW q \in Reqs, EvictRequest(q) PROVE NothingNameless'
  BY <1>0, <1>7 DEF EvictRequest, PromiseInv, NothingNameless
<1>8. ASSUME NEW s \in Scans, EvictScan(s) PROVE NothingNameless'
  BY <1>0, <1>8 DEF EvictScan, PromiseInv, NothingNameless
<1>9. CASE UNCHANGED <<rows, rpc, job, todo>>
  BY <1>9 DEF PromiseInv, NothingNameless
<1> QED
  BY <1>1, <1>2, <1>3, <1>4, <1>5, <1>6, <1>7, <1>8, <1>9
     DEF ScanStep, Environment, Lapse, vars

(* The run of a request meets an exception only while the request waits.   *)
LEMMA RunKeepsAwaited ==
  ASSUME PromiseInv, NEW r \in Runs, RunStep(r) \/ Fault(r)
  PROVE  RunsAreAwaited'
<1> USE DEF RunGoto
<1>0. /\ job \in [Runs -> JobType] /\ TypeOK /\ rpc \in [Runs -> RunPhases] /\ Reqs \subseteq Runs
      /\ qpc \in [Reqs -> ReqPhases] /\ answer \in [Reqs -> AnswerType]
  BY DEF PromiseInv, CoverInv, PlaceInv, TypeOK, Runs
<1>1. ASSUME UNCHANGED <<qpc, answer>>, rpc'[r] \in Acquiring => rpc[r] \in Acquiring,
             job[r].row # 0 /\ rpc[r] \notin {"select", "create", "reselect"}
               => job'[r].row # 0 /\ rpc'[r] \notin {"select", "create", "reselect"}
      PROVE  RunsAreAwaited'
  BY <1>0, <1>1, RunKeepsItsTask DEF PromiseInv, RunsAreAwaited
<1>2. ASSUME NEW from \in SUBSET Acquiring, Throw(r, from), UNCHANGED job PROVE RunsAreAwaited'
  <2>1. CASE r \in Reqs
    <3>1. Failure("crash").status = "crash"
      BY DEF Failure, NoAnswer
    <3> QED
      BY <1>0, <1>2, <2>1, <3>1 DEF Throw, PromiseInv, RunsAreAwaited, Acquiring
  <2>2. CASE r \notin Reqs
    BY <1>0, <1>2, <2>2 DEF Throw, asked, PromiseInv, RunsAreAwaited
  <2> QED
    BY <2>1, <2>2
<1>3. CASE Purge(r) \/ Refuse(r) \/ Acquired(r) \/ AcmeFails(r) \/ Store(r) \/ Release(r)
             \/ Announce(r, "completed") \/ Announce(r, "failed")
  BY <1>0, <1>1, <1>3 DEF Purge, Refuse, Acquired, AcmeFails, Store, Release, Announce, Acquiring, asked
<1>4. CASE PassCheck(r) \/ InsertLock(r) \/ AcmeIssues(r)
  <2>1. job'[r].row = job[r].row
    BY <1>0, <1>4 DEF PassCheck, InsertLock, AcmeIssues, JobType
  <2> QED
    BY <1>0, <1>1, <1>4, <2>1 DEF PassCheck, InsertLock, AcmeIssues, Acquiring, asked
<1>5. CASE SelectRow(r) \/ CreateRow(r)
  BY <1>0, <1>1, <1>5 DEF SelectRow, CreateRow, Acquiring, asked
<1>6. CASE ReselectRow(r)
  <2>1. CASE Throw(r, {"reselect"})
    <3>1. UNCHANGED job
      BY <1>0, <1>6, <2>1 DEF ReselectRow, Throw
    <3> QED
      BY <1>2, <2>1, <3>1 DEF Acquiring
  <2>2. CASE ~Throw(r, {"reselect"})
    BY <1>0, <1>1, <1>6, <2>2 DEF ReselectRow, Acquiring, asked
  <2> QED
    BY <2>1, <2>2
<1>7. CASE Fault(r)
  <2>1. CASE Throw(r, Acquiring)
    BY <1>2, <1>7, <2>1 DEF Fault
  <2>2. CASE ~Throw(r, Acquiring)
    BY <1>0, <1>1, <1>7, <2>2 DEF Fault, Acquiring, asked
  <2> QED
    BY <2>1, <2>2
<1> QED
  BY <1>3, <1>4, <1>5, <1>6, <1>7 DEF RunStep

(* A request is answered when its run has left acquire, or was never begun. *)
LEMMA OthersKeepAwaited ==
  ASSUME PromiseInv,
         (\E q \in Reqs : ReqStep(q)) \/ (\E s \in Scans : ScanStep(s))
           \/ Environment \/ UNCHANGED vars
  PROVE  RunsAreAwaited'
<1> USE DEF RunGoto, ReqGoto
<1>0. /\ job \in [Runs -> JobType] /\ rpc \in [Runs -> RunPhases] /\ Reqs \subseteq Runs
      /\ qpc \in [Reqs -> ReqPhases] /\ answer \in [Reqs -> AnswerType]
      /\ todo \in [Scans -> SUBSET JobType]
  BY DEF PromiseInv, CoverInv, PlaceInv, TypeOK, Runs
<1>1. ASSUME NEW q \in Reqs, ReqStep(q) PROVE RunsAreAwaited'
  <2>1. \A i, csr : RunArgs(i, Domains[q], Domains[q], csr).row = i
    BY DEF RunArgs, NoJob
  <2>2. \A i : Answer("ok", i).status = "ok"
    BY DEF Answer
  <2>3. \A st \in {"issueFailed", "retry", "crash"} : Failure(st).status = st
    BY DEF Failure, NoAnswer
  <2>4. CASE MatchNone(q) \/ IssueAgain(q)
    BY <1>0, <2>1, <2>4 DEF MatchNone, IssueAgain, Acquiring, PromiseInv, RunsAreAwaited
  <2>5. CASE RenewInBackground(q)
    <3> PICK i \in PickBestCert(Domains[q]) :
          /\ answer' = [answer EXCEPT ![q] = Answer("ok", i)]
          /\ job' = [job EXCEPT ![q] = RunArgs(i, Domains[q], Domains[q], rows[i].csr)]
      BY <2>5 DEF RenewInBackground
    <3>1. i # 0
      BY BestIsLive DEF LiveRows, RowIds
    <3> QED
      BY <1>0, <2>1, <2>2, <2>5, <3>1 DEF RenewInBackground, Acquiring, PromiseInv, RunsAreAwaited
  <2>6. CASE ServeCached(q) \/ AnswerRenewing(q)
    BY <1>0, <2>2, <2>6 DEF ServeCached, AnswerRenewing, Acquiring, PromiseInv, RunsAreAwaited
  <2>7. CASE AwaitRun(q) \/ LastError(q)
    BY <1>0, <2>3, <2>7 DEF AwaitRun, LastError, Acquiring, PromiseInv, RunsAreAwaited
  <2>8. CASE FinalSelect(q)
    BY <1>0, <2>2, <2>8 DEF FinalSelect, Acquiring, PromiseInv, RunsAreAwaited
  <2>9. CASE TailOwn(q) \/ GoLookup(q) \/ LookupOwner(q) \/ TailTerminal(q) \/ PollFound(q) \/ Deadline(q)
    BY <1>0, <2>9 DEF TailOwn, GoLookup, LookupOwner, TailTerminal, PollFound, Deadline, Acquiring,
       PromiseInv, RunsAreAwaited
  <2> QED
    BY <1>1, <2>4, <2>5, <2>6, <2>7, <2>8, <2>9 DEF ReqStep
<1>2. ASSUME NEW s \in Scans, ScanNext(s) PROVE RunsAreAwaited'
  <2> PICK j \in todo[s] : /\ rpc' = [rpc EXCEPT ![<<s, j.row>>] = "purge"]
                           /\ job' = [job EXCEPT ![<<s, j.row>>] = j]
    BY <1>2 DEF ScanNext
  <2>1. \A q \in Reqs : q # <<s, j.row>>
    BY <1>0, RunsAssumption DEF JobType
  <2> QED
    BY <1>0, <1>2, <2>1 DEF ScanNext, asked, PromiseInv, RunsAreAwaited
<1>3. ASSUME NEW r \in Runs, Fault(r) PROVE RunsAreAwaited'
  BY <1>3, RunKeepsAwaited
<1>4. ASSUME NEW q \in Reqs, EvictRequest(q) PROVE RunsAreAwaited'
  BY <1>0, <1>4 DEF EvictRequest, Acquiring, PromiseInv, RunsAreAwaited
<1>5. ASSUME NEW s \in Scans, EvictScan(s) PROVE RunsAreAwaited'
  <2> PICK i \in RowIds : rpc' = [rpc EXCEPT ![<<s, i>>] = "killed"]
    BY <1>5 DEF EvictScan
  <2>1. \A q \in Reqs : rpc'[q] = rpc[q]
    BY <1>0, RunsAssumption, RowIdsAreNumbers
  <2> QED
    BY <1>5, <2>1 DEF EvictScan, asked, PromiseInv, RunsAreAwaited
<1>6. CASE UNCHANGED <<rpc, job, asked>>
  BY <1>6 DEF asked, PromiseInv, RunsAreAwaited
<1> QED
  BY <1>1, <1>2, <1>3, <1>4, <1>5, <1>6
     DEF ScanStep, ScanSelect, Environment, Age, DeleteRow, Lapse, vars

(* Every step keeps the strengthened invariant.                             *)
LEMMA PromiseInvStep == PromiseInv /\ [Next]_vars => PromiseInv'
BY CoverInvStep, RunKeepsNames, OthersKeepNames, RunKeepsAwaited, OthersKeepAwaited
   DEF PromiseInv, Next

(* It holds in every reachable state.                                       *)
LEMMA PromiseInvariant == Spec => []PromiseInv
<1>1. Init => RunsAreAwaited /\ NothingNameless
  <2> SUFFICES ASSUME Init PROVE RunsAreAwaited /\ NothingNameless
    OBVIOUS
  <2>1. RunsAreAwaited
    BY DEF Init, RunsAreAwaited, Acquiring, NoAnswer, Runs
  <2>2. NothingNameless
    BY DEF Init, NothingNameless, NoRow, IssuedRow
  <2> QED
    BY <2>1, <2>2
<1>2. PromiseInv => CoverInv
  BY DEF PromiseInv
<1>3. Spec => []CoverInv
  BY CoverInvariant
<1>4. CoverInv /\ RunsAreAwaited /\ NothingNameless => PromiseInv
  BY DEF PromiseInv
<1> QED
  BY <1>1, <1>3, <1>4, PromiseInvStep, PTL DEF Spec

-----------------------------------------------------------------------------
(* The values of the abstract variables. *)
Shelf     == [i \in RowIds |-> rows[i].cert]
Withdrawn == {i \in RowIds : rows[i].state = "deleted"}
Outcome   == [q \in Reqs |-> HubOutcome(q)]
Given     == [q \in Reqs |-> IF HubOutcome(q) \in {"taken", "given"} THEN answer[q].names ELSE {}]

HubTable   == <<Shelf, Withdrawn>>
HubReplies == <<Outcome, Given>>

(* A step that answers nobody differently. *)
LEMMA RepliesStay ==
  ASSUME \A q \in Reqs : HubOutcome(q)' = HubOutcome(q) /\ answer'[q].names = answer[q].names
  PROVE  UNCHANGED HubReplies
BY DEF HubReplies, Outcome, Given

(* A step that changes what one client is told. *)
LEMMA RepliesChange ==
  ASSUME NEW q \in Reqs, \A x \in Reqs \ {q} : qpc'[x] = qpc[x] /\ answer'[x] = answer[x]
  PROVE  /\ Outcome' = [Outcome EXCEPT ![q] = HubOutcome(q)']
         /\ Given' = [Given EXCEPT ![q] =
                        IF HubOutcome(q)' \in {"taken", "given"} THEN answer'[q].names ELSE {}]
BY DEF Outcome, Given, HubOutcome

(* A run changes the table when it stores a certificate, and what a client *)
(* is told when acquire throws into its request.                            *)
LEMMA RunKeepsPromise ==
  ASSUME PromiseInv, NEW r \in Runs, RunStep(r) \/ Fault(r)
  PROVE  Hub!Next \/ UNCHANGED <<HubTable, HubReplies>>
<1> USE DEF RunGoto
<1>0. /\ rows \in [RowIds -> RowType] /\ job \in [Runs -> JobType]
      /\ rpc \in [Runs -> RunPhases]
      /\ qpc \in [Reqs -> ReqPhases] /\ answer \in [Reqs -> AnswerType]
  BY DEF PromiseInv, CoverInv, PlaceInv, TypeOK
<1>1. ASSUME UNCHANGED rows PROVE UNCHANGED HubTable
  BY <1>1 DEF HubTable, Shelf, Withdrawn
<1>2. ASSUME UNCHANGED <<qpc, answer>> PROVE UNCHANGED HubReplies
  BY <1>2, RepliesStay DEF HubOutcome
<1>3. ASSUME NEW from \in SUBSET Acquiring, Throw(r, from), UNCHANGED rows
      PROVE  Hub!Next \/ UNCHANGED <<HubTable, HubReplies>>
  <2>1. CASE r \notin Reqs
    BY <1>1, <1>2, <1>3, <2>1 DEF Throw, asked
  <2>2. CASE r \in Reqs
    <3>1. /\ HubOutcome(r) \in {"asked", "taken"}
          /\ HubOutcome(r)' = "refused"
      <4>1. qpc[r] \in {"renewing", "issuing"} /\ (qpc[r] = "issuing" => answer[r].status = "none")
        BY <1>3, <2>2 DEF Throw, PromiseInv, RunsAreAwaited
      <4>2. qpc'[r] = "answered" /\ answer'[r].status = "crash"
        BY <1>0, <1>3, <2>2 DEF Throw, Failure, NoAnswer
      <4> QED
        BY <4>1, <4>2 DEF HubOutcome
    <3>2. \A x \in Reqs \ {r} : qpc'[x] = qpc[x] /\ answer'[x] = answer[x]
      BY <1>0, <1>3, <2>2 DEF Throw
    <3>3. Hub!Fail(r)
      BY <1>1, <1>3, <2>2, <3>1, <3>2, RepliesChange
         DEF Hub!Fail, Hub!table, HubTable, Shelf, Withdrawn, Outcome, Given
    <3> QED
      BY <2>2, <3>3 DEF Hub!Next
  <2> QED
    BY <2>1, <2>2
<1>4. CASE CreateRow(r)
  <2>1. UNCHANGED HubTable
    <3>1. CASE UNCHANGED rows
      BY <1>1, <3>1
    <3>2. ASSUME NEW i \in RowIds, NextRow(i),
                 rows' = [rows EXCEPT ![i] = NewRow(job[r].hash, job[r].domains)]
          PROVE  UNCHANGED HubTable
      <4>1. rows[i].state = "unused" /\ rows[i].cert = {}
        BY <3>2 DEF NextRow, PromiseInv, NothingNameless
      <4>2. rows'[i].state = "live" /\ rows'[i].cert = {} /\ \A k \in RowIds \ {i} : rows'[k] = rows[k]
        BY <1>0, <3>2 DEF NewRow, NoRow
      <4> QED
        BY <4>1, <4>2 DEF HubTable, Shelf, Withdrawn
    <3> QED
      BY <1>4, <3>1, <3>2 DEF CreateRow
  <2> QED
    BY <1>2, <1>4, <2>1 DEF CreateRow, asked
<1>5. CASE Store(r)
  <2>1. UNCHANGED HubReplies
    BY <1>2, <1>5 DEF Store, asked
  <2>2. CASE UNCHANGED rows
    BY <1>1, <2>1, <2>2
  <2>3. ASSUME NEW k \in RowIds, rows[k].state = "live", NEW past \in BOOLEAN,
               rows' = [rows EXCEPT ![k] =
                 IssuedRow(job[r].hash, job[r].domains, job[r].csr, job[r].cert, past)]
        PROVE  Hub!Next
    <3>1. job[r].cert \in SUBSET Names /\ job[r].cert # {}
      <4>1. CoversAll(job[r].cert, job[r].domains) /\ job[r].domains # {}
        BY <1>5 DEF Store, PromiseInv, CoverInv, StoresCover, NothingNameless
      <4> QED
        BY <1>0, <4>1 DEF CoversAll, JobType
    <3>2. /\ rows'[k].state = "live" /\ rows'[k].cert = job[r].cert
          /\ \A i \in RowIds \ {k} : rows'[i] = rows[i]
      BY <1>0, <2>3 DEF IssuedRow
    <3>3. Shelf' = [Shelf EXCEPT ![k] = job[r].cert]
      BY <3>2 DEF Shelf
    <3>4. Withdrawn' = Withdrawn /\ k \notin Withdrawn
      BY <2>3, <3>2 DEF Withdrawn
    <3>5. Hub!Issue(k)
      BY <2>1, <3>1, <3>3, <3>4
         DEF Hub!Issue, Hub!replies, HubReplies, Shelf, Withdrawn, Outcome, Given
    <3> QED
      BY <3>5 DEF Hub!Next
  <2>4. CASE job[r].row \notin RowIds
    BY <1>0, <1>1, <1>5, <2>1, <2>4 DEF Store
  <2> QED
    BY <1>5, <2>2, <2>3, <2>4 DEF Store
<1>6. CASE ReselectRow(r)
  BY <1>1, <1>2, <1>3, <1>6 DEF ReselectRow, Acquiring, asked
<1>7. CASE Fault(r)
  BY <1>1, <1>2, <1>3, <1>7 DEF Fault, Acquiring, asked
<1> QED
  BY <1>1, <1>2, <1>4, <1>5, <1>6, <1>7 DEF RunStep, Purge, Refuse, PassCheck, InsertLock, Acquired,
     SelectRow, AcmeIssues, AcmeFails, Announce, Release, asked

(* A request takes a certificate of the table as it is, all at once.       *)
LEMMA ReqKeepsPromise ==
  ASSUME PromiseInv, NEW q \in Reqs, ReqStep(q)
  PROVE  Hub!Next \/ UNCHANGED <<HubTable, HubReplies>>
<1> USE DEF RunGoto, ReqGoto
<1>0. /\ rows \in [RowIds -> RowType]
      /\ qpc \in [Reqs -> ReqPhases] /\ answer \in [Reqs -> AnswerType]
  BY DEF PromiseInv, CoverInv, PlaceInv, TypeOK
<1>1. UNCHANGED HubTable
  BY DEF ReqStep, MatchNone, ServeCached, RenewInBackground, IssueAgain, AnswerRenewing,
     AwaitRun, TailOwn, GoLookup, LookupOwner, TailTerminal, PollFound, Deadline, FinalSelect,
     LastError, HubTable, Shelf, Withdrawn
<1>2. \A x \in Reqs \ {q} : qpc'[x] = qpc[x] /\ answer'[x] = answer[x]
  BY <1>0 DEF ReqStep, MatchNone, ServeCached, RenewInBackground, IssueAgain, AnswerRenewing,
     AwaitRun, TailOwn, GoLookup, LookupOwner, TailTerminal, PollFound, Deadline, FinalSelect,
     LastError
<1>3. qpc[q] \notin {"answered", "evicted"}
  BY DEF ReqStep, MatchNone, ServeCached, RenewInBackground, IssueAgain, AnswerRenewing,
     AwaitRun, TailOwn, GoLookup, LookupOwner, TailTerminal, PollFound, Deadline, FinalSelect,
     LastError
<1>4. HubOutcome(q) = IF qpc[q] = "renewing" THEN "taken" ELSE "asked"
  BY <1>3 DEF HubOutcome, PromiseInv, RunsAreAwaited
<1>5. ASSUME NEW i \in RowIds, rows[i].cert # {}, CoversAll(rows[i].cert, Domains[q]),
             qpc[q] # "renewing",
             answer' = [answer EXCEPT ![q] = Answer("ok", i)],
             qpc'[q] \in {"renewing", "answered"}
      PROVE  Hub!Next
  <2>1. answer'[q].status = "ok" /\ answer'[q].names = rows[i].cert
    BY <1>0, <1>5 DEF Answer
  <2>2. HubOutcome(q)' \in {"taken", "given"}
    BY <1>5, <2>1 DEF HubOutcome
  <2>3. /\ Outcome' = [Outcome EXCEPT ![q] = HubOutcome(q)'] /\ Outcome[q] = "asked"
        /\ Given' = [Given EXCEPT ![q] = Shelf[i]] /\ Shelf[i] = rows[i].cert
    BY <1>2, <1>4, <1>5, <2>1, <2>2, RepliesChange DEF Shelf, Outcome
  <2>4. Hub!Take(q, i)
    BY <1>1, <1>5, <2>2, <2>3
       DEF Hub!Take, Hub!Covers, CoversAll, Hub!table, HubTable, Shelf, Withdrawn, Outcome, Given
  <2> QED
    BY <1>5, <2>4 DEF Hub!Next
<1>6. ASSUME HubOutcome(q)' \in {"refused", "gone"} PROVE Hub!Next
  <2>1. Hub!Fail(q)
    BY <1>1, <1>2, <1>4, <1>6, RepliesChange
       DEF Hub!Fail, Hub!table, HubTable, Shelf, Withdrawn, Outcome, Given
  <2> QED
    BY <2>1 DEF Hub!Next
<1>7. ASSUME UNCHANGED answer, qpc[q] # "renewing", qpc'[q] \notin {"answered", "evicted"}
      PROVE  UNCHANGED HubReplies
  BY <1>2, <1>3, <1>7, RepliesStay DEF HubOutcome
<1>8. CASE MatchNone(q) \/ IssueAgain(q) \/ TailOwn(q) \/ GoLookup(q) \/ LookupOwner(q)
             \/ TailTerminal(q) \/ PollFound(q) \/ Deadline(q)
  BY <1>0, <1>1, <1>7, <1>8 DEF MatchNone, IssueAgain, TailOwn, GoLookup, LookupOwner, TailTerminal,
     PollFound, Deadline
<1>9. CASE ServeCached(q) \/ RenewInBackground(q)
  <2> PICK i \in PickBestCert(Domains[q]) :
        /\ Decide(rows[i]) \in {"cache", "renew"}
        /\ answer' = [answer EXCEPT ![q] = Answer("ok", i)]
    BY <1>9 DEF ServeCached, RenewInBackground
  <2>1. i \in RowIds /\ rows[i].cert # {} /\ CoversAll(rows[i].cert, Domains[q])
    BY TakenFromARow, BestIsLive DEF Decide, LiveRows, PromiseInv
  <2> QED
    BY <1>0, <1>5, <1>9, <2>1 DEF ServeCached, RenewInBackground
<1>10. CASE FinalSelect(q)
  <2>1. ASSUME NEW i \in ByHash(Domains[q]), rows[i].cert # {},
               answer' = [answer EXCEPT ![q] = Answer("ok", i)], qpc' = [qpc EXCEPT ![q] = "answered"]
        PROVE  Hub!Next
    <3>1. i \in RowIds /\ CoversAll(rows[i].cert, Domains[q])
      BY <2>1 DEF ByHash, LiveRows, PromiseInv, CoverInv, RowsCover, RowCovers
    <3> QED
      BY <1>0, <1>5, <1>10, <2>1, <3>1 DEF FinalSelect
  <2>2. CASE UNCHANGED answer /\ qpc' = [qpc EXCEPT ![q] = "lastError"]
    BY <1>0, <1>1, <1>7, <1>10, <2>2 DEF FinalSelect
  <2> QED
    BY <1>10, <2>1, <2>2 DEF FinalSelect
<1>11. CASE AwaitRun(q) \/ LastError(q)
  <2>1. \A st \in {"issueFailed", "retry", "crash"} : Failure(st).status = st
    BY DEF Failure, NoAnswer
  <2>2. CASE qpc'[q] = "answered"
    <3>1. answer'[q].status \in {"issueFailed", "retry", "crash"}
      BY <1>0, <1>11, <2>1, <2>2 DEF AwaitRun, LastError
    <3>2. HubOutcome(q)' = "refused"
      BY <2>2, <3>1 DEF HubOutcome
    <3> QED
      BY <1>6, <3>2
  <2>3. CASE UNCHANGED answer /\ qpc' = [qpc EXCEPT ![q] = "final"]
    BY <1>0, <1>1, <1>7, <1>11, <2>3 DEF AwaitRun, LastError
  <2> QED
    BY <1>0, <1>11, <2>2, <2>3 DEF AwaitRun, LastError
<1>12. CASE AnswerRenewing(q)
  <2>1. HubOutcome(q)' = "given" /\ HubOutcome(q) = "taken" /\ answer' = answer
    BY <1>0, <1>4, <1>12 DEF AnswerRenewing, HubOutcome, PromiseInv, RunsAreAwaited
  <2>2. Outcome' = [Outcome EXCEPT ![q] = "given"] /\ Given' = Given
    <3>1. Given' = [Given EXCEPT ![q] = answer[q].names] /\ Given[q] = answer[q].names
      BY <1>2, <2>1, RepliesChange DEF Given
    <3> QED
      BY <1>2, <2>1, <3>1, RepliesChange DEF Given
  <2>3. Hub!Give(q)
    BY <1>1, <2>1, <2>2 DEF Hub!Give, Hub!table, HubTable, Shelf, Withdrawn, Outcome, Given
  <2> QED
    BY <2>3 DEF Hub!Next
<1> QED
  BY <1>8, <1>9, <1>10, <1>11, <1>12 DEF ReqStep

(* Nobody else touches what a client is told, and only the administrator   *)
(* takes a certificate out of the table.                                   *)
LEMMA OthersKeepPromise ==
  ASSUME PromiseInv,
         (\E s \in Scans : ScanStep(s)) \/ Environment \/ UNCHANGED vars
  PROVE  Hub!Next \/ UNCHANGED <<HubTable, HubReplies>>
<1>0. /\ rows \in [RowIds -> RowType]
      /\ qpc \in [Reqs -> ReqPhases] /\ answer \in [Reqs -> AnswerType]
  BY DEF PromiseInv, CoverInv, PlaceInv, TypeOK
<1>1. ASSUME UNCHANGED rows PROVE UNCHANGED HubTable
  BY <1>1 DEF HubTable, Shelf, Withdrawn
<1>2. ASSUME UNCHANGED <<qpc, answer>> PROVE UNCHANGED HubReplies
  BY <1>2, RepliesStay DEF HubOutcome
<1>3. ASSUME NEW i \in RowIds, Age(i) PROVE UNCHANGED <<HubTable, HubReplies>>
  <2>1. \A k \in RowIds : rows'[k].cert = rows[k].cert /\ rows'[k].state = rows[k].state
    BY <1>0, <1>3 DEF Age, RowType
  <2>2. UNCHANGED HubTable
    BY <2>1 DEF HubTable, Shelf, Withdrawn
  <2> QED
    BY <1>2, <1>3, <2>2 DEF Age, asked
<1>4. ASSUME NEW i \in RowIds, DeleteRow(i) PROVE Hub!Next
  <2>1. /\ rows[i].state = "live" /\ rows'[i].state = "deleted" /\ rows'[i].cert = {}
        /\ \A k \in RowIds \ {i} : rows'[k] = rows[k]
    BY <1>0, <1>4 DEF DeleteRow, GoneRow, NoRow
  <2>2. /\ i \notin Withdrawn /\ Withdrawn' = Withdrawn \cup {i}
        /\ Shelf' = [Shelf EXCEPT ![i] = {}]
    BY <2>1 DEF Shelf, Withdrawn
  <2>3. Hub!Withdraw(i)
    BY <1>2, <1>4, <2>2
       DEF DeleteRow, asked, Hub!Withdraw, Hub!replies, HubReplies, Shelf, Withdrawn, Outcome, Given
  <2> QED
    BY <2>3 DEF Hub!Next
<1>5. ASSUME NEW q \in Reqs, EvictRequest(q) PROVE Hub!Next \/ UNCHANGED <<HubTable, HubReplies>>
  <2>1. UNCHANGED HubTable /\ answer' = answer /\ \A x \in Reqs \ {q} : qpc'[x] = qpc[x]
    BY <1>1, <1>5 DEF EvictRequest
  <2>2. CASE qpc[q] = "answered"
    BY <1>0, <1>2, <1>5, <2>1, <2>2 DEF EvictRequest
  <2>3. CASE qpc[q] # "answered"
    <3>1. HubOutcome(q)' = "gone" /\ HubOutcome(q) \in {"asked", "taken"}
      BY <1>0, <1>5, <2>3 DEF EvictRequest, HubOutcome
    <3>2. Hub!Fail(q)
      BY <2>1, <3>1, RepliesChange DEF Hub!Fail, Hub!table, HubTable, Shelf, Withdrawn, Outcome, Given
    <3> QED
      BY <3>2 DEF Hub!Next
  <2> QED
    BY <2>2, <2>3
<1>6. ASSUME NEW r \in Runs, Fault(r) PROVE Hub!Next \/ UNCHANGED <<HubTable, HubReplies>>
  BY <1>6, RunKeepsPromise
<1>7. CASE UNCHANGED <<rows, asked>>
  BY <1>1, <1>2, <1>7 DEF asked
<1> QED
  BY <1>3, <1>4, <1>5, <1>6, <1>7
     DEF ScanStep, ScanSelect, ScanNext, Environment, Lapse, EvictScan, vars

(* What requestCert returns is a certificate that was in the table at one  *)
(* instant between request and answer and covers what was asked, and no    *)
(* run takes one out of the table: issuing implements CertificateHub.      *)
THEOREM HubImplemented == Spec => ImplementsHub
<1>1. Init => Hub!Init
  <2> SUFFICES ASSUME Init PROVE Hub!Init
    OBVIOUS
  <2>1. rows \in [RowIds -> RowType] /\ \A i \in RowIds : rows[i].state # "deleted"
    <3>1. rows \in [RowIds -> RowType]
      BY InitType DEF TypeOK
    <3>2. \A i \in RowIds : rows[i].state \in {"live", "unused"}
      BY DEF Init, IssuedRow, NoRow
    <3> QED
      BY <3>1, <3>2
  <2>2. \A q \in Reqs : qpc[q] = "new" /\ answer[q].status = "none"
    BY DEF Init, NoAnswer
  <2>3. \A q \in Reqs : HubOutcome(q) = "asked"
    BY <2>2 DEF HubOutcome
  <2> QED
    BY <2>1, <2>3 DEF Hub!Init, RowType
<1>2. PromiseInv /\ [Next]_vars => [Hub!Next]_<<HubTable, HubReplies>>
  BY RunKeepsPromise, ReqKeepsPromise, OthersKeepPromise DEF Next
<1>3. <<HubTable, HubReplies>>' = <<HubTable, HubReplies>> => UNCHANGED <<Hub!table, Hub!replies>>
  BY DEF HubTable, HubReplies, Hub!table, Hub!replies, Shelf, Withdrawn, Outcome, Given
<1>4. PromiseInv /\ [Next]_vars => [Hub!Next]_<<Hub!table, Hub!replies>>
  BY <1>2, <1>3
<1> QED
  BY <1>1, <1>4, PromiseInvariant, PTL DEF Spec, ImplementsHub, Hub!Spec

-----------------------------------------------------------------------------
(***************************************************************************)
(* Verdicts.  A request that looks up an owner or polls was refused, and a *)
(* stream that has been sent nothing when the row is read for the last     *)
(* time is that of a refused request.                                      *)
(***************************************************************************)
VerdictInv ==
  /\ PlaceInv
  /\ \A q \in Reqs : qpc[q] \in {"owner", "poll"} => rpc[q] = "refused"
  /\ \A q \in Sse : qpc[q] = "final" /\ stream[q].kind = "none" => rpc[q] = "refused"
  /\ StreamsEndWithVerdict

(* What was sent stays sent.                                               *)
LEMMA SentIsSent ==
  ASSUME TypeOK, NEW q \in Reqs, NEW m \in MessageType, m.kind # "none", Send(q, m)
  PROVE  /\ \A x \in Reqs \ {q} : stream'[x] = stream[x]
         /\ q \in Sse => stream'[q].kind # "none"
BY DEF TypeOK, Send

(* A run throws into its request with a message, and never leaves refused. *)
LEMMA RunKeepsVerdict ==
  ASSUME VerdictInv, NEW r \in Runs, RunStep(r) \/ Fault(r)
  PROVE  VerdictInv'
<1> USE DEF RunGoto
<1>0. /\ TypeOK /\ rpc \in [Runs -> RunPhases] /\ job \in [Runs -> JobType]
      /\ qpc \in [Reqs -> ReqPhases] /\ answer \in [Reqs -> AnswerType]
      /\ Reqs \subseteq Runs /\ Sse \subseteq Reqs
  BY NamesAssumption, RunsAssumption DEF VerdictInv, PlaceInv, TypeOK, Runs
<1>1. PlaceInv'
  BY PlaceStep DEF VerdictInv, Next, Environment
<1>2. \A x \in Runs : rpc[x] = "refused" => rpc'[x] = "refused"
  BY <1>0 DEF RunStep, Fault, Throw, Purge, Refuse, PassCheck, InsertLock, Acquired, SelectRow,
     CreateRow, ReselectRow, AcmeIssues, AcmeFails, Store, Announce, Release
<1>3. ASSUME UNCHANGED asked PROVE VerdictInv'
  BY <1>0, <1>1, <1>2, <1>3 DEF VerdictInv, asked, StreamsEndWithVerdict
<1>4. ASSUME NEW from, Throw(r, from), r \in Reqs PROVE VerdictInv'
  <2>1. Message("failed", {}) \in MessageType /\ Message("failed", {}).kind # "none"
    BY DEF Message, MessageType
  <2>2. Send(r, Message("failed", {}))
    BY <1>4 DEF Throw
  <2>3. /\ \A x \in Reqs \ {r} : stream'[x] = stream[x]
        /\ r \in Sse => stream'[r].kind # "none"
    BY <1>0, <1>4, <2>1, <2>2, SentIsSent
  <2>4. /\ qpc'[r] = "answered"
        /\ \A x \in Reqs \ {r} : qpc'[x] = qpc[x] /\ answer'[x] = answer[x]
    BY <1>0, <1>4 DEF Throw
  <2>5. \A q \in Sse : qpc'[q] = "answered" /\ stream'[q].kind = "none" =>
          q # r /\ rpc[q] = "refused" /\ answer'[q].status = "ok"
    BY <1>0, <2>3, <2>4 DEF VerdictInv, StreamsEndWithVerdict
  <2>6. StreamsEndWithVerdict'
    BY <1>0, <1>2, <2>5 DEF StreamsEndWithVerdict
  <2> QED
    BY <1>0, <1>1, <1>2, <2>3, <2>4, <2>6 DEF VerdictInv
<1>5. ASSUME NEW e \in {"completed", "failed"}, Announce(r, e) PROVE VerdictInv'
  <2>1. CASE UNCHANGED stream
    BY <1>3, <1>5, <2>1 DEF Announce, asked
  <2>2. CASE r \in Reqs /\ Send(r, Message("completed", job[r].cert))
    <3>1. Message("completed", job[r].cert) \in MessageType
          /\ Message("completed", job[r].cert).kind # "none"
      BY <1>0 DEF Message, MessageType, JobType
    <3>2. /\ \A x \in Reqs \ {r} : stream'[x] = stream[x]
          /\ r \in Sse => stream'[r].kind # "none"
      BY <1>0, <2>2, <3>1, SentIsSent
    <3>3. UNCHANGED <<qpc, answer>>
      BY <1>5 DEF Announce
    <3> QED
      BY <1>0, <1>1, <1>2, <3>2, <3>3 DEF VerdictInv, StreamsEndWithVerdict
  <2> QED
    BY <1>5, <2>1, <2>2 DEF Announce
<1> QED
  BY <1>3, <1>4, <1>5 DEF RunStep, Fault, Throw, Purge, Refuse, PassCheck, InsertLock, Acquired,
     SelectRow, CreateRow, ReselectRow, AcmeIssues, AcmeFails, Store, Release

(* A request polls only after its refusal; the other ways to the last read *)
(* of the row have sent a message before.                                  *)
LEMMA ReqKeepsVerdict ==
  ASSUME VerdictInv, NEW q \in Reqs, ReqStep(q)
  PROVE  VerdictInv'
<1> USE DEF RunGoto, ReqGoto
<1>0. /\ TypeOK /\ rpc \in [Runs -> RunPhases] /\ rows \in [RowIds -> RowType]
      /\ qpc \in [Reqs -> ReqPhases] /\ answer \in [Reqs -> AnswerType]
      /\ job \in [Runs -> JobType] /\ via \in [Reqs -> Runs]
      /\ Reqs \subseteq Runs /\ Sse \subseteq Reqs
  BY NamesAssumption, RunsAssumption DEF VerdictInv, PlaceInv, TypeOK, Runs
<1>1. PlaceInv'
  BY PlaceStep DEF VerdictInv, Next
<1>2. /\ \A x \in Runs : rpc[x] = "refused" => rpc'[x] = "refused"
      /\ \A x \in Reqs \ {q} : qpc'[x] = qpc[x] /\ answer'[x] = answer[x]
  BY <1>0 DEF ReqStep, MatchNone, ServeCached, RenewInBackground, IssueAgain, AnswerRenewing,
     AwaitRun, TailOwn, GoLookup, LookupOwner, TailTerminal, PollFound, Deadline, FinalSelect, LastError
<1>3. ASSUME UNCHANGED stream,
             qpc'[q] \in {"owner", "poll"} => rpc'[q] = "refused",
             q \in Sse /\ stream[q].kind = "none" => (qpc'[q] = "final" => rpc'[q] = "refused"),
             q \in Sse /\ stream[q].kind = "none" /\ qpc'[q] = "answered" =>
               rpc'[q] = "refused" /\ answer'[q].status = "ok"
      PROVE  VerdictInv'
  BY <1>0, <1>1, <1>2, <1>3 DEF VerdictInv, StreamsEndWithVerdict
<1>4. ASSUME NEW m \in MessageType, m.kind # "none", Send(q, m), qpc'[q] \notin {"owner", "poll"}
      PROVE  VerdictInv'
  <2>1. /\ \A x \in Reqs \ {q} : stream'[x] = stream[x]
        /\ q \in Sse => stream'[q].kind # "none"
    BY <1>0, <1>4, SentIsSent
  <2> QED
    BY <1>0, <1>1, <1>2, <1>4, <2>1 DEF VerdictInv, StreamsEndWithVerdict
<1>5. \A k \in {"completed", "failed"}, S \in SUBSET Names :
        Message(k, S) \in MessageType /\ Message(k, S).kind # "none"
  BY DEF Message, MessageType
<1>6. CASE MatchNone(q) \/ RenewInBackground(q) \/ IssueAgain(q) \/ TailOwn(q) \/ GoLookup(q)
             \/ LookupOwner(q)
  BY <1>0, <1>3, <1>6 DEF MatchNone, RenewInBackground, IssueAgain, TailOwn, GoLookup, LookupOwner,
     VerdictInv
<1>7. CASE AwaitRun(q)
  BY <1>0, <1>3, <1>7 DEF AwaitRun
<1>8. CASE PollFound(q)
  BY <1>0, <1>3, <1>8 DEF PollFound, VerdictInv
<1>9. CASE FinalSelect(q)
  <2>1. \A i : Answer("ok", i).status = "ok"
    BY DEF Answer
  <2> QED
    BY <1>0, <1>3, <1>9, <2>1 DEF FinalSelect, VerdictInv
<1>10. CASE ServeCached(q)
  <2> PICK i \in PickBestCert(Domains[q]) : Send(q, Message("completed", rows[i].cert))
    BY <1>10 DEF ServeCached
  <2>1. rows[i].cert \in SUBSET Names
    BY <1>0, BestIsLive DEF LiveRows, RowType
  <2> QED
    BY <1>0, <1>4, <1>5, <1>10, <2>1 DEF ServeCached
<1>11. CASE AnswerRenewing(q)
  <2>1. answer[q].names \in SUBSET Names
    BY <1>0 DEF AnswerType
  <2> QED
    BY <1>0, <1>4, <1>5, <1>11, <2>1 DEF AnswerRenewing
<1>12. CASE TailTerminal(q)
  <2>1. job[via[q]].cert \in SUBSET Names
    BY <1>0 DEF JobType
  <2> QED
    BY <1>0, <1>4, <1>5, <1>12, <2>1 DEF TailTerminal
<1>13. CASE LastError(q)
  BY <1>0, <1>4, <1>5, <1>13 DEF LastError
<1>14. CASE Deadline(q)
  <2>1. CASE qpc[q] = "tail" /\ via[q] = q
    BY <1>0, <1>4, <1>5, <1>14, <2>1 DEF Deadline
  <2>2. CASE qpc[q] = "tail" /\ via[q] # q
    BY <1>0, <1>3, <1>14, <2>2 DEF Deadline, VerdictInv, PlaceInv, ElsewhereOnlyIfRefused
  <2>3. CASE qpc[q] = "poll"
    BY <1>0, <1>3, <1>14, <2>3 DEF Deadline, VerdictInv
  <2> QED
    BY <1>14, <2>1, <2>2, <2>3 DEF Deadline
<1> QED
  BY <1>6, <1>7, <1>8, <1>9, <1>10, <1>11, <1>12, <1>13, <1>14 DEF ReqStep

(* Nobody else sends anything.                                             *)
LEMMA OthersKeepVerdict ==
  ASSUME VerdictInv,
         (\E s \in Scans : ScanStep(s)) \/ Environment \/ UNCHANGED vars
  PROVE  VerdictInv'
<1> USE DEF RunGoto
<1>0. /\ rpc \in [Runs -> RunPhases] /\ qpc \in [Reqs -> ReqPhases]
      /\ Reqs \subseteq Runs /\ Sse \subseteq Reqs
  BY NamesAssumption, RunsAssumption DEF VerdictInv, PlaceInv, TypeOK, Runs
<1>1. PlaceInv'
  BY PlaceStep DEF VerdictInv, Next
<1>2. ASSUME UNCHANGED <<answer, stream>>, \A x \in Runs : rpc[x] = "refused" => rpc'[x] = "refused",
             \A x \in Reqs : qpc'[x] \in {qpc[x], "evicted"}
      PROVE  VerdictInv'
  BY <1>0, <1>1, <1>2 DEF VerdictInv, StreamsEndWithVerdict
<1>3. ASSUME NEW r \in Runs, Fault(r) PROVE VerdictInv'
  BY <1>3, RunKeepsVerdict
<1>4. ASSUME NEW q \in Reqs, EvictRequest(q) PROVE VerdictInv'
  BY <1>0, <1>2, <1>4 DEF EvictRequest
<1>5. ASSUME NEW s \in Scans, EvictScan(s) \/ ScanNext(s) PROVE VerdictInv'
  BY <1>0, <1>2, <1>5 DEF EvictScan, ScanNext, asked
<1>6. CASE UNCHANGED <<rpc, asked>>
  BY <1>2, <1>6 DEF asked
<1> QED
  BY <1>3, <1>4, <1>5, <1>6
     DEF ScanStep, ScanSelect, Environment, Age, DeleteRow, Lapse, vars

(* Whatever the order of events, deadline and exceptions, the stream of a  *)
(* client that acquire did not refuse ends with completed or failed.       *)
THEOREM VerdictsAreSent == Spec => []StreamsEndWithVerdict
<1>1. Init => VerdictInv
  BY InitPlace, RunsAssumption, NamesAssumption DEF Init, VerdictInv, StreamsEndWithVerdict
<1>2. VerdictInv /\ [Next]_vars => VerdictInv'
  BY RunKeepsVerdict, ReqKeepsVerdict, OthersKeepVerdict DEF Next
<1>3. VerdictInv => StreamsEndWithVerdict
  BY DEF VerdictInv
<1> QED
  BY <1>1, <1>2, <1>3, PTL DEF Spec

-----------------------------------------------------------------------------
(***************************************************************************)
(* Failures.  Who reads a failed event has a name in common with the run:  *)
(* a lock row is one of its owner's names, and whose events a refused      *)
(* request follows was found by a lock row of one of its own names.        *)
(***************************************************************************)
LocksAreTheOwners ==
  \A n \in Names : Locks!Taken(locks, n) =>
    /\ locks[n].owner \in Runs /\ rpc[locks[n].owner] # "none"
    /\ n \in job[locks[n].owner].domains

PendingIsOwn ==
  /\ \A r \in Runs : job[r].pending \subseteq job[r].domains
  /\ \A s \in Scans : \A j \in todo[s] : j.pending = {}

FollowedSharesAName ==
  \A q \in Reqs : via[q] # q => rpc[via[q]] # "none" /\ job[via[q]].domains \cap Domains[q] # {}

FailuresAreCaused ==
  \A q \in Reqs : answer[q].status = "issueFailed" =>
    \E r \in Runs : events[r] = "failed" /\ job[r].domains \cap Domains[q] # {}

CauseInv == PlaceInv /\ LocksAreTheOwners /\ PendingIsOwn /\ FollowedSharesAName /\ FailuresAreCaused

(* A run that has begun keeps its names, and its terminal event stands.    *)
RunsStand ==
  \A r \in Runs :
    /\ rpc[r] # "none" => rpc'[r] # "none" /\ job'[r].domains = job[r].domains
    /\ events[r] # "none" => events'[r] = events[r]

LEMMA RunsStandStep == PlaceInv /\ [Next]_vars => RunsStand
<1> SUFFICES ASSUME PlaceInv, [Next]_vars PROVE RunsStand
  OBVIOUS
<1> USE DEF RunGoto
<1>0. /\ TypeOK /\ rpc \in [Runs -> RunPhases] /\ job \in [Runs -> JobType]
      /\ events \in [Runs -> {"none", "completed", "failed"}]
      /\ todo \in [Scans -> SUBSET JobType] /\ Reqs \subseteq Runs
  BY DEF PlaceInv, TypeOK, Runs
<1>1. ASSUME NEW r \in Runs, RunStep(r) \/ Fault(r) PROVE RunsStand
  <2>1. \A x \in Runs : job'[x].domains = job[x].domains
    BY <1>0, <1>1, RunKeepsItsTask
  <2>2. \A x \in Runs : rpc[x] # "none" => rpc'[x] # "none"
    BY <1>0, <1>1 DEF RunStep, Fault, Throw, Purge, Refuse, PassCheck, InsertLock, Acquired,
       SelectRow, CreateRow, ReselectRow, AcmeIssues, AcmeFails, Store, Announce, Release
  <2>3. CASE UNCHANGED events
    BY <2>1, <2>2, <2>3 DEF RunsStand
  <2>4. ASSUME NEW e \in {"completed", "failed"}, Announce(r, e) PROVE RunsStand
    <3>1. events[r] = "none" /\ \A x \in Runs \ {r} : events'[x] = events[x]
      BY <1>0, <2>4 DEF Announce, PlaceInv, EventsAreLast
    <3> QED
      BY <2>1, <2>2, <3>1 DEF RunsStand
  <2> QED
    BY <1>1, <2>3, <2>4 DEF RunStep, Fault, Throw, Purge, Refuse, PassCheck, InsertLock, Acquired,
       SelectRow, CreateRow, ReselectRow, AcmeIssues, AcmeFails, Store, Release
<1>2. ASSUME NEW q \in Reqs, ReqStep(q) PROVE RunsStand
  BY <1>0, <1>2 DEF ReqStep, MatchNone, ServeCached, RenewInBackground, IssueAgain, AnswerRenewing,
     AwaitRun, TailOwn, GoLookup, LookupOwner, TailTerminal, PollFound, Deadline, FinalSelect,
     LastError, RunsStand
<1>3. ASSUME NEW s \in Scans, ScanNext(s) PROVE RunsStand
  BY <1>0, <1>3 DEF ScanNext, RunsStand
<1>4. ASSUME NEW s \in Scans, EvictScan(s) PROVE RunsStand
  BY <1>0, <1>4 DEF EvictScan, RunsStand
<1>5. ASSUME NEW q \in Reqs, EvictRequest(q) PROVE RunsStand
  BY <1>0, <1>5 DEF EvictRequest, RunsStand
<1>6. CASE UNCHANGED <<rpc, job, events>>
  BY <1>6 DEF RunsStand
<1> QED
  BY <1>1, <1>2, <1>3, <1>4, <1>5, <1>6
     DEF Next, ScanStep, ScanSelect, Environment, Age, DeleteRow, Lapse, vars

(* Only InsertLock adds lock rows, for a name its run has pending.         *)
LEMMA LocksStep ==
  ASSUME CauseInv, [Next]_vars
  PROVE  LocksAreTheOwners'
<1> USE DEF RunGoto
<1>0. /\ locks \in Locks!Table /\ rpc \in [Runs -> RunPhases] /\ job \in [Runs -> JobType]
      /\ RunsStand
  BY RunsStandStep DEF CauseInv, PlaceInv, TypeOK
<1>1. ASSUME \A n \in Names : Locks!Taken(locks', n) =>
               Locks!Taken(locks, n) /\ locks'[n].owner = locks[n].owner
      PROVE  LocksAreTheOwners'
  BY <1>0, <1>1 DEF CauseInv, LocksAreTheOwners, RunsStand, Locks!Taken
<1>2. ASSUME NEW r \in Runs, Purge(r) PROVE LocksAreTheOwners'
  BY <1>0, <1>1, <1>2 DEF Purge, Locks!PurgeExpired, Locks!Taken, Locks!Absent
<1>3. ASSUME NEW r \in Runs, Release(r) PROVE LocksAreTheOwners'
  BY <1>0, <1>1, <1>3 DEF Release, Locks!DeleteOwned, Locks!Taken, Locks!Absent
<1>4. ASSUME NEW r \in Runs, InsertLock(r) PROVE LocksAreTheOwners'
  <2> PICK n \in job[r].pending : locks' = Locks!Upsert(locks, n, r, Live)
    BY <1>4 DEF InsertLock
  <2>1. n \in job[r].domains /\ rpc[r] # "none"
    BY <1>4 DEF InsertLock, CauseInv, PendingIsOwn
  <2>2. ASSUME NEW m \in Names, Locks!Taken(locks', m)
        PROVE  \/ m = n /\ locks'[m].owner = r
               \/ Locks!Taken(locks, m) /\ locks'[m].owner = locks[m].owner
    <3>1. CASE m # n
      BY <1>0, <2>2, <3>1 DEF Locks!Upsert, Locks!Taken, Locks!Table
    <3>2. CASE m = n
      <4>1. locks'[n].owner = IF Locks!Taken(locks, n) THEN locks[n].owner ELSE r
        BY <1>0, <2>2, <3>2 DEF Locks!Upsert, Locks!Table
      <4> QED
        BY <3>2, <4>1 DEF Locks!Taken
    <3> QED
      BY <3>1, <3>2
  <2> QED
    BY <1>0, <2>1, <2>2 DEF CauseInv, LocksAreTheOwners, RunsStand, Locks!Taken
<1>5. ASSUME NEW n \in Names, Lapse(n) PROVE LocksAreTheOwners'
  BY <1>0, <1>1, <1>5 DEF Lapse, Locks!Taken, Locks!Table, Locks!Row
<1>6. CASE UNCHANGED locks
  BY <1>1, <1>6
<1> QED
  BY <1>2, <1>3, <1>4, <1>5, <1>6
     DEF Next, RunStep, Fault, Throw, Refuse, PassCheck, Acquired, SelectRow, CreateRow,
     ReselectRow, AcmeIssues, AcmeFails, Store, Announce, ReqStep, MatchNone, ServeCached,
     RenewInBackground, IssueAgain, AnswerRenewing, AwaitRun, TailOwn, GoLookup, LookupOwner,
     TailTerminal, PollFound, Deadline, FinalSelect, LastError, ScanStep, ScanSelect, ScanNext,
     Environment, Age, DeleteRow, EvictRequest, EvictScan, vars

(* acquire inserts the locks of the names it was given.                    *)
LEMMA PendingStep ==
  ASSUME CauseInv, [Next]_vars
  PROVE  PendingIsOwn'
<1> USE DEF RunGoto, ReqGoto
<1>0. /\ job \in [Runs -> JobType] /\ todo \in [Scans -> SUBSET JobType] /\ Reqs \subseteq Runs
  BY DEF CauseInv, PlaceInv, TypeOK, Runs
<1>1. ASSUME NEW r \in Runs, NEW j,
             job' = [job EXCEPT ![r] = j], j.pending \subseteq j.domains,
             \A s \in Scans : todo'[s] \subseteq todo[s]
      PROVE  PendingIsOwn'
  BY <1>0, <1>1 DEF CauseInv, PendingIsOwn
<1>2. ASSUME NEW r \in Runs, RunStep(r) \/ Fault(r) PROVE PendingIsOwn'
  <2>1. job[r] \in JobType
    BY <1>0
  <2>2. CASE PassCheck(r)
    BY <1>0, <2>2 DEF PassCheck, CauseInv, PendingIsOwn, JobType
  <2>3. CASE InsertLock(r)
    BY <1>0, <2>3 DEF InsertLock, CauseInv, PendingIsOwn, JobType
  <2>4. CASE SelectRow(r) \/ CreateRow(r) \/ ReselectRow(r) \/ AcmeIssues(r)
    BY <1>0, <2>4 DEF SelectRow, CreateRow, ReselectRow, Throw, AcmeIssues, CauseInv, PendingIsOwn, JobType
  <2>5. CASE UNCHANGED <<job, todo>>
    BY <2>5 DEF CauseInv, PendingIsOwn
  <2> QED
    BY <1>2, <2>2, <2>3, <2>4, <2>5 DEF RunStep, Fault, Throw, Purge, Refuse, Acquired, AcmeFails,
       Store, Announce, Release
<1>3. ASSUME NEW q \in Reqs, ReqStep(q) PROVE PendingIsOwn'
  <2>1. \A i, csr : RunArgs(i, Domains[q], Domains[q], csr).pending = {}
    BY DEF RunArgs, NoJob
  <2>2. CASE MatchNone(q) \/ RenewInBackground(q) \/ IssueAgain(q)
    BY <1>0, <2>1, <2>2 DEF MatchNone, RenewInBackground, IssueAgain, CauseInv, PendingIsOwn
  <2>3. CASE UNCHANGED <<job, todo>>
    BY <2>3 DEF CauseInv, PendingIsOwn
  <2> QED
    BY <1>3, <2>2, <2>3 DEF ReqStep, ServeCached, AnswerRenewing, AwaitRun, TailOwn, GoLookup,
       LookupOwner, TailTerminal, PollFound, Deadline, FinalSelect, LastError
<1>4. ASSUME NEW s \in Scans, ScanSelect(s) PROVE PendingIsOwn'
  <2>1. \A i \in LiveRows : ScanJob(i).pending = {}
    BY DEF ScanJob, RunArgs, NoJob
  <2> QED
    BY <1>0, <1>4, <2>1 DEF ScanSelect, CauseInv, PendingIsOwn
<1>5. ASSUME NEW s \in Scans, ScanNext(s) PROVE PendingIsOwn'
  BY <1>0, <1>5 DEF ScanNext, CauseInv, PendingIsOwn
<1>6. ASSUME NEW s \in Scans, EvictScan(s) PROVE PendingIsOwn'
  BY <1>0, <1>6 DEF EvictScan, CauseInv, PendingIsOwn
<1>7. CASE UNCHANGED <<job, todo>>
  BY <1>7 DEF CauseInv, PendingIsOwn
<1> QED
  BY <1>2, <1>3, <1>4, <1>5, <1>6, <1>7
     DEF Next, ScanStep, Environment, Age, DeleteRow, Lapse, EvictRequest, vars

(* The followed run is the owner of a lock of the request.                 *)
LEMMA FollowedStep ==
  ASSUME CauseInv, [Next]_vars
  PROVE  FollowedSharesAName'
<1>0. /\ via \in [Reqs -> Runs] /\ RunsStand /\ Domains \in [Reqs -> (SUBSET Names) \ {{}}]
  BY RunsStandStep, NamesAssumption DEF CauseInv, PlaceInv, TypeOK
<1>1. CASE UNCHANGED via
  BY <1>0, <1>1 DEF CauseInv, FollowedSharesAName, RunsStand
<1>2. ASSUME NEW q \in Reqs, NEW n \in Domains[q], Locks!Taken(locks, n),
             via' = [via EXCEPT ![q] = locks[n].owner]
      PROVE  FollowedSharesAName'
  <2>1. n \in Names
    BY <1>0
  <2>2. /\ locks[n].owner \in Runs /\ rpc[locks[n].owner] # "none"
        /\ n \in job[locks[n].owner].domains
    BY <1>2, <2>1 DEF CauseInv, LocksAreTheOwners
  <2>3. via'[q] = locks[n].owner /\ \A x \in Reqs \ {q} : via'[x] = via[x]
    BY <1>0, <1>2
  <2> QED
    BY <1>0, <2>2, <2>3 DEF CauseInv, FollowedSharesAName, RunsStand
<1> QED
  BY <1>1, <1>2
     DEF Next, RunStep, Fault, Throw, Purge, Refuse, PassCheck, InsertLock, Acquired, SelectRow,
     CreateRow, ReselectRow, AcmeIssues, AcmeFails, Store, Announce, Release, ReqStep, MatchNone,
     ServeCached, RenewInBackground, IssueAgain, AnswerRenewing, AwaitRun, TailOwn, GoLookup,
     LookupOwner, TailTerminal, PollFound, Deadline, FinalSelect, LastError, ScanStep, ScanSelect,
     ScanNext, Environment, Age, DeleteRow, Lapse, EvictRequest, EvictScan, asked, vars

(* An answer of failure is read off a failed event.                        *)
LEMMA FailureStep ==
  ASSUME CauseInv, [Next]_vars
  PROVE  FailuresAreCaused'
<1> USE DEF RunGoto, ReqGoto
<1> DEFINE Caused(q) == \E r \in Runs : events[r] = "failed" /\ job[r].domains \cap Domains[q] # {}
<1>0. /\ via \in [Reqs -> Runs] /\ RunsStand /\ Domains \in [Reqs -> (SUBSET Names) \ {{}}]
      /\ qpc \in [Reqs -> ReqPhases] /\ answer \in [Reqs -> AnswerType] /\ Reqs \subseteq Runs
      /\ rows \in [RowIds -> RowType]
  BY RunsStandStep, NamesAssumption DEF CauseInv, PlaceInv, TypeOK, Runs
<1>1. ASSUME NEW q \in Reqs, Caused(q) PROVE Caused(q)'
  <2> PICK r \in Runs : events[r] = "failed" /\ job[r].domains \cap Domains[q] # {}
    BY <1>1
  <2>1. rpc[r] # "none"
    BY DEF CauseInv, PlaceInv, EventsAreLast
  <2> QED
    BY <1>0, <2>1 DEF RunsStand
<1>2. ASSUME NEW q \in Reqs,
             answer'[q].status = "issueFailed" =>
               answer[q].status = "issueFailed" \/ events[via[q]] = "failed"
               \/ events[q] = "failed"
      PROVE  answer'[q].status = "issueFailed" => Caused(q)'
  <2>1. events[q] = "failed" => Caused(q)
    BY <1>0 DEF CauseInv, PlaceInv, EventsAreLast, OwnJob
  <2>2. events[via[q]] = "failed" => Caused(q)
    BY <1>0, <2>1 DEF CauseInv, FollowedSharesAName
  <2> QED
    BY <1>1, <1>2, <2>1, <2>2 DEF CauseInv, FailuresAreCaused
<1>3. \A st \in {"issueFailed", "retry", "crash"} : Failure(st).status = st
  BY DEF Failure, NoAnswer
<1>4. \A i : Answer("ok", i).status = "ok"
  BY DEF Answer
<1>5. \A q \in Reqs :
        answer'[q].status = "issueFailed" =>
          answer[q].status = "issueFailed" \/ events[via[q]] = "failed"
          \/ events[q] = "failed"
  <2>1. ASSUME NEW r \in Runs, RunStep(r) \/ Fault(r), NEW q \in Reqs,
               answer'[q].status = "issueFailed"
        PROVE  answer[q].status = "issueFailed"
    BY <1>0, <1>3, <2>1
       DEF RunStep, Fault, Throw, Purge, Refuse, PassCheck, InsertLock, Acquired, SelectRow,
       CreateRow, ReselectRow, AcmeIssues, AcmeFails, Store, Announce, Release, asked
  <2>2. ASSUME NEW x \in Reqs, ReqStep(x), NEW q \in Reqs,
               answer'[q].status = "issueFailed"
        PROVE  answer[q].status = "issueFailed" \/ events[via[q]] = "failed"
               \/ events[q] = "failed"
    <3>1. CASE q # x
      BY <1>0, <2>2, <3>1
         DEF ReqStep, MatchNone, ServeCached, RenewInBackground, IssueAgain, AnswerRenewing,
         AwaitRun, TailOwn, GoLookup, LookupOwner, TailTerminal, PollFound, Deadline, FinalSelect,
         LastError
    <3>2. CASE q = x /\ (AwaitRun(q) \/ LastError(q))
      BY <1>0, <1>3, <2>2, <3>2 DEF AwaitRun, LastError
    <3>3. CASE q = x /\ (ServeCached(q) \/ FinalSelect(q) \/ RenewInBackground(q))
      BY <1>0, <1>4, <2>2, <3>3 DEF ServeCached, FinalSelect, RenewInBackground
    <3>4. CASE q = x /\ (AnswerRenewing(q) \/ MatchNone(q) \/ IssueAgain(q) \/ TailOwn(q) \/ GoLookup(q)
                 \/ LookupOwner(q) \/ TailTerminal(q) \/ PollFound(q) \/ Deadline(q))
      BY <1>0, <2>2, <3>4 DEF AnswerRenewing, MatchNone, IssueAgain, TailOwn, GoLookup, LookupOwner, TailTerminal,
         PollFound, Deadline
    <3> QED
      BY <2>2, <3>1, <3>2, <3>3, <3>4 DEF ReqStep
  <2>3. ASSUME NEW x \in Reqs, EvictRequest(x), NEW q \in Reqs PROVE answer' = answer
    BY <1>0, <2>3 DEF EvictRequest
  <2>4. CASE UNCHANGED asked
    BY <2>4 DEF asked
  <2> QED
    BY <2>1, <2>2, <2>3, <2>4
       DEF Next, ScanStep, ScanSelect, ScanNext, Environment, Age, DeleteRow, Lapse, EvictScan, vars
<1> QED
  BY <1>2, <1>5 DEF FailuresAreCaused

(* "issuance failed" is only answered when the request's own run, or one   *)
(* that held one of its names, has failed, however many runs there are.    *)
THEOREM FailuresHaveCauses == Spec => []FailureHasACause
<1>1. Init => CauseInv
  <2> SUFFICES ASSUME Init PROVE CauseInv
    OBVIOUS
  <2>1. LocksAreTheOwners
    BY DEF Init, LocksAreTheOwners, Locks!Taken, Locks!Empty, Locks!Absent
  <2>2. PendingIsOwn
    BY DEF Init, PendingIsOwn, NoJob
  <2>3. FollowedSharesAName /\ FailuresAreCaused
    BY DEF Init, FollowedSharesAName, FailuresAreCaused, NoAnswer
  <2> QED
    BY <2>1, <2>2, <2>3, InitPlace DEF CauseInv
<1>2. CauseInv /\ [Next]_vars => CauseInv'
  BY PlaceStep, LocksStep, PendingStep, FollowedStep, FailureStep DEF CauseInv
<1>3. CauseInv => FailureHasACause
  BY DEF CauseInv, FailuresAreCaused, FailureHasACause
<1> QED
  BY <1>1, <1>2, <1>3, PTL DEF Spec

-----------------------------------------------------------------------------
(***************************************************************************)
(* What completed means.  A job's row was inserted before, rows are never  *)
(* inserted twice, and a row that has a certificate keeps one until it is  *)
(* deleted; so an UPDATE that finds no live row finds a deleted one.       *)
(***************************************************************************)
InUse(t, i) == i \in RowIds /\ t[i].state # "unused"
Holds(t, i) == t[i].state = "deleted" \/ t[i].cert # {}

JobsHaveRows ==
  /\ \A r \in Runs : job[r].row # 0 => InUse(rows, job[r].row)
  /\ \A r \in Runs : rpc[r] \in {"acme", "store", "completed"} => job[r].row # 0
  /\ \A s \in Scans : \A j \in todo[s] : InUse(rows, j.row)

CompletedHolds ==
  \A r \in Runs : rpc[r] = "completed" \/ events[r] = "completed" =>
    job[r].row # 0 /\ Holds(rows, job[r].row)

StoredInv == PromiseInv /\ JobsHaveRows /\ CompletedHolds

(* No row is unused again, and none loses its certificate but by deletion. *)
RowsStand == \A i \in RowIds : InUse(rows, i) => InUse(rows', i) /\ (Holds(rows, i) => Holds(rows', i))

LEMMA RowsStandStep == PromiseInv /\ [Next]_vars => RowsStand
<1> SUFFICES ASSUME PromiseInv, [Next]_vars PROVE RowsStand
  OBVIOUS
<1> USE DEF InUse, Holds
<1>0. rows \in [RowIds -> RowType] /\ job \in [Runs -> JobType]
  BY DEF PromiseInv, CoverInv, PlaceInv, TypeOK
<1>1. CASE UNCHANGED rows
  BY <1>1 DEF RowsStand
<1>2. ASSUME NEW i \in RowIds, NextRow(i), NEW new, rows' = [rows EXCEPT ![i] = new] PROVE RowsStand
  BY <1>0, <1>2 DEF NextRow, RowsStand
<1>3. ASSUME NEW r \in Runs, Store(r) PROVE RowsStand
  <2>1. job[r].cert # {}
    <3>1. CoversAll(job[r].cert, job[r].domains) /\ job[r].domains # {}
      BY <1>3 DEF Store, PromiseInv, CoverInv, StoresCover, NothingNameless
    <3> QED
      BY <3>1 DEF CoversAll
  <2>2. ASSUME NEW past \in BOOLEAN,
               rows' = [rows EXCEPT ![job[r].row] =
                 IssuedRow(job[r].hash, job[r].domains, job[r].csr, job[r].cert, past)]
        PROVE  RowsStand
    BY <1>0, <2>1, <2>2 DEF IssuedRow, RowsStand
  <2> QED
    BY <1>1, <1>3, <2>2 DEF Store
<1>4. ASSUME NEW i \in RowIds, Age(i) PROVE RowsStand
  BY <1>0, <1>4 DEF Age, RowType, RowsStand
<1>5. ASSUME NEW i \in RowIds, DeleteRow(i) PROVE RowsStand
  BY <1>0, <1>5 DEF DeleteRow, GoneRow, NoRow, RowsStand
<1> QED
  BY <1>1, <1>2, <1>3, <1>4, <1>5
     DEF Next, RunStep, Fault, Throw, Purge, Refuse, PassCheck, InsertLock, Acquired, SelectRow,
     CreateRow, ReselectRow, AcmeIssues, AcmeFails, Announce, Release, ReqStep, MatchNone,
     ServeCached, RenewInBackground, IssueAgain, AnswerRenewing, AwaitRun, TailOwn, GoLookup,
     LookupOwner, TailTerminal, PollFound, Deadline, FinalSelect, LastError, ScanStep, ScanSelect,
     ScanNext, Environment, Lapse, EvictRequest, EvictScan, vars

(* A run stores, and announces, only what is in its row.                   *)
LEMMA RunKeepsStored ==
  ASSUME StoredInv, NEW r \in Runs, RunStep(r) \/ Fault(r)
  PROVE  JobsHaveRows' /\ CompletedHolds'
<1> USE DEF RunGoto
<1>0. /\ TypeOK /\ rows \in [RowIds -> RowType] /\ job \in [Runs -> JobType]
      /\ rpc \in [Runs -> RunPhases] /\ RowsStand
      /\ events \in [Runs -> {"none", "completed", "failed"}]
  BY RowsStandStep DEF StoredInv, PromiseInv, CoverInv, PlaceInv, TypeOK, Next, Environment
<1>1. /\ \A x \in Runs \ {r} : job'[x] = job[x] /\ rpc'[x] = rpc[x] /\ events'[x] = events[x]
      /\ todo' = todo
  <2>1. todo' = todo
    BY DEF RunStep, Fault, Throw, Purge, Refuse, PassCheck, InsertLock, Acquired, SelectRow,
       CreateRow, ReselectRow, AcmeIssues, AcmeFails, Store, Announce, Release
  <2> QED
    BY <1>0, <2>1, RunKeepsItsTask
<1>2. ASSUME job'[r].row # 0 => InUse(rows', job'[r].row),
             rpc'[r] \in {"acme", "store", "completed"} => job'[r].row # 0,
             rpc'[r] = "completed" \/ events'[r] = "completed" => job'[r].row # 0 /\ Holds(rows', job'[r].row)
      PROVE  JobsHaveRows' /\ CompletedHolds'
  <2>1. \A x \in Runs \ {r} :
          /\ job[x].row # 0 => InUse(rows', job[x].row)
          /\ Holds(rows, job[x].row) /\ job[x].row # 0 => Holds(rows', job[x].row)
    BY <1>0 DEF StoredInv, JobsHaveRows, RowsStand, InUse
  <2>2. \A s \in Scans : \A j \in todo[s] : InUse(rows', j.row)
    BY <1>0 DEF StoredInv, JobsHaveRows, RowsStand, InUse
  <2>3. CompletedHolds'
    BY <1>1, <1>2, <2>1 DEF StoredInv, CompletedHolds
  <2> QED
    BY <1>1, <1>2, <2>1, <2>2, <2>3 DEF StoredInv, JobsHaveRows
<1>3. job[r].row # 0 => InUse(rows', job[r].row) /\ (Holds(rows, job[r].row) => Holds(rows', job[r].row))
  BY <1>0 DEF StoredInv, JobsHaveRows, RowsStand, InUse
<1>4. rpc[r] \in {"acme", "store", "completed"} => job[r].row # 0
  BY DEF StoredInv, JobsHaveRows
<1>5. rpc[r] = "completed" \/ events[r] = "completed" => job[r].row # 0 /\ Holds(rows, job[r].row)
  BY DEF StoredInv, CompletedHolds
<1>6. events[r] # "none" => rpc[r] \in {"release", "ended", "broken", "killed"}
  BY DEF StoredInv, PromiseInv, CoverInv, PlaceInv, EventsAreLast
<1>7. CASE Purge(r) \/ Refuse(r) \/ Acquired(r) \/ AcmeFails(r) \/ Release(r) \/ Fault(r)
  BY <1>0, <1>2, <1>3, <1>4, <1>5, <1>6, <1>7
     DEF Purge, Refuse, Acquired, AcmeFails, Release, Fault, Throw
<1>8. CASE Announce(r, "completed") \/ Announce(r, "failed")
  BY <1>0, <1>2, <1>3, <1>4, <1>5, <1>8 DEF Announce
<1>9. CASE PassCheck(r) \/ InsertLock(r) \/ AcmeIssues(r)
  <2>1. job'[r].row = job[r].row
    BY <1>0, <1>9 DEF PassCheck, InsertLock, AcmeIssues, JobType
  <2> QED
    BY <1>0, <1>2, <1>3, <1>4, <1>5, <1>6, <1>9, <2>1 DEF PassCheck, InsertLock, AcmeIssues
<1>10. CASE SelectRow(r) \/ ReselectRow(r)
  <2>1. ASSUME NEW i \in ByHash(job[r].hash), job' = [job EXCEPT ![r].row = i],
               rpc' = [rpc EXCEPT ![r] = "acme"], UNCHANGED <<rows, events>>,
               rpc[r] \in {"select", "reselect"}
        PROVE  JobsHaveRows' /\ CompletedHolds'
    <3>1. i \in RowIds /\ i # 0 /\ rows[i].state = "live"
      BY DEF ByHash, LiveRows, RowIds
    <3>2. job'[r].row = i
      BY <1>0, <2>1 DEF JobType
    <3> QED
      BY <1>0, <1>2, <1>6, <2>1, <3>1, <3>2 DEF InUse
  <2>2. CASE UNCHANGED job /\ rpc'[r] \in {"create", "killed"} /\ UNCHANGED <<rows, events>>
             /\ rpc[r] \in {"select", "reselect"}
    BY <1>2, <1>3, <1>6, <2>2
  <2> QED
    BY <1>0, <1>10, <2>1, <2>2 DEF SelectRow, ReselectRow, Throw
<1>11. CASE CreateRow(r)
  <2>1. ASSUME NEW i \in RowIds, rows' = [rows EXCEPT ![i] = NewRow(job[r].hash, job[r].domains)],
               job' = [job EXCEPT ![r].row = i], rpc' = [rpc EXCEPT ![r] = "acme"],
               UNCHANGED events, rpc[r] = "create"
        PROVE  JobsHaveRows' /\ CompletedHolds'
    <3>1. i # 0 /\ rows'[i].state = "live"
      BY <1>0, <2>1 DEF NewRow, NoRow, RowIds
    <3>2. job'[r].row = i
      BY <1>0, <2>1 DEF JobType
    <3> QED
      BY <1>0, <1>2, <1>6, <2>1, <3>1, <3>2 DEF InUse
  <2>2. CASE UNCHANGED <<job, rows, events>> /\ rpc' = [rpc EXCEPT ![r] = "reselect"] /\ rpc[r] = "create"
    BY <1>0, <1>2, <1>3, <1>6, <2>2
  <2> QED
    BY <1>11, <2>1, <2>2 DEF CreateRow
<1>12. CASE Store(r)
  <2>1. job[r].row \in RowIds /\ rows[job[r].row].state # "unused" /\ job' = job /\ events' = events
        /\ events[r] = "none" /\ job[r].row # 0
    BY <1>4, <1>6, <1>12 DEF Store, StoredInv, JobsHaveRows, InUse, Acquiring
  <2>2. CASE rows[job[r].row].state # "live" /\ UNCHANGED rows
    <3>1. rows[job[r].row].state = "deleted"
      BY <1>0, <2>1, <2>2 DEF RowType
    <3> QED
      BY <1>2, <1>3, <2>1, <2>2, <3>1 DEF Holds
  <2>3. ASSUME NEW past \in BOOLEAN,
               rows' = [rows EXCEPT ![job[r].row] =
                 IssuedRow(job[r].hash, job[r].domains, job[r].csr, job[r].cert, past)]
        PROVE  JobsHaveRows' /\ CompletedHolds'
    <3>1. CoversAll(job[r].cert, job[r].domains) /\ job[r].domains # {}
      BY <1>12 DEF Store, StoredInv, PromiseInv, CoverInv, StoresCover, NothingNameless
    <3>2. rows'[job[r].row].cert # {}
      BY <1>0, <2>1, <2>3, <3>1 DEF IssuedRow, CoversAll
    <3> QED
      BY <1>2, <1>3, <2>1, <3>2 DEF Holds
  <2>4. CASE UNCHANGED rows /\ rpc' = [rpc EXCEPT ![r] = "failed"]
    BY <1>0, <1>2, <1>3, <2>1, <2>4
  <2> QED
    BY <1>12, <2>2, <2>3, <2>4 DEF Store
<1> QED
  BY <1>7, <1>8, <1>9, <1>10, <1>11, <1>12 DEF RunStep

(* Requests and scans start their runs with a row there is, or with none.  *)
LEMMA OthersKeepStored ==
  ASSUME StoredInv,
         (\E q \in Reqs : ReqStep(q)) \/ (\E s \in Scans : ScanStep(s))
           \/ Environment \/ UNCHANGED vars
  PROVE  JobsHaveRows' /\ CompletedHolds'
<1> USE DEF RunGoto
<1>0. /\ TypeOK /\ rows \in [RowIds -> RowType] /\ job \in [Runs -> JobType]
      /\ rpc \in [Runs -> RunPhases] /\ RowsStand /\ Reqs \subseteq Runs
      /\ todo \in [Scans -> SUBSET JobType]
  BY RowsStandStep DEF StoredInv, PromiseInv, CoverInv, PlaceInv, TypeOK, Next, Runs
<1>1. \A i \in RowIds : InUse(rows, i) => InUse(rows', i)
  BY <1>0 DEF RowsStand
<1>2. ASSUME UNCHANGED events,
             \A x \in Runs : job'[x] = job[x] /\ (rpc'[x] = rpc[x] \/ rpc'[x] = "killed"),
             \A s \in Scans : todo'[s] \subseteq todo[s]
      PROVE  JobsHaveRows' /\ CompletedHolds'
  <2>1. JobsHaveRows'
    BY <1>1, <1>2 DEF StoredInv, JobsHaveRows, InUse
  <2>2. CompletedHolds'
    BY <1>0, <1>2 DEF StoredInv, JobsHaveRows, CompletedHolds, RowsStand, InUse
  <2> QED
    BY <2>1, <2>2
<1>3. ASSUME NEW x \in Runs, NEW j, rpc[x] = "none", UNCHANGED <<rows, events>>,
             job' = [job EXCEPT ![x] = j], rpc' = [rpc EXCEPT ![x] = "purge"],
             j.row # 0 => InUse(rows, j.row), \A s \in Scans : todo'[s] \subseteq todo[s]
      PROVE  JobsHaveRows' /\ CompletedHolds'
  <2>1. events[x] = "none"
    BY <1>3 DEF StoredInv, PromiseInv, CoverInv, PlaceInv, EventsAreLast
  <2>2. job'[x] = j /\ rpc'[x] = "purge" /\ \A y \in Runs \ {x} : job'[y] = job[y] /\ rpc'[y] = rpc[y]
    BY <1>0, <1>3
  <2>3. JobsHaveRows'
    BY <1>3, <2>2 DEF StoredInv, JobsHaveRows, InUse
  <2>4. CompletedHolds'
    BY <1>3, <2>1, <2>2 DEF StoredInv, CompletedHolds, Holds
  <2> QED
    BY <2>3, <2>4
<1>4. ASSUME NEW q \in Reqs, ReqStep(q) PROVE JobsHaveRows' /\ CompletedHolds'
  <2>1. \A i, csr : RunArgs(i, Domains[q], Domains[q], csr).row = i
    BY DEF RunArgs, NoJob
  <2>2. CASE MatchNone(q) \/ IssueAgain(q)
    BY <1>0, <1>3, <2>1, <2>2 DEF MatchNone, IssueAgain
  <2>3. CASE RenewInBackground(q)
    <3> PICK i \in PickBestCert(Domains[q]) :
          job' = [job EXCEPT ![q] = RunArgs(i, Domains[q], Domains[q], rows[i].csr)]
      BY <2>3 DEF RenewInBackground
    <3>1. InUse(rows, i)
      BY BestIsLive DEF LiveRows, InUse
    <3> DEFINE j == RunArgs(i, Domains[q], Domains[q], rows[i].csr)
    <3>2. j.row # 0 => InUse(rows, j.row)
      BY <2>1, <3>1
    <3>3. /\ rpc[q] = "none" /\ rpc' = [rpc EXCEPT ![q] = "purge"]
          /\ job' = [job EXCEPT ![q] = j] /\ UNCHANGED <<rows, events, todo>>
      BY <2>3 DEF RenewInBackground
    <3> HIDE DEF j
    <3> QED
      BY <1>0, <1>3, <3>2, <3>3
  <2>4. CASE UNCHANGED <<events, rpc, job, todo>>
    BY <1>2, <2>4
  <2> QED
    BY <1>4, <2>2, <2>3, <2>4 DEF ReqStep, ServeCached, AnswerRenewing, AwaitRun, TailOwn, GoLookup,
       LookupOwner, TailTerminal, PollFound, Deadline, FinalSelect, LastError
<1>5. ASSUME NEW s \in Scans, ScanSelect(s) PROVE JobsHaveRows' /\ CompletedHolds'
  <2>1. \A i \in LiveRows : ScanJob(i).row = i /\ InUse(rows, i)
    BY DEF ScanJob, RunArgs, NoJob, LiveRows, InUse
  <2>2. \A x \in Scans : \A j \in todo'[x] : InUse(rows, j.row)
    BY <1>0, <1>5, <2>1 DEF ScanSelect, StoredInv, JobsHaveRows
  <2> QED
    BY <1>5, <2>2 DEF ScanSelect, StoredInv, JobsHaveRows, CompletedHolds, InUse, Holds
<1>6. ASSUME NEW s \in Scans, ScanNext(s) PROVE JobsHaveRows' /\ CompletedHolds'
  <2> PICK j \in todo[s] : /\ rpc[<<s, j.row>>] = "none"
                           /\ rpc' = [rpc EXCEPT ![<<s, j.row>>] = "purge"]
                           /\ job' = [job EXCEPT ![<<s, j.row>>] = j]
                           /\ todo' = [todo EXCEPT ![s] = @ \ {j}]
    BY <1>6 DEF ScanNext
  <2>1. InUse(rows, j.row) /\ <<s, j.row>> \in Runs
    BY DEF StoredInv, JobsHaveRows, InUse, Runs
  <2>2. \A x \in Scans : todo'[x] \subseteq todo[x]
    BY <1>0
  <2> QED
    BY <1>3, <1>6, <2>1, <2>2 DEF ScanNext
<1>7. ASSUME NEW r \in Runs, Fault(r) PROVE JobsHaveRows' /\ CompletedHolds'
  BY <1>7, RunKeepsStored
<1>8. ASSUME NEW q \in Reqs, EvictRequest(q) PROVE JobsHaveRows' /\ CompletedHolds'
  BY <1>0, <1>2, <1>8 DEF EvictRequest
<1>9. ASSUME NEW s \in Scans, EvictScan(s) PROVE JobsHaveRows' /\ CompletedHolds'
  BY <1>0, <1>2, <1>9 DEF EvictScan
<1>10. CASE UNCHANGED <<events, rpc, job, todo>>
  BY <1>2, <1>10
<1> QED
  BY <1>4, <1>5, <1>6, <1>7, <1>8, <1>9, <1>10
     DEF ScanStep, Environment, Age, DeleteRow, Lapse, vars

LEMMA StoredInvariant == Spec => []StoredInv
<1>1. Init => JobsHaveRows /\ CompletedHolds
  BY DEF Init, JobsHaveRows, CompletedHolds, NoJob
<1>2. StoredInv /\ [Next]_vars => JobsHaveRows' /\ CompletedHolds'
  BY RunKeepsStored, OthersKeepStored DEF Next
<1>3. PromiseInv /\ JobsHaveRows /\ CompletedHolds <=> StoredInv
  BY DEF StoredInv
<1> QED
  BY <1>1, <1>2, <1>3, PromiseInvariant, PTL DEF Spec

(* Whoever tails completed finds the certificate in the run's row, or the  *)
(* row deleted, whatever else was written to the row in between.           *)
THEOREM CompletedIsStored == Spec => []CompletedImpliesStored
<1>1. StoredInv => CompletedImpliesStored
  BY DEF StoredInv, CompletedHolds, Holds, CompletedImpliesStored
<1> QED
  BY <1>1, StoredInvariant, PTL

-----------------------------------------------------------------------------
(***************************************************************************)
(* Success is not lost.  A request without SSE looks for its certificate,  *)
(* or is told of a failure, when its run has nothing left to do.           *)
(***************************************************************************)
Over == {"refused", "ended", "broken", "killed"}

RunsAreOver ==
  \A q \in Reqs \ Sse :
    qpc[q] \in {"owner", "poll", "tail", "final"} \/ GoneWithout(q) => rpc[q] \in Over

(* By an exception before runIssue, by a search in vain, by the outcome of  *)
(* its run: there is no other way to go without.                            *)
LEMMA WaysToGoWithout ==
  ASSUME PromiseInv, [Next]_vars, NEW q \in Reqs, ~GoneWithout(q), GoneWithout(q)'
  PROVE  \/ rpc[q] \in Acquiring /\ rpc'[q] = "killed" /\ UNCHANGED events
         \/ /\ qpc[q] = "final" /\ UNCHANGED <<rows, rpc, events>>
            /\ \A i \in ByHash(Domains[q]) : rows[i].cert = {}
         \/ /\ UNCHANGED <<rows, rpc, events>>
            /\ rpc[q] = "broken" \/ (rpc[q] = "ended" /\ events[q] # "completed")
<1> USE DEF RunGoto, ReqGoto
<1>0. /\ rpc \in [Runs -> RunPhases] /\ Reqs \subseteq Runs
      /\ qpc \in [Reqs -> ReqPhases] /\ answer \in [Reqs -> AnswerType]
  BY DEF PromiseInv, CoverInv, PlaceInv, TypeOK, Runs
<1>1. ~(qpc'[q] = qpc[q] /\ answer'[q] = answer[q])
  BY DEF GoneWithout
<1>2. ASSUME NEW r \in Runs, RunStep(r) \/ Fault(r) PROVE rpc[q] \in Acquiring /\ rpc'[q] = "killed" /\ UNCHANGED events
  <2>1. ASSUME NEW from \in SUBSET Acquiring, Throw(r, from)
        PROVE  rpc[q] \in Acquiring /\ rpc'[q] = "killed"
    BY <1>0, <1>1, <2>1 DEF Throw, asked
  <2>2. Throw(r, {"reselect"}) \/ Throw(r, Acquiring)
    BY <1>1, <1>2 DEF RunStep, Fault, Purge, Refuse, PassCheck, InsertLock, Acquired, SelectRow, CreateRow,
       ReselectRow, AcmeIssues, AcmeFails, Store, Announce, Release, asked, Acquiring
  <2>3. rpc[r] \in Acquiring
    BY <2>2 DEF Throw, Acquiring
  <2>4. UNCHANGED events
    BY <1>2, <2>3 DEF RunStep, Fault, Purge, Refuse, PassCheck, InsertLock, Acquired, SelectRow, CreateRow,
       ReselectRow, AcmeIssues, AcmeFails, Store, Announce, Release, Acquiring
  <2> QED
    BY <2>1, <2>2, <2>4 DEF Acquiring
<1>3. ASSUME NEW p \in Reqs, ReqStep(p)
      PROVE  \/ /\ qpc[q] = "final" /\ UNCHANGED <<rows, rpc, events>>
                /\ \A i \in ByHash(Domains[q]) : rows[i].cert = {}
             \/ /\ UNCHANGED <<rows, rpc, events>>
                /\ rpc[q] = "broken" \/ (rpc[q] = "ended" /\ events[q] # "completed")
  <2>1. p = q
    BY <1>0, <1>1, <1>3 DEF ReqStep, MatchNone, ServeCached, RenewInBackground, IssueAgain,
       AnswerRenewing, AwaitRun, TailOwn, GoLookup, LookupOwner, TailTerminal, PollFound, Deadline,
       FinalSelect, LastError
  <2>2. \A i : Answer("ok", i).status = "ok"
    BY DEF Answer
  <2>3. ~(ServeCached(q) \/ AnswerRenewing(q) \/ LastError(q))
    BY <1>0, <2>2 DEF ServeCached, AnswerRenewing, LastError, GoneWithout, PromiseInv, RunsAreAwaited
  <2>4. ~(MatchNone(q) \/ RenewInBackground(q) \/ IssueAgain(q) \/ TailOwn(q) \/ GoLookup(q)
          \/ LookupOwner(q) \/ TailTerminal(q) \/ PollFound(q) \/ Deadline(q))
    BY <1>0 DEF MatchNone, RenewInBackground, IssueAgain, TailOwn, GoLookup, LookupOwner, TailTerminal,
       PollFound, Deadline, GoneWithout
  <2>5. CASE AwaitRun(q)
    BY <1>0, <2>5 DEF AwaitRun, GoneWithout
  <2>6. CASE FinalSelect(q)
    BY <1>0, <2>2, <2>6 DEF FinalSelect, GoneWithout
  <2> QED
    BY <1>3, <2>1, <2>3, <2>4, <2>5, <2>6 DEF ReqStep
<1>4. ASSUME NEW p \in Reqs, EvictRequest(p) PROVE FALSE
  BY <1>0, <1>4 DEF EvictRequest, GoneWithout
<1> QED
  BY <1>1, <1>2, <1>3, <1>4
     DEF Next, ScanStep, ScanSelect, ScanNext, Environment, Age, DeleteRow, Lapse, EvictScan, vars, asked

(* A run that is over stays so; a request starts to look for what others    *)
(* issue, or for its certificate, when its run is over.                     *)
LEMMA RunsStayOver ==
  ASSUME PromiseInv, RunsAreOver, [Next]_vars
  PROVE  RunsAreOver'
<1> USE DEF RunGoto, ReqGoto
<1>0. /\ rpc \in [Runs -> RunPhases] /\ Reqs \subseteq Runs /\ qpc \in [Reqs -> ReqPhases]
      /\ job \in [Runs -> JobType] /\ todo \in [Scans -> SUBSET JobType]
  BY DEF PromiseInv, CoverInv, PlaceInv, TypeOK, Runs
<1>1. ASSUME NEW q \in Reqs, rpc[q] \in Over PROVE rpc'[q] \in Over
  <2>1. ASSUME NEW r \in Runs, RunStep(r) \/ Fault(r) PROVE rpc'[q] \in Over
    BY <1>0, <1>1, <2>1 DEF RunStep, Fault, Throw, Purge, Refuse, PassCheck, InsertLock, Acquired,
       SelectRow, CreateRow, ReselectRow, AcmeIssues, AcmeFails, Store, Announce, Release, Over
  <2>2. ASSUME NEW p \in Reqs, ReqStep(p) PROVE rpc'[q] \in Over
    BY <1>0, <1>1, <2>2 DEF ReqStep, MatchNone, ServeCached, RenewInBackground, IssueAgain,
       AnswerRenewing, AwaitRun, TailOwn, GoLookup, LookupOwner, TailTerminal, PollFound, Deadline,
       FinalSelect, LastError, Over
  <2>3. ASSUME NEW s \in Scans, ScanNext(s) PROVE rpc'[q] \in Over
    BY <1>0, <1>1, <2>3 DEF ScanNext, Over
  <2>4. ASSUME NEW p \in Reqs, EvictRequest(p) PROVE rpc'[q] \in Over
    BY <1>0, <1>1, <2>4 DEF EvictRequest, Over
  <2>5. ASSUME NEW s \in Scans, EvictScan(s) PROVE rpc'[q] \in Over
    BY <1>0, <1>1, <2>5 DEF EvictScan, Over
  <2> QED
    BY <1>1, <2>1, <2>2, <2>3, <2>4, <2>5
       DEF Next, ScanStep, ScanSelect, Environment, Age, DeleteRow, Lapse, vars
<1>2. ASSUME NEW q \in Reqs \ Sse, GoneWithout(q)' PROVE rpc'[q] \in Over
  <2>1. CASE GoneWithout(q)
    BY <1>1, <2>1 DEF RunsAreOver
  <2>2. CASE ~GoneWithout(q)
    <3>1. rpc'[q] = "killed" \/ (qpc[q] = "final" /\ UNCHANGED rpc)
            \/ (UNCHANGED rpc /\ rpc[q] \in Over)
      BY <1>2, <2>2, WaysToGoWithout DEF Over
    <3> QED
      BY <3>1 DEF RunsAreOver, Over
  <2> QED
    BY <2>1, <2>2
<1>3. ASSUME NEW q \in Reqs \ Sse, qpc'[q] \in {"owner", "poll", "tail", "final"} PROVE rpc'[q] \in Over
  <2>1. CASE qpc[q] \in {"owner", "poll", "tail", "final"}
    BY <1>1, <2>1 DEF RunsAreOver
  <2>2. CASE qpc[q] \notin {"owner", "poll", "tail", "final"}
    <3>1. ASSUME NEW p \in Reqs, ReqStep(p) PROVE UNCHANGED rpc /\ rpc[q] \in Over
      BY <1>0, <1>3, <2>2, <3>1 DEF ReqStep, MatchNone, ServeCached, RenewInBackground, IssueAgain,
         AnswerRenewing, AwaitRun, TailOwn, GoLookup, LookupOwner, TailTerminal, PollFound, Deadline,
         FinalSelect, LastError, Over
    <3>2. ASSUME NEW r \in Runs, RunStep(r) \/ Fault(r) PROVE FALSE
      BY <1>0, <1>3, <2>2, <3>2 DEF RunStep, Fault, Throw, Purge, Refuse, PassCheck, InsertLock,
         Acquired, SelectRow, CreateRow, ReselectRow, AcmeIssues, AcmeFails, Store, Announce,
         Release, asked
    <3>3. ASSUME NEW p \in Reqs, EvictRequest(p) PROVE FALSE
      BY <1>0, <1>3, <2>2, <3>3 DEF EvictRequest
    <3> QED
      BY <1>3, <2>2, <3>1, <3>2, <3>3
         DEF Next, ScanStep, ScanSelect, ScanNext, Environment, Age, DeleteRow, Lapse, EvictScan, vars, asked
  <2> QED
    BY <2>1, <2>2
<1> QED
  BY <1>2, <1>3 DEF RunsAreOver

(* Only Announce appends completed, at the end of a run that is not over.   *)
LEMMA CompletedIsAnnounced ==
  ASSUME PromiseInv, [Next]_vars, NEW q \in Runs, events[q] # "completed", events'[q] = "completed"
  PROVE  rpc[q] = "completed" /\ UNCHANGED <<qpc, answer>>
<1>0. events \in [Runs -> {"none", "completed", "failed"}]
  BY DEF PromiseInv, CoverInv, PlaceInv, TypeOK
<1>1. ASSUME NEW r \in Runs, RunStep(r) \/ Fault(r) PROVE Announce(q, "completed")
  BY <1>0, <1>1 DEF RunStep, Fault, Throw, Purge, Refuse, PassCheck, InsertLock, Acquired, SelectRow,
     CreateRow, ReselectRow, AcmeIssues, AcmeFails, Store, Announce, Release
<1>2. ASSUME NEW p \in Reqs, ReqStep(p) PROVE FALSE
  BY <1>2 DEF ReqStep, MatchNone, ServeCached, RenewInBackground, IssueAgain, AnswerRenewing, AwaitRun,
     TailOwn, GoLookup, LookupOwner, TailTerminal, PollFound, Deadline, FinalSelect, LastError
<1>3. Announce(q, "completed")
  BY <1>1, <1>2 DEF Next, ScanStep, ScanSelect, ScanNext, Environment, Age, DeleteRow, Lapse,
     EvictRequest, EvictScan, vars
<1> QED
  BY <1>3 DEF Announce, RunGoto

(* No request whose run completes goes without its certificate, unless at   *)
(* that moment the row is deleted, or for other names, or was not released. *)
THEOREM SuccessIsServed == Spec => OwnSuccessIsServed
<1> DEFINE Unserved(q) == GoneWithout(q) /\ events[q] = "completed"
           Excused(q) == \/ rows'[job[q].row].state = "deleted"
                         \/ rows'[job[q].row].hash # Domains[q]
                         \/ rpc'[q] = "broken"
           Served == \A q \in Reqs \ Sse : ~Unserved(q) /\ Unserved(q)' => Excused(q)
<1>1. Init => RunsAreOver
  BY DEF Init, RunsAreOver, GoneWithout
<1>2. StoredInv /\ RunsAreOver /\ [Next]_vars => RunsAreOver'
  BY RunsStayOver DEF StoredInv
<1>3. StoredInv /\ RunsAreOver /\ [Next]_vars => [Served]_vars
  <2> SUFFICES ASSUME StoredInv, RunsAreOver, [Next]_vars, NEW q \in Reqs \ Sse,
                      ~Unserved(q), Unserved(q)'
               PROVE  Excused(q)
    OBVIOUS
  <2>0. PromiseInv /\ q \in Runs /\ rows \in [RowIds -> RowType]
    BY DEF StoredInv, PromiseInv, CoverInv, PlaceInv, TypeOK, Runs
  <2>1. CASE events[q] # "completed"
    BY <2>0, <2>1, CompletedIsAnnounced DEF GoneWithout, RunsAreOver, Over
  <2>2. CASE events[q] = "completed"
    <3>1. rpc[q] \notin Acquiring
      BY <2>0, <2>2 DEF PromiseInv, CoverInv, PlaceInv, EventsAreLast, Acquiring
    <3>2. \/ UNCHANGED rows /\ \A i \in ByHash(Domains[q]) : rows[i].cert = {}
          \/ rpc'[q] = "broken"
      BY <2>0, <2>2, <3>1, WaysToGoWithout
    <3>3. job[q].row \in RowIds /\ Holds(rows, job[q].row) /\ rows[job[q].row].state # "unused"
      BY <2>0, <2>2 DEF StoredInv, CompletedHolds, JobsHaveRows, InUse
    <3>4. rows[job[q].row].state \in {"live", "deleted"}
      BY <2>0, <3>3 DEF RowType
    <3> QED
      BY <3>2, <3>3, <3>4 DEF ByHash, LiveRows, Holds
  <2> QED
    BY <2>1, <2>2
<1>4. [][Served]_vars => OwnSuccessIsServed
  BY PTL DEF OwnSuccessIsServed
<1> QED
  BY <1>1, <1>2, <1>3, <1>4, StoredInvariant, PTL DEF Spec
=============================================================================
