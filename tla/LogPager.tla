------------------------------ MODULE LogPager ------------------------------
(***************************************************************************)
(* The log page (LogPage.vue) over the table of logs (logs/service.ts).    *)
(* Rows are only ever added, and not always in the order of their ids: an  *)
(* id is taken before its INSERT, which runs after the response.  The      *)
(* server counts the rows and then selects a page of them, newest first.   *)
(* A page may be asked for while another call is under way, and whichever  *)
(* answer comes is shown.                                                  *)
(***************************************************************************)
EXTENDS Integers, FiniteSets, FiniteSetsExt

CONSTANTS
  Limit,   \* rows of a page
  MaxLogs  \* bound: ids ever taken

ASSUME LimitAssumption == Limit \in Nat \ {0} /\ MaxLogs \in Nat

Logs == 1..MaxLogs  \* ids in the order they were taken

VARIABLES
  logs,        \* the rows
  writing,     \* ids taken by requests whose INSERT is still to come
  pageNo,      \* the page asked for
  request,     \* the call made last, while it is under way
  earlier,     \* one made before it that is under way as well
  shown,       \* the rows on the screen
  totalPages,  \* as of the answer on the screen
  walk         \* history: the rows there were when page 1 was read, those
               \* shown since, and whether each page was waited for

logVars == <<logs, writing, pageNo, request, earlier, shown, totalPages, walk>>

NoRequest == [at |-> "none", page |-> 0, total |-> 0, rows |-> {}]
NoWalk    == [there |-> {}, met |-> {}, steady |-> FALSE, raced |-> FALSE]

PagerTypeOK ==
  /\ logs \subseteq Logs /\ writing \subseteq Logs
  /\ pageNo \in 1..MaxLogs + 1 /\ totalPages \in 0..MaxLogs /\ shown \subseteq logs
  /\ {request, earlier} \subseteq
       [at : {"none", "sent", "counted", "selected"}, page : 0..MaxLogs + 1,
        total : 0..MaxLogs, rows : SUBSET Logs]
  /\ walk \in [there : SUBSET Logs, met : SUBSET Logs, steady : BOOLEAN, raced : BOOLEAN]

PagerInit ==
  /\ logs \in {1..n : n \in 0..MaxLogs} /\ writing = {}
  /\ pageNo = 1 /\ request = [NoRequest EXCEPT !.at = "sent", !.page = 1]
  /\ earlier = NoRequest
  /\ shown = {} /\ totalPages = 0
  /\ walk = [NoWalk EXCEPT !.steady = TRUE]

(* uuidv7 *)
TakeId ==
  LET taken == logs \cup writing IN
  /\ taken # Logs
  /\ writing' = writing \cup {Min(Logs \ taken)}
  /\ UNCHANGED <<logs, pageNo, request, earlier, shown, totalPages, walk>>

(* recordLog *)
RecordLog(x) ==
  /\ x \in writing
  /\ logs' = logs \cup {x} /\ writing' = writing \ {x}
  /\ walk' = [walk EXCEPT !.raced = @ \/ request.at = "counted"]
  /\ UNCHANGED <<pageNo, request, earlier, shown, totalPages>>

(* A slip: pages are counted from 0. *)
OffsetFromZero(page, limit) == page * limit

(* Rows passed over before a page. *)
Offset(page, limit) == (page - 1) * limit

Newer(x) == Cardinality({y \in logs : y > x})

Counted(r) == [r EXCEPT !.at = "counted", !.total = Cardinality(logs)]

Selected(r) ==
  LET first == Offset(r.page, Limit) IN
  [r EXCEPT !.at = "selected",
            !.rows = {x \in logs : Newer(x) >= first /\ Newer(x) < first + Limit}]

Count ==
  /\ \/ request.at = "sent" /\ request' = Counted(request) /\ UNCHANGED earlier
     \/ earlier.at = "sent" /\ earlier' = Counted(earlier) /\ UNCHANGED request
  /\ UNCHANGED <<logs, writing, pageNo, shown, totalPages, walk>>

Select ==
  /\ \/ /\ request.at = "counted" /\ request' = Selected(request) /\ UNCHANGED earlier
        /\ walk' = IF request.page = 1 THEN [walk EXCEPT !.there = logs, !.met = {}] ELSE walk
     \/ earlier.at = "counted" /\ earlier' = Selected(earlier) /\ UNCHANGED <<request, walk>>
  /\ UNCHANGED <<logs, writing, pageNo, shown, totalPages>>

(* A slip: a last page that is not full is not counted. *)
FullPages(total) == total \div Limit

PageCount(total) == (total + Limit - 1) \div Limit

(* useAsyncState shows the answer; totalPages follows. *)
Shows(r) == shown' = r.rows /\ totalPages' = PageCount(r.total)

Answer ==
  /\ request.at = "selected"
  /\ Shows(request)
  /\ request' = NoRequest
  /\ walk' = IF (walk.steady \/ request.page = 1) /\ earlier.at = "none"
             THEN [walk EXCEPT !.met = @ \cup request.rows, !.steady = TRUE]
             ELSE NoWalk
  /\ UNCHANGED <<logs, writing, pageNo, earlier>>

EarlierAnswer ==
  /\ earlier.at = "selected"
  /\ Shows(earlier)
  /\ earlier' = NoRequest
  /\ walk' = IF request.at = "none" THEN NoWalk ELSE [walk EXCEPT !.steady = FALSE]
  /\ UNCHANGED <<logs, writing, pageNo, request>>

(* What is shown stays. *)
Fails ==
  /\ \/ request.at # "none" /\ request' = NoRequest /\ UNCHANGED earlier
     \/ earlier.at # "none" /\ earlier' = NoRequest /\ UNCHANGED request
  /\ walk' = IF request'.at = "none" THEN NoWalk ELSE [walk EXCEPT !.steady = FALSE]
  /\ UNCHANGED <<logs, writing, pageNo, shown, totalPages>>

(* The watch on the page asks again (two calls under way at most).          *)
Ask(page) ==
  LET waited == request.at = "none" /\ earlier.at = "none" IN
  /\ request.at = "none" \/ earlier.at = "none"
  /\ pageNo' = page
  /\ request' = [NoRequest EXCEPT !.at = "sent", !.page = page]
  /\ earlier' = IF request.at = "none" THEN earlier ELSE request
  /\ walk' = IF waited /\ walk.steady /\ page >= pageNo /\ page # 1
             THEN [walk EXCEPT !.raced = FALSE]
             ELSE [NoWalk EXCEPT !.steady = waited /\ page = 1]
  /\ UNCHANGED <<logs, writing, shown, totalPages>>

(* The buttons are there while rows are shown on more than one page. *)
HasButtons == shown # {} /\ totalPages > 1

Back    == HasButtons /\ pageNo > 1 /\ Ask(pageNo - 1)
Forward == HasButtons /\ pageNo < totalPages /\ Ask(pageNo + 1)
Refresh == Ask(pageNo)

PagerNext ==
  \/ TakeId \/ Count \/ Select \/ Answer \/ EarlierAnswer \/ Fails \/ Back \/ Forward \/ Refresh
  \/ \E x \in Logs : RecordLog(x)

PagerSpec == PagerInit /\ [][PagerNext]_logVars

-----------------------------------------------------------------------------
(* logs/service.ts:24: rows added while an admin pages forward push others  *)
(* to later pages; an admin who waits for each page misses no row that was  *)
(* there when page 1 was read, down to the oldest row on the screen (one    *)
(* who does not wait may be shown a page that was asked for earlier).       *)
PagingMissesNothing ==
  request.at = "none" /\ walk.steady /\ shown # {}
  => \A x \in walk.there : x >= Min(shown) => x \in walk.met

(* LogPage.vue:105: when the button for the next page is disabled, nothing  *)
(* older is left, unless a row was added between the count and the select   *)
(* of the answer shown.                                                     *)
LastPageIsTheEnd ==
  request.at = "none" /\ walk.steady /\ ~walk.raced /\ shown # {} /\ pageNo >= totalPages
  => walk.there \subseteq walk.met
=============================================================================
