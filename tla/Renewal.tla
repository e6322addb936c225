-------------------------------- MODULE Renewal --------------------------------
(***************************************************************************)
(* When certificates are renewed: runIssue books a window for the next     *)
(* renewal of what it issued (server/core/pki/core.ts, schedule.ts), and   *)
(* the cron trigger renews what is booked up to now, at most Limit a time  *)
(* (cron.ts).  Time is counted in windows of three hours, at whose start   *)
(* the trigger fires.                                                      *)
(***************************************************************************)
EXTENDS Integers, FiniteSets

CONSTANTS
  Certs,        \* the rows of the Certificate table
  Stuck,        \* those whose order fails once they have been issued
  Limit,        \* MAX_RENEW_PER_RUN
  Lookback,     \* LOOKBACK_WINDOWS
  Lead,         \* whole windows from issuing to the theoretical renewAt
  Lifetime,     \* windows from issuing to notAfter
  MaxEvictions, \* bound: scans that die half way
  Horizon,      \* bound: windows
  NoRow, NoRun

(* A lifetime times renew_window_ratio of at least a week.                 *)
ASSUME TimeAssumption ==
  /\ Limit \in Nat \ {0} /\ Lookback \in Nat \ {0} /\ Lead \in Nat /\ Lifetime \in Nat
  /\ Lookback <= Lead /\ Lead < Lifetime
  /\ MaxEvictions \in Nat /\ Horizon \in Nat
ASSUME CertsAssumption ==
  /\ IsFiniteSet(Certs) /\ Stuck \subseteq Certs
  /\ NoRow \notin [issued : Nat, slot : Nat]
  /\ NoRun \notin [slot : Nat, by : {"scan", "request"}, raced : BOOLEAN]

VARIABLES
  now,       \* the current window
  table,     \* issued is notBefore, slot is renewAt
  run,       \* runs between reading the occupancy and the UPDATE
  todo,      \* what a scan has selected and not yet tried
  fired,     \* whether the trigger has fired in this window
  raced,     \* certificates whose slot was chosen while another run chose one
  evictions

vars == <<now, table, run, todo, fired, raced, evictions>>

RowType == [issued : Nat, slot : Nat]
RunType == [slot : Nat, by : {"scan", "request"}, raced : BOOLEAN]

TypeOK ==
  /\ now \in Nat
  /\ table \in [Certs -> RowType \cup {NoRow}]
  /\ run \in [Certs -> RunType \cup {NoRun}]
  /\ todo \subseteq [cert : Certs, slot : Nat]
  /\ fired \in BOOLEAN
  /\ raced \subseteq Certs
  /\ evictions \in Nat

Issued == {c \in Certs : table[c] # NoRow}
Busy   == {c \in Certs : run[c] # NoRun}
-----------------------------------------------------------------------------
Occupancy(w, c) == Cardinality({d \in Issued \ {c} : table[d].slot = w})

(* windowStart(renewAt(info)): depending on when in its window the         *)
(* certificate was issued.                                                 *)
Theoretical == {now + Lead, now + Lead + 1}

(* A slip: the theoretical window, whatever is booked in it.               *)
PickTheoretical(t0, c) == {t0}

(* A slip: one window too many. *)
PickSlotOneFurther(t0, c) ==
  LET seen   == (t0 - Lookback)..t0
      idlest == {w \in seen : \A v \in seen : Occupancy(w, c) <= Occupancy(v, c)}
  IN  {w \in idlest : \A v \in idlest : v <= w}

(* The last of the idlest windows of the look-back.                        *)
PickSlot(t0, c) ==
  LET seen   == (t0 - Lookback + 1)..t0
      idlest == {w \in seen : \A v \in seen : Occupancy(w, c) <= Occupancy(v, c)}
  IN  {w \in idlest : \A v \in idlest : v <= w}

(* The order of a run has succeeded and it reads the occupancy.            *)
Choose(c, by) ==
  /\ run[c] = NoRun
  /\ \E t0 \in Theoretical : \E w \in PickSlot(t0, c) :
       run' = [run EXCEPT ![c] = [slot |-> w, by |-> by, raced |-> Busy # {}]]

(* A slip: renewAt keeps its value. *)
StoreKeepingSlot(c) ==
  /\ run[c] # NoRun
  /\ table' = [table EXCEPT ![c] =
       [issued |-> now, slot |-> IF table[c] = NoRow THEN run[c].slot ELSE table[c].slot]]
  /\ raced' = IF run[c].raced THEN raced \cup {c} ELSE raced \ {c}
  /\ run' = [run EXCEPT ![c] = NoRun]
  /\ UNCHANGED <<now, todo, fired, evictions>>

Store(c) ==
  /\ run[c] # NoRun
  /\ table' = [table EXCEPT ![c] = [issued |-> now, slot |-> run[c].slot]]
  /\ raced' = IF run[c].raced THEN raced \cup {c} ELSE raced \ {c}
  /\ run' = [run EXCEPT ![c] = NoRun]
  /\ UNCHANGED <<now, todo, fired, evictions>>

(* A client asks for a certificate that is not there, or past its          *)
(* threshold (decideByInfo).                                               *)
RequestIssues(c) ==
  /\ \/ c \notin Issued
     \/ c \in Issued \ Stuck /\ now >= table[c].issued + Lead
  /\ Choose(c, "request")
  /\ UNCHANGED <<now, table, todo, fired, raced, evictions>>
-----------------------------------------------------------------------------
(* scanAndRenew.                                                           *)

Due == {c \in Issued : table[c].slot <= now}

ScanSelect ==
  /\ ~fired /\ fired' = TRUE
  /\ \E S \in SUBSET Due :
       /\ Cardinality(S) <= Limit
       /\ S # Due => Cardinality(S) = Limit
       /\ \A c \in S, d \in Due \ S : table[c].slot <= table[d].slot
       /\ todo' = {[cert |-> c, slot |-> table[c].slot] : c \in S}
  /\ UNCHANGED <<now, table, run, raced, evictions>>

(* The next of the selected rows, once the one before it is done.          *)
ScanTurn(e) ==
  /\ e \in todo
  /\ \A f \in todo : e.slot <= f.slot
  /\ \A c \in Busy : run[c].by # "scan"
  /\ todo' = todo \ {e}

ScanRenews(e) ==
  /\ ScanTurn(e)
  /\ e.cert \notin Stuck
  /\ Choose(e.cert, "scan")
  /\ UNCHANGED <<now, table, fired, raced, evictions>>

(* The order fails, or a request's run has the locks: the row keeps its    *)
(* renewAt and the scan goes on.                                           *)
ScanSkips(e) ==
  /\ ScanTurn(e)
  /\ e.cert \in Stuck \/ e.cert \in Busy
  /\ UNCHANGED <<now, table, run, fired, raced, evictions>>

(* The Worker of the scan is evicted, with the rest of its selection.      *)
Evict ==
  /\ evictions < MaxEvictions /\ evictions' = evictions + 1
  /\ todo # {} \/ \E c \in Busy : run[c].by = "scan"
  /\ todo' = {}
  /\ run' = [c \in Certs |-> IF c \in Busy /\ run[c].by = "scan" THEN NoRun ELSE run[c]]
  /\ UNCHANGED <<now, table, fired, raced>>

(* The window is over: three hours are enough for a scan of ten rows.      *)
Tick ==
  /\ fired /\ todo = {} /\ Busy = {}
  /\ now < Horizon /\ now' = now + 1
  /\ fired' = FALSE
  /\ UNCHANGED <<table, run, todo, raced, evictions>>
-----------------------------------------------------------------------------
Init ==
  /\ now = 0
  /\ table = [c \in Certs |-> NoRow]
  /\ run = [c \in Certs |-> NoRun]
  /\ todo = {} /\ fired = FALSE /\ raced = {} /\ evictions = 0

Next ==
  \/ \E c \in Certs : RequestIssues(c) \/ Store(c)
  \/ ScanSelect
  \/ \E e \in todo : ScanRenews(e) \/ ScanSkips(e)
  \/ Evict \/ Tick

Spec == Init /\ [][Next]_vars
-----------------------------------------------------------------------------
(* What the booking of windows is for: as long as the certificates fit, no *)
(* window is booked by more of them than one scan renews, apart from those *)
(* whose window was chosen while another run was choosing.                 *)
SlotsFitTheScan ==
  Cardinality(Certs) <= Limit * Lookback =>
    \A c \in Issued : Cardinality({d \in Issued \ raced : table[d].slot = table[c].slot}) <= Limit

(* A new certificate is not due at once: its window is after the one in    *)
(* which it was issued and not after the theoretical one.  Otherwise every *)
(* scan would renew it again.                                              *)
SlotsLieAhead ==
  \A c \in Issued : table[c].slot \in (table[c].issued + 1)..(table[c].issued + Lead + 1)

(* Scans keep up: in the windows that are left after the last one a        *)
(* certificate may be booked for, less those of scans that die, all the    *)
(* healthy ones can be renewed, even if the rows that fail are first in    *)
(* every scan.                                                             *)
ScansKeepUp ==
  /\ Cardinality(Stuck) < Limit
  /\ Cardinality(Certs \ Stuck)
     <= (Lifetime - Lead - 1 - MaxEvictions) * (Limit - Cardinality(Stuck))

(* A certificate whose orders succeed is renewed before it expires, by the *)
(* cron trigger alone: whatever the windows chosen, the limit of a scan,   *)
(* rows that fail at every scan and a scan that dies (README: renewal on   *)
(* schedule, every three hours, in booked windows).                        *)
HealthyNeverExpire ==
  ScansKeepUp => \A c \in Issued \ Stuck : now < table[c].issued + Lifetime
=============================================================================
