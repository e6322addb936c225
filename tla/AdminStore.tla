----------------------------- MODULE AdminStore -----------------------------
(***************************************************************************)
(* The rows the console edits (server/core/*/routes.ts over server/db):    *)
(* consumers and certificates refer to an ACME account, domains to a DNS   *)
(* credential.  No foreign key guards a reference: the handler that        *)
(* removes a parent nulls its children first, one statement per table.     *)
(* Each tab of the console has one form or one request under way; each     *)
(* statement of a request is a step, and the worker may stop between two.  *)
(***************************************************************************)
EXTENDS Integers

CONSTANTS
  Accounts, Credentials,             \* parents
  Consumers, Certificates, Domains,  \* children
  Admins,
  None,
  MaxToken,  \* bound: tokens ever generated
  MaxEdit    \* bound: edits of the allow rules

Parents  == Accounts \cup Credentials
Children == Consumers \cup Certificates \cup Domains
Tables    == {"Consumer", "Certificate", "Domain"}

TableOf(c) == CASE c \in Consumers    -> "Consumer"
             [] c \in Certificates -> "Certificate"
             [] OTHER              -> "Domain"

(* Tables whose rows may refer to the parent, and parents of a child. *)
Referring(p) == IF p \in Accounts THEN {"Consumer", "Certificate"} ELSE {"Domain"}
ParentsOf(c) == {p \in Parents : TableOf(c) \in Referring(p)}

ASSUME RowAssumption ==
  /\ Accounts \cap Credentials = {}
  /\ None \notin Parents
  /\ Consumers \cap Certificates = {} /\ Consumers \cap Domains = {}
  /\ Certificates \cap Domains = {} /\ Children \cap Parents = {}

VARIABLES
  rows,     \* ids of the rows that exist
  gone,     \* ids of removed rows: an id (uuidv7) is never used again
  ref,      \* acmeAccountId, dnsCredentialId
  token,    \* of each consumer
  allow,    \* version of each consumer's rules
  last,     \* the last token generated
  work,     \* what each tab is at
  run,      \* the account an issuing run has read, by consumer
  swept,    \* history: tables nulled for a parent
  late,     \* history: children that took a reference after that
  retired,  \* history: replaced tokens
  undone    \* history: consumers whose rotation an older form took back

storeVars == <<rows, gone, ref, token, allow, last, work, run, swept, late, retired, undone>>
history   == <<swept, late, retired, undone>>

Idle == [op |-> "idle", id |-> None, ref |-> None, token |-> 0, allow |-> 0, choice |-> {}]
Ops  == {"idle", "form", "new", "found", "sweeping", "swept", "rotating"}
Works == [op : Ops, id : Parents \cup Children \cup {None}, ref : Parents \cup {None},
          token : Nat, allow : Nat, choice : SUBSET Parents]

StoreTypeOK ==
  /\ rows \subseteq Parents \cup Children
  /\ gone \subseteq Parents \cup Children /\ rows \cap gone = {}
  /\ ref \in [Children -> Parents \cup {None}]
  /\ \A c \in Children : ref[c] # None => ref[c] \in ParentsOf(c)
  /\ token \in [Consumers -> Nat] /\ allow \in [Consumers -> Nat] /\ last \in Nat
  /\ work \in [Admins -> Works]
  /\ run \in [Consumers -> Parents \cup {None}]
  /\ swept \in [Parents -> SUBSET Tables] /\ late \subseteq Children
  /\ retired \in [Consumers -> SUBSET Nat] /\ undone \subseteq Consumers

StoreInit ==
  /\ rows \in SUBSET (Parents \cup Consumers \cup Domains)
  /\ gone \in SUBSET (Parents \cup Children) /\ rows \cap gone = {}
  /\ ref \in [Children -> Parents \cup {None}]
  /\ \A c \in Children : ref[c] # None => c \in rows /\ ref[c] \in ParentsOf(c) \cap rows
  /\ token = [c \in Consumers |-> 0] /\ allow = [c \in Consumers |-> 0] /\ last = 0
  /\ work = [t \in Admins |-> Idle] /\ run = [c \in Consumers |-> None]
  /\ swept = [p \in Parents |-> IF p \in gone THEN Referring(p) ELSE {}] /\ late = {}
  /\ retired = [c \in Consumers |-> {}] /\ undone = {}

-----------------------------------------------------------------------------
(* A tab's editor copies the row and offers the parents in its lists; the   *)
(* whole of it is sent back on save.                                        *)
OpenForm(t, c) ==
  /\ work[t] = Idle /\ c \in rows
  /\ work' = [work EXCEPT ![t] =
       [op |-> "form", id |-> c, ref |-> ref[c],
        token |-> IF c \in Consumers THEN token[c] ELSE 0,
        allow |-> IF c \in Consumers THEN allow[c] ELSE 0,
        choice |-> ParentsOf(c) \cap rows]]
  /\ UNCHANGED <<rows, gone, ref, token, allow, last, run, history>>

CloseForm(t) ==
  /\ work[t].op \in {"form", "new"}
  /\ work' = [work EXCEPT ![t] = Idle]
  /\ UNCHANGED <<rows, gone, ref, token, allow, last, run, history>>

(* A tab's editor of a new row, which gets the id c when it is inserted. *)
OpenNew(t, c) ==
  /\ work[t] = Idle /\ c \notin rows \cup gone
  /\ work' = [work EXCEPT ![t] = [Idle EXCEPT !.op = "new", !.id = c, !.choice = ParentsOf(c) \cap rows]]
  /\ UNCHANGED <<rows, gone, ref, token, allow, last, run, history>>

(* The reference r of child c is written. *)
TakesReference(c, r) ==
  late' = IF r # None /\ TableOf(c) \in swept[r] THEN late \cup {c} ELSE late \ {c}

(* PUT /: every column of the form is written, 404 if the row has gone (the *)
(* form then stays open).                                                   *)
Save(t, r, a) ==
  LET f == work[t]  c == f.id IN
  /\ f.op = "form" /\ c \in rows
  /\ r \in {f.ref, None} \cup f.choice /\ a \in {f.allow, f.allow + 1} /\ a <= MaxEdit
  /\ ref' = [ref EXCEPT ![c] = r]
  /\ IF c \in Consumers
     THEN /\ token' = [token EXCEPT ![c] = f.token]
          /\ allow' = [allow EXCEPT ![c] = a]
          /\ undone' = IF f.token \in retired[c] THEN undone \cup {c} ELSE undone
          /\ retired' = [retired EXCEPT ![c] = IF f.token = token[c] THEN @ ELSE @ \cup {token[c]}]
     ELSE a = f.allow /\ UNCHANGED <<token, allow, retired, undone>>
  /\ TakesReference(c, r)
  /\ work' = [work EXCEPT ![t] = Idle]
  /\ UNCHANGED <<rows, gone, last, run, swept>>

(* A slip: the token is derived from the one the request has read. *)
NextToken(old) == old + 1

(* 24 random bytes: no token is generated twice. *)
GenToken(old) == last + 1

(* PUT / without an id: a consumer is inserted with a token of its own. *)
Create(t, r) ==
  LET c == work[t].id IN
  /\ work[t].op = "new" /\ c \notin rows \cup gone
  /\ r \in {None} \cup work[t].choice
  /\ rows' = rows \cup {c} /\ ref' = [ref EXCEPT ![c] = r]
  /\ IF c \in Consumers
     THEN last < MaxToken /\ last' = last + 1 /\ token' = [token EXCEPT ![c] = GenToken(0)]
     ELSE UNCHANGED <<last, token>>
  /\ TakesReference(c, r)
  /\ work' = [work EXCEPT ![t] = Idle]
  /\ UNCHANGED <<gone, allow, run, swept, retired, undone>>

(* Accounts and credentials are inserted without any reference. *)
CreateParent(t, p) ==
  /\ work[t] = Idle /\ p \notin rows \cup gone
  /\ rows' = rows \cup {p}
  /\ UNCHANGED <<gone, ref, token, allow, last, work, run, history>>

(* DELETE of a child: nothing refers to it that matters here. *)
RemoveChild(t, c) ==
  /\ work[t] = Idle /\ c \in rows
  /\ rows' = rows \ {c} /\ gone' = gone \cup {c}
  /\ UNCHANGED <<ref, token, allow, last, work, run, history>>

(* DELETE of a parent: find it, null its children, remove it. *)
FindParent(t, p) ==
  /\ work[t] = Idle /\ p \in rows
  /\ work' = [work EXCEPT ![t] = [Idle EXCEPT !.op = "found", !.id = p]]
  /\ UNCHANGED <<rows, gone, ref, token, allow, last, run, history>>

(* UPDATE a table SET ref = NULL WHERE ref = p. *)
NullTable(p, k) ==
  /\ ref' = [c \in Children |-> IF c \in rows /\ TableOf(c) = k /\ ref[c] = p THEN None ELSE ref[c]]
  /\ late' = late \ {c \in Children : TableOf(c) = k /\ ref[c] = p}
  /\ swept' = [swept EXCEPT ![p] = @ \cup {k}]
  /\ UNCHANGED <<rows, gone, token, allow, last, run, retired, undone>>

NullConsumers(t) ==
  LET p == work[t].id IN
  /\ work[t].op = "found" /\ p \in Accounts
  /\ NullTable(p, "Consumer")
  /\ work' = [work EXCEPT ![t].op = "sweeping"]

(* A slip: the second table is taken for done with the first. *)
SkipCertificates(t) ==
  /\ work[t].op = "sweeping"
  /\ work' = [work EXCEPT ![t].op = "swept"]
  /\ UNCHANGED <<rows, gone, ref, token, allow, last, run, history>>

NullCertificates(t) ==
  /\ work[t].op = "sweeping"
  /\ NullTable(work[t].id, "Certificate")
  /\ work' = [work EXCEPT ![t].op = "swept"]

NullDomains(t) ==
  LET p == work[t].id IN
  /\ work[t].op = "found" /\ p \in Credentials
  /\ NullTable(p, "Domain")
  /\ work' = [work EXCEPT ![t].op = "swept"]

RemoveParent(t) ==
  /\ work[t].op = "swept"
  /\ rows' = rows \ {work[t].id} /\ gone' = gone \cup {work[t].id}
  /\ work' = [work EXCEPT ![t] = Idle]
  /\ UNCHANGED <<ref, token, allow, last, run, history>>

-----------------------------------------------------------------------------
(* POST /:id/rotate-token reads the row, then writes its token only. *)
RotateFind(t, c) ==
  /\ work[t] = Idle /\ c \in Consumers \cap rows
  /\ work' = [work EXCEPT ![t] = [Idle EXCEPT !.op = "rotating", !.id = c, !.token = token[c]]]
  /\ UNCHANGED <<rows, gone, ref, token, allow, last, run, history>>

RotateWrite(t) ==
  LET c == work[t].id  new == GenToken(work[t].token) IN
  /\ work[t].op = "rotating" /\ last < MaxToken
  /\ work' = [work EXCEPT ![t] = Idle]
  /\ last' = last + 1
  /\ IF c \in rows
     THEN /\ token' = [token EXCEPT ![c] = new]
          /\ retired' = [retired EXCEPT ![c] = @ \cup {token[c]}]
          /\ undone' = undone \ {c}
     ELSE UNCHANGED <<token, retired, undone>>
  /\ UNCHANGED <<rows, gone, ref, allow, run, swept, late>>

-----------------------------------------------------------------------------
(* An issuing run reads its consumer and the account ... *)
RunReads(c) ==
  /\ run[c] = None /\ c \in rows /\ ref[c] \in rows
  /\ run' = [run EXCEPT ![c] = ref[c]]
  /\ UNCHANGED <<rows, gone, ref, token, allow, last, work, history>>

(* uuidv7: ids nothing ever had. *)
NewIds == Certificates \ (rows \cup gone)

(* ... and inserts a certificate with the account it has read. *)
RunInserts(c, x) ==
  /\ run[c] # None /\ x \in NewIds
  /\ rows' = rows \cup {x}
  /\ ref' = [ref EXCEPT ![x] = run[c]]
  /\ TakesReference(x, run[c])
  /\ run' = [run EXCEPT ![c] = None]
  /\ UNCHANGED <<gone, token, allow, last, work, swept, retired, undone>>

RunEnds(c) ==
  /\ run[c] # None
  /\ run' = [run EXCEPT ![c] = None]
  /\ UNCHANGED <<rows, gone, ref, token, allow, last, work, history>>

(* The worker stops between two statements. *)
Stop(t) ==
  /\ work[t].op \in {"found", "sweeping", "swept", "rotating"}
  /\ work' = [work EXCEPT ![t] = Idle]
  /\ UNCHANGED <<rows, gone, ref, token, allow, last, run, history>>

StoreNext ==
  \/ \E t \in Admins :
       \/ \E c \in Consumers \cup Domains : OpenForm(t, c) \/ OpenNew(t, c)
       \/ \E c \in Children : RemoveChild(t, c)
       \/ \E r \in Parents \cup {None}, a \in 0..MaxEdit : Save(t, r, a)
       \/ \E r \in Parents \cup {None} : Create(t, r)
       \/ \E p \in Parents : CreateParent(t, p) \/ FindParent(t, p)
       \/ \E c \in Consumers : RotateFind(t, c)
       \/ CloseForm(t) \/ NullConsumers(t) \/ NullCertificates(t) \/ NullDomains(t)
       \/ RemoveParent(t) \/ RotateWrite(t) \/ Stop(t)
  \/ \E c \in Consumers : RunReads(c) \/ RunEnds(c) \/ \E x \in Certificates : RunInserts(c, x)

StoreSpec == StoreInit /\ [][StoreNext]_storeVars

-----------------------------------------------------------------------------
(* acme-accounts/routes.ts:19: however deletions interleave with forms,     *)
(* issuing runs and stops, a row refers to a removed parent only if it took *)
(* the reference after the deletion had nulled its table.                   *)
DanglingNeedsALateWrite ==
  \A c \in Children \cap rows : ref[c] # None /\ ref[c] \notin rows => c \in late

(* consumers/routes.ts:19: a rotated token never serves again, whichever    *)
(* rotations overlap, unless a form opened before the rotation was saved.   *)
RevokedStaysRevoked ==
  \A c \in Consumers : token[c] \in retired[c] => c \in undone
=============================================================================
