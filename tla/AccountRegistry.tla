--------------------------- MODULE AccountRegistry ---------------------------
(***************************************************************************)
(* Registration of ACME accounts (acme-accounts/routes.ts, registrar.ts    *)
(* and the editor): a save registers at the CA when the credentials are    *)
(* incomplete, then writes the row.  A key registered at a directory has   *)
(* one account URL, however often it is registered.                        *)
(***************************************************************************)
EXTENDS Integers

CONSTANTS
  Ids, Editors, Dirs,
  EabDirs,   \* directories that ask for an external account binding
  MaxKey     \* bound: keys generated or pasted

ASSUME EabAssumption == EabDirs \subseteq Dirs /\ Dirs # {}
ASSUME KeyAssumption == MaxKey \in Nat

Nothing == 0  \* an absent field

VARIABLES
  accounts,  \* the stored credentials, by id
  ca,        \* what the CAs know: <<key, directory>>
  keys,      \* keys that exist
  form,      \* each editor's form or request
  unmatched  \* history: ids saved with a URL that the admin kept or pasted beside
             \* another key or directory than the one it was given for

registryVars == <<accounts, ca, keys, form, unmatched>>

Url(key, dir) == [key |-> key, dir |-> dir]
NoUrl == Url(Nothing, "none")
Urls  == [key : 0..MaxKey, dir : Dirs \cup {"none"}]
Eabs  == {"none", "incomplete", "complete"}
Creds == [dir : Dirs, key : 0..MaxKey, url : Urls, eab : Eabs]
Fresh(dir) == [dir |-> dir, key |-> Nothing, url |-> NoUrl, eab |-> "none"]
NoAccount  == [dir |-> "none", key |-> Nothing, url |-> NoUrl, eab |-> "none"]
AnyDir == CHOOSE d \in Dirs : TRUE
Closed == [at |-> "closed", id |-> Nothing, data |-> Fresh(AnyDir), byHand |-> FALSE,
           result |-> Fresh(AnyDir)]

RegistryTypeOK ==
  /\ accounts \in [Ids -> Creds \cup {NoAccount}]
  /\ ca \subseteq (1..MaxKey) \X Dirs
  /\ keys \in 0..MaxKey
  /\ form \in [Editors -> [at : {"closed", "editing", "registering", "writing"},
                           id : Ids \cup {Nothing}, data : Creds, byHand : BOOLEAN, result : Creds]]
  /\ unmatched \subseteq Ids

RegistryInit ==
  /\ accounts = [i \in Ids |-> NoAccount] /\ ca = {} /\ keys = 0
  /\ form = [e \in Editors |-> Closed] /\ unmatched = {}

Stored(i) == accounts[i] # NoAccount

(* A slip: half of the credentials is taken for all of them. *)
HalfRegistered(c) == c.url # NoUrl \/ c.key # Nothing

IsRegistered(c) == c.url # NoUrl /\ c.key # Nothing

(* The editor: a blank form, or a copy of the row. *)
New(e) ==
  /\ form[e] = Closed
  /\ \E d \in Dirs : form' = [form EXCEPT ![e] = [Closed EXCEPT !.at = "editing", !.data = Fresh(d)]]
  /\ UNCHANGED <<accounts, ca, keys, unmatched>>

Open(e, i) ==
  /\ form[e] = Closed /\ Stored(i)
  /\ form' = [form EXCEPT ![e] = [Closed EXCEPT !.at = "editing", !.id = i,
                                 !.data = accounts[i], !.byHand = i \in unmatched]]
  /\ UNCHANGED <<accounts, ca, keys, unmatched>>

Close(e) ==
  /\ form[e].at = "editing"
  /\ form' = [form EXCEPT ![e] = Closed]
  /\ UNCHANGED <<accounts, ca, keys, unmatched>>

(* The form holds c; mixed: its URL is beside a key or a directory that the *)
(* admin has changed or pasted.                                             *)
Holds(e, c, mixed) == form' = [form EXCEPT ![e].data = c, ![e].byHand = mixed]

(* One field is changed; an emptied field is dropped from creds.  Another   *)
(* directory leaves a key and a URL in place.                               *)
Edit(e) ==
  LET c == form[e].data  mixed == form[e].byHand IN
  /\ form[e].at = "editing"
  /\ \/ \E d \in Dirs : /\ Holds(e, [c EXCEPT !.dir = d], mixed \/ (c.url # NoUrl /\ d # c.dir))
                        /\ UNCHANGED keys
     \/ \E b \in Eabs : Holds(e, [c EXCEPT !.eab = b], mixed) /\ UNCHANGED keys
     \/ Holds(e, [c EXCEPT !.key = Nothing], mixed) /\ UNCHANGED keys
     \/ Holds(e, [c EXCEPT !.url = NoUrl], FALSE) /\ UNCHANGED keys
     \/ \E k \in 1..MaxKey : /\ k <= keys + 1 /\ Holds(e, [c EXCEPT !.key = k], c.url # NoUrl)
                            /\ keys' = IF k > keys THEN k ELSE keys
     \/ \E r \in ca : Holds(e, [c EXCEPT !.url = Url(r[1], r[2])], TRUE) /\ UNCHANGED keys
  /\ UNCHANGED <<accounts, ca, unmatched>>

(* POST and PUT / go to the registrar at once; PUT /:id answers 404 first   *)
(* when the row has gone, and the form stays as it is.                      *)
Submit(e) ==
  /\ form[e].at = "editing"
  /\ form' = IF IsRegistered(form[e].data)
             THEN [form EXCEPT ![e].at = "writing", ![e].result = form[e].data]
             ELSE [form EXCEPT ![e].at = "registering"]
  /\ UNCHANGED <<accounts, ca, keys, unmatched>>

(* The key is the pasted one or a new one; the directory may ask for a      *)
(* binding; half a binding is neither sent nor kept.                        *)
Register(e) ==
  LET c   == form[e].data
      key == IF c.key # Nothing THEN c.key ELSE keys + 1
      eab == IF c.eab = "complete" THEN "complete" ELSE "none"
  IN
  /\ form[e].at = "registering" /\ key <= MaxKey
  /\ c.dir \in EabDirs => eab = "complete"
  /\ ca' = ca \cup {<<key, c.dir>>}
  /\ keys' = IF key > keys THEN key ELSE keys
  /\ form' = [form EXCEPT ![e].at = "writing", ![e].byHand = FALSE,
         ![e].result = [dir |-> c.dir, key |-> key, url |-> Url(key, c.dir), eab |-> eab]]
  /\ UNCHANGED <<accounts, unmatched>>

(* A refusal, a lost answer (the CA has the account by then) or a stop of   *)
(* the worker: nothing is written, the form stays open as it was sent.      *)
Fail(e) ==
  LET f == form[e] IN
  /\ f.at \in {"registering", "writing"}
  /\ form' = [form EXCEPT ![e].at = "editing", ![e].result = Fresh(AnyDir)]
  /\ \/ f.at = "registering" /\ f.data.key # Nothing /\ ca' = ca \cup {<<f.data.key, f.data.dir>>}
     \/ ca' = ca
  /\ UNCHANGED <<accounts, keys, unmatched>>

(* INSERT, or UPDATE of a row that is still there (else 404). *)
Write(e) ==
  LET f == form[e] IN
  /\ f.at = "writing"
  /\ \E i \in IF f.id # Nothing THEN {f.id} \cap {j \in Ids : Stored(j)}
                              ELSE {j \in Ids : ~Stored(j)} :
       /\ accounts' = [accounts EXCEPT ![i] = f.result]
       /\ unmatched' = IF f.byHand THEN unmatched \cup {i} ELSE unmatched \ {i}
  /\ form' = [form EXCEPT ![e] = Closed]
  /\ UNCHANGED <<ca, keys>>

Remove(i) ==
  /\ Stored(i)
  /\ accounts' = [accounts EXCEPT ![i] = NoAccount]
  /\ unmatched' = unmatched \ {i}
  /\ UNCHANGED <<ca, keys, form>>

RegistryNext ==
  \/ \E e \in Editors : New(e) \/ Close(e) \/ Edit(e) \/ Submit(e) \/ Register(e) \/ Fail(e) \/ Write(e)
                        \/ \E i \in Ids : Open(e, i)
  \/ \E i \in Ids : Remove(i)

RegistrySpec == RegistryInit /\ [][RegistryNext]_registryVars

-----------------------------------------------------------------------------
(* registrar.ts:14,34: a stored account has its key and a URL, and the URL  *)
(* is the one the account's own directory gave to that key, so a run can    *)
(* sign with it, whatever was emptied, refused or retried.  The exceptions  *)
(* are the admin's own doing, and the registrar lets them pass for it asks  *)
(* no CA once key and URL are there: a URL pasted beside a key, a key       *)
(* pasted beside a URL, and a directory changed while both are kept.        *)
AccountsCanSign ==
  \A i \in Ids : Stored(i) =>
    LET c == accounts[i] IN
    /\ c.key # Nothing /\ c.url # NoUrl
    /\ i \notin unmatched => c.url = Url(c.key, c.dir) /\ <<c.key, c.dir>> \in ca
=============================================================================
