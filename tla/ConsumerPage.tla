---------------------------- MODULE ConsumerPage ----------------------------
(***************************************************************************)
(* The page of one consumer (ConsumerDetailPage.vue) with the request      *)
(* dialogue (RequestCertModal.vue).  The page fetches the consumer, and    *)
(* with the consumer's token the list of its certificates; every call      *)
(* reaches the server after it was sent and answers later still, in any    *)
(* order, and nothing ties an answer to the call that was made last.  The  *)
(* dialogue never calls its onClose: a click beside it is its only end, and *)
(* nothing asks for the list when a certificate has been requested.         *)
(***************************************************************************)
EXTENDS Integers, FiniteSets

CONSTANTS
  Clients,      \* consumers
  MaxFetches,   \* bound: fetches and rotations under way at a time
  MaxLoads,     \* bound: lists loaded
  MaxPageToken, \* bound: tokens generated
  MaxIssued     \* bound: certificates issued for a consumer

ASSUME PageAssumption ==
  /\ MaxLoads \in Nat /\ MaxPageToken \in Nat /\ MaxIssued \in Nat
  /\ IsFiniteSet(Clients) /\ Cardinality(Clients) <= MaxPageToken

VARIABLES
  tokens,     \* server: the token of each consumer
  issued,     \* server: how many certificates each consumer has
  id,         \* the route's parameter
  item,       \* the consumer on the page
  fetches,    \* fetches and rotations under way
  loads,      \* calls of loadCerts under way
  certs,      \* the list: whose, how long, loaded with which token
  spinning,   \* certsLoading
  started,    \* number of the load started last
  shownBy,    \* number of the load whose answer is shown
  modal,      \* the dialogue
  added       \* history: a certificate was added since a list was last asked for

pageVars == <<tokens, issued, id, item, fetches, loads, certs, spinning, started, shownBy, modal,
              added>>

Nobody  == "nobody"
NoItem  == [id |-> Nobody, token |-> 0]
Items   == [id : Clients, token : 1..MaxPageToken]
Results == [owner : Clients \cup {Nobody}, count : 0..MaxIssued]
Empty   == [owner |-> Nobody, count |-> 0]
NoModal == [at |-> "closed", client |-> NoItem, running |-> FALSE]

PageTypeOK ==
  /\ tokens \in [Clients -> 1..MaxPageToken] /\ issued \in [Clients -> 0..MaxIssued]
  /\ id \in Clients /\ item \in Items \cup {NoItem}
  /\ fetches \subseteq [kind : {"fetch", "rotate"}, id : Clients, row : Items \cup {NoItem}]
  /\ loads \subseteq [n : 1..MaxLoads, token : 1..MaxPageToken, done : BOOLEAN, res : Results]
  /\ certs \in [token : 0..MaxPageToken, res : Results]
  /\ spinning \in BOOLEAN /\ started \in 0..MaxLoads /\ shownBy \in 0..MaxLoads
  /\ modal \in [at : {"closed", "open"}, client : Items \cup {NoItem}, running : BOOLEAN]
  /\ added \in BOOLEAN

Row(c) == [id |-> c, token |-> tokens[c]]
Request(kind, c) == [kind |-> kind, id |-> c, row |-> NoItem]

PageInit ==
  /\ \E order \in [Clients -> 1..Cardinality(Clients)] :
       (\A c, d \in Clients : c # d => order[c] # order[d]) /\ tokens = order
  /\ issued = [c \in Clients |-> 0]
  /\ id \in Clients /\ item = NoItem /\ fetches = {Request("fetch", id)}
  /\ loads = {} /\ certs = [token |-> 0, res |-> Empty] /\ spinning = FALSE
  /\ started = 0 /\ shownBy = 0 /\ modal = NoModal /\ added = FALSE

-----------------------------------------------------------------------------
(* loadCerts, called the given number of times with a token. *)
LoadCerts(token, times) ==
  /\ started + times <= MaxLoads
  /\ loads' = loads \cup {[n |-> started + i, token |-> token, done |-> FALSE, res |-> Empty] : i \in 1..times}
  /\ started' = started + times
  /\ spinning' = (spinning \/ times > 0)
  /\ added' = (added /\ times = 0)

(* A slip: the watch is on the id. *)
WatchId(new) == IF new.id # item.id THEN 1 ELSE 0

(* The watch on the token of item fires when it changes. *)
Watch(new) == IF new.token # item.token THEN 1 ELSE 0

(* The route changes, over an open dialogue too: reload fetches the         *)
(* consumer of the new id.                                                  *)
Navigate(c) ==
  /\ c # id /\ Cardinality(fetches) < MaxFetches /\ started < MaxLoads
  /\ id' = c
  /\ fetches' = fetches \cup {Request("fetch", c)}
  /\ UNCHANGED <<tokens, issued, item, loads, certs, spinning, started, shownBy, modal, added>>

ClickRotate ==
  /\ modal.at # "open" /\ item # NoItem
  /\ Cardinality(fetches) < MaxFetches /\ started < MaxLoads
  /\ fetches' = fetches \cup {Request("rotate", id)}
  /\ UNCHANGED <<tokens, issued, id, item, loads, certs, spinning, started, shownBy, modal, added>>

(* The server reads the row, or replaces its token. *)
ServeItem(f) ==
  /\ f \in fetches /\ f.row = NoItem
  /\ IF f.kind = "rotate"
     THEN LET new == 1 + CHOOSE m \in 1..MaxPageToken :
                           (\E c \in Clients : tokens[c] = m) /\ \A c \in Clients : tokens[c] <= m
          IN  new <= MaxPageToken /\ tokens' = [tokens EXCEPT ![f.id] = new]
     ELSE UNCHANGED tokens
  /\ fetches' = (fetches \ {f}) \cup {[f EXCEPT !.row = [id |-> f.id, token |-> tokens'[f.id]]]}
  /\ UNCHANGED <<issued, id, item, loads, certs, spinning, started, shownBy, modal, added>>

(* A rotation sets item and loads the list itself, beside the watch. *)
ItemArrives(f) ==
  /\ f \in fetches /\ f.row # NoItem
  /\ fetches' = fetches \ {f}
  /\ item' = f.row
  /\ LoadCerts(f.row.token, Watch(f.row) + (IF f.kind = "rotate" THEN 1 ELSE 0))
  /\ UNCHANGED <<tokens, issued, id, certs, shownBy, modal>>

(* The answer is lost: of a rotation, perhaps, after the token has changed. *)
ItemFails(f) ==
  /\ f \in fetches /\ (f.row # NoItem => f.kind = "rotate")
  /\ fetches' = fetches \ {f}
  /\ UNCHANGED <<tokens, issued, id, item, loads, certs, spinning, started, shownBy, modal, added>>

ClickRefresh ==
  /\ modal.at # "open" /\ item # NoItem /\ ~spinning
  /\ LoadCerts(item.token, 1)
  /\ UNCHANGED <<tokens, issued, id, item, fetches, certs, shownBy, modal>>

(* The list of the consumer whose token it is; 401 for a replaced token. *)
ServeList(l) ==
  /\ l \in loads /\ ~l.done
  /\ loads' = (loads \ {l}) \cup
       {[l EXCEPT !.done = TRUE,
                  !.res = IF \E c \in Clients : tokens[c] = l.token
                          THEN LET c == CHOOSE c \in Clients : tokens[c] = l.token
                               IN  [owner |-> c, count |-> issued[c]]
                          ELSE Empty]}
  /\ UNCHANGED <<tokens, issued, id, item, fetches, certs, spinning, started, shownBy, modal, added>>

(* Each answer replaces the list and stops the spinner, an error as well. *)
ListArrives(l) ==
  /\ l \in loads /\ l.done
  /\ \E res \in {l.res, Empty} : certs' = [token |-> l.token, res |-> res]
  /\ loads' = loads \ {l} /\ shownBy' = l.n /\ spinning' = FALSE
  /\ UNCHANGED <<tokens, issued, id, item, fetches, started, modal, added>>

-----------------------------------------------------------------------------
(* The dialogue takes the consumer as the page has it. *)
OpenModal ==
  /\ modal.at # "open" /\ item # NoItem
  /\ modal' = [NoModal EXCEPT !.at = "open", !.client = item]
  /\ UNCHANGED <<tokens, issued, id, item, fetches, loads, certs, spinning, started, shownBy, added>>

SubmitRequest ==
  /\ modal.at = "open" /\ ~modal.running
  /\ modal' = [modal EXCEPT !.running = TRUE]
  /\ UNCHANGED <<tokens, issued, id, item, fetches, loads, certs, spinning, started, shownBy, added>>

(* The stream reports a certificate, a cached one or a new one (a failure   *)
(* it reports, a refused token among them, changes nothing here).           *)
Completed ==
  LET c == modal.client.id IN
  /\ modal.running /\ tokens[c] = modal.client.token
  /\ \E n \in {issued[c], issued[c] + 1} :
       /\ n \in 1..MaxIssued /\ issued' = [issued EXCEPT ![c] = n]
       /\ added' = (added \/ n # issued[c])
  /\ UNCHANGED <<tokens, id, item, fetches, loads, certs, spinning, started, shownBy, modal>>

(* The stream is closed, by its end or by the button. *)
StreamCloses ==
  /\ modal.running
  /\ modal' = [modal EXCEPT !.running = FALSE]
  /\ UNCHANGED <<tokens, issued, id, item, fetches, loads, certs, spinning, started, shownBy, added>>

(* A click beside the dialogue closes it and its stream, and loads nothing. *)
Dismiss ==
  /\ modal.at = "open"
  /\ modal' = NoModal
  /\ UNCHANGED <<tokens, issued, id, item, fetches, loads, certs, spinning, started, shownBy, added>>

PageNext ==
  \/ \E c \in Clients : Navigate(c)
  \/ \E f \in fetches : ServeItem(f) \/ ItemArrives(f) \/ ItemFails(f)
  \/ \E l \in loads : ServeList(l) \/ ListArrives(l)
  \/ ClickRotate \/ ClickRefresh \/ OpenModal \/ SubmitRequest \/ Completed
  \/ StreamCloses \/ Dismiss

PageSpec == PageInit /\ [][PageNext]_pageVars

-----------------------------------------------------------------------------
(* ConsumerDetailPage.vue:61,83: once no list is on its way and none has    *)
(* overtaken the last one asked for, the list was asked for with the token  *)
(* the page has, whatever was fetched, rotated or navigated to meanwhile,   *)
(* and is an error or the list of the consumer on the page, complete but    *)
(* for the certificates added since (nothing loads it after a request).     *)
ListFollowsConsumer ==
  loads = {} /\ shownBy = started /\ item # NoItem
  => /\ certs.token = item.token
     /\ certs.res # Empty => /\ certs.res.owner = item.id
                             /\ ~added => certs.res.count = issued[item.id]
=============================================================================
