----------------------------- MODULE DetailPage -----------------------------
(***************************************************************************)
(* The pages of one row (AcmeAccount-, DnsCredential-, Domain- and         *)
(* CertificateDetailPage.vue) in the frame they share (PageDetail.vue)     *)
(* and with its RemovalButton.  A page reads the row of its route and      *)
(* shows what arrives; its editor goes by the row shown, its removal by    *)
(* the route.  Routes of one kind share a component, so a page goes from   *)
(* row to row while reads and removals are under way.                      *)
(***************************************************************************)
EXTENDS Integers, Sequences

AccountPage     == [kind |-> "account",     edit |-> TRUE]
CredentialPage  == [kind |-> "credential",  edit |-> TRUE]
DomainPage      == [kind |-> "domain",      edit |-> TRUE]
CertificatePage == [kind |-> "certificate", edit |-> FALSE]
DetailPages     == {AccountPage, CredentialPage, DomainPage, CertificatePage}

CONSTANTS
  Rows,       \* accounts, credentials, domains and certificates
  PageOf,     \* the page each of them has
  Elsewhere,  \* the lists and all other pages
  MaxVisits,  \* bound: entries of the browser's history
  MaxReads    \* bound: reads sent

ASSUME DetailAssumption ==
  /\ PageOf \in [Rows -> DetailPages] /\ Elsewhere \notin Rows
  /\ MaxVisits \in Nat /\ MaxReads \in Nat

VARIABLES
  standing,  \* server: the rows there are
  trail,     \* the browser's history
  pos,       \* where in it the tab is
  mounted,   \* the component on the screen: the number of its first read, or 0
  card,      \* item: the row shown
  reads,     \* fetches of item under way
  asked,     \* number of the read sent last
  heard,     \* number of the read whose answer came last
  failed,    \* status.error
  editor,    \* the row whose form is open
  removals   \* removals under way

detailVars == <<standing, trail, pos, mounted, card, reads, asked, heard, failed, editor, removals>>

NoRow   == Elsewhere
Places  == Rows \cup {Elsewhere}
Replies == {"none", "ok", "error"}

DetailTypeOK ==
  /\ standing \subseteq Rows
  /\ trail \in Seq(Places) /\ pos \in 1..Len(trail)
  /\ mounted \in 0..MaxReads /\ card \in Rows \cup {NoRow}
  /\ reads \subseteq [n : 1..MaxReads, row : Rows, reply : Replies]
  /\ asked \in 0..MaxReads /\ heard \in 0..MaxReads
  /\ failed \in BOOLEAN /\ editor \in Rows \cup {NoRow}
  /\ removals \subseteq [row : Rows, by : 1..MaxReads, reply : Replies]

place    == trail[pos]
Loading  == reads # {}
Removing == \E r \in removals : r.by = mounted

Read(row) == [n |-> asked + 1, row |-> row, reply |-> "none"]

DetailInit ==
  /\ standing = Rows /\ removals = {} /\ mounted = 0
  /\ trail = <<Elsewhere>> /\ pos = 1
  /\ card = NoRow /\ reads = {} /\ asked = 0 /\ heard = 0 /\ failed = FALSE /\ editor = NoRow

-----------------------------------------------------------------------------
(* A slip: the component is kept, and nothing watches its id. *)
ArriveUnwatched(to) ==
  IF to \in Rows /\ place \in Rows /\ PageOf[to] = PageOf[place]
  THEN UNCHANGED <<mounted, card, reads, asked, failed, editor>>
  ELSE /\ IF to \in Rows
          THEN asked < MaxReads /\ asked' = asked + 1 /\ reads' = {Read(to)}
          ELSE UNCHANGED asked /\ reads' = {}
       /\ mounted' = IF to \in Rows THEN asked + 1 ELSE 0
       /\ card' = NoRow /\ failed' = FALSE /\ editor' = NoRow

(* The route becomes that of `to': a component of the same kind is kept and *)
(* reads the row if it is another one; any other is replaced, its reads     *)
(* lost and its form closed.                                                *)
Arrive(to) ==
  IF to \in Rows /\ place \in Rows /\ PageOf[to] = PageOf[place]
  THEN /\ IF to = place
          THEN UNCHANGED <<asked, reads>>
          ELSE asked < MaxReads /\ asked' = asked + 1 /\ reads' = reads \cup {Read(to)}
       /\ UNCHANGED <<mounted, card, failed, editor>>
  ELSE /\ IF to \in Rows
          THEN asked < MaxReads /\ asked' = asked + 1 /\ reads' = {Read(to)}
          ELSE UNCHANGED asked /\ reads' = {}
       /\ mounted' = IF to \in Rows THEN asked + 1 ELSE 0
       /\ card' = NoRow /\ failed' = FALSE /\ editor' = NoRow

(* A link, from a list to a row and from a row to a list. *)
Visit(to) ==
  /\ pos < MaxVisits /\ editor = NoRow
  /\ (to \in Rows) # (place \in Rows)
  /\ Arrive(to)
  /\ trail' = Append(SubSeq(trail, 1, pos), to) /\ pos' = pos + 1
  /\ UNCHANGED <<standing, heard, removals>>

GoTo(i) ==
  /\ Arrive(trail[i])
  /\ pos' = i
  /\ UNCHANGED <<standing, trail, heard>>

(* The browser's buttons, over any number of entries. *)
Browse(i) ==
  /\ i \in 1..Len(trail) \ {pos}
  /\ GoTo(i)
  /\ UNCHANGED removals

ServeRead(l) ==
  /\ l \in reads /\ l.reply = "none"
  /\ reads' = (reads \ {l}) \cup {[l EXCEPT !.reply = IF l.row \in standing THEN "ok" ELSE "error"]}
  /\ UNCHANGED <<standing, trail, pos, mounted, card, asked, heard, failed, editor, removals>>

(* An answer replaces the row shown; a 404 or a lost one leaves it there,   *)
(* under the error.                                                         *)
ReadArrives(l) ==
  /\ l \in reads /\ l.reply # "none"
  /\ reads' = reads \ {l} /\ heard' = l.n
  /\ \/ l.reply = "ok" /\ card' = l.row /\ failed' = FALSE
     \/ card' = card /\ failed' = TRUE
  /\ UNCHANGED <<standing, trail, pos, mounted, asked, editor, removals>>

Retry ==
  /\ failed /\ ~Loading /\ editor = NoRow /\ asked < MaxReads
  /\ asked' = asked + 1 /\ reads' = reads \cup {Read(place)}
  /\ UNCHANGED <<standing, trail, pos, mounted, card, heard, failed, editor, removals>>

-----------------------------------------------------------------------------
(* update(item.id); the form covers the page. *)
ClickEdit ==
  /\ card # NoRow /\ editor = NoRow /\ PageOf[place].edit
  /\ editor' = card
  /\ UNCHANGED <<standing, trail, pos, mounted, card, reads, asked, heard, failed, removals>>

(* Saved or not: the row shown is not read again. *)
EditorCloses ==
  /\ editor # NoRow
  /\ editor' = NoRow
  /\ UNCHANGED <<standing, trail, pos, mounted, card, reads, asked, heard, failed, removals>>

(* The row of the route, confirmed beside the row that is shown. *)
ConfirmRemoval ==
  /\ card # NoRow /\ editor = NoRow /\ ~Removing
  /\ removals' = removals \cup {[row |-> place, by |-> mounted, reply |-> "none"]}
  /\ UNCHANGED <<standing, trail, pos, mounted, card, reads, asked, heard, failed, editor>>

ServeRemoval(r) ==
  /\ r \in removals /\ r.reply = "none"
  /\ standing' = standing \ {r.row}
  /\ removals' = (removals \ {r}) \cup {[r EXCEPT !.reply = IF r.row \in standing THEN "ok" ELSE "error"]}
  /\ UNCHANGED <<trail, pos, mounted, card, reads, asked, heard, failed, editor>>

(* router.back(), from wherever the tab is by then. *)
RemovalArrives(r) ==
  /\ r \in removals /\ r.reply = "ok"
  /\ removals' = removals \ {r}
  /\ IF pos > 1 THEN GoTo(pos - 1)
     ELSE UNCHANGED <<standing, trail, pos, mounted, card, reads, asked, heard, failed, editor>>

(* An error, or an answer that is lost: the button shows it. *)
RemovalFails(r) ==
  /\ r \in removals /\ r.reply # "none"
  /\ removals' = removals \ {r}
  /\ UNCHANGED <<standing, trail, pos, mounted, card, reads, asked, heard, failed, editor>>

(* Another tab removes a row. *)
RemovedElsewhere(row) ==
  /\ row \in standing
  /\ standing' = standing \ {row}
  /\ UNCHANGED <<trail, pos, mounted, card, reads, asked, heard, failed, editor, removals>>

DetailNext ==
  \/ \E to \in Places : Visit(to)
  \/ \E i \in 1..Len(trail) : Browse(i)
  \/ \E l \in reads : ServeRead(l) \/ ReadArrives(l)
  \/ \E r \in removals : ServeRemoval(r) \/ RemovalArrives(r) \/ RemovalFails(r)
  \/ \E row \in Rows : RemovedElsewhere(row)
  \/ Retry \/ ClickEdit \/ EditorCloses \/ ConfirmRemoval

DetailSpec == DetailInit /\ [][DetailNext]_detailVars

-----------------------------------------------------------------------------
(* RemovalButton.vue:25, *DetailPage.vue: the editor, and the admin who      *)
(* confirms a removal, go by the row on the page, the removal itself by the  *)
(* route: wherever a tab has been and whatever was removed meanwhile, the    *)
(* two are one row once the last read sent is the last one answered, unless  *)
(* that failed.                                                              *)
ButtonsActOnOneRow ==
  card # NoRow /\ heard = asked /\ ~failed => card = place
=============================================================================
