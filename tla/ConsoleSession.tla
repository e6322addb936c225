--------------------------- MODULE ConsoleSession ---------------------------
(***************************************************************************)
(* Signing in and out of the console: the cookie of auth/routes.ts, which  *)
(* the tabs of a browser share, and each tab's own idea of it              *)
(* (stores/auth.ts, utils/api.ts, router).  A call carries the cookie of   *)
(* the moment it is sent; its answer arrives later or never.               *)
(***************************************************************************)
CONSTANTS Tabs

VARIABLES
  cookie,         \* the browser holds the signed cookie
  authenticated,  \* of each tab's store
  ready,          \* the tab has asked /me
  view,           \* each tab's route; a page of the console is blank
                  \* while the store says nobody is signed in (App.vue)
  calls,          \* each tab's calls under way
  redirects,      \* tabs whose handleUnauthorized waits for its imports
  strays          \* history: tabs a failed logout left where they were

sessionVars == <<cookie, authenticated, ready, view, calls, redirects, strays>>

Kinds == {"me", "login", "logout", "api"}

SessionTypeOK ==
  /\ cookie \in BOOLEAN
  /\ authenticated \in [Tabs -> BOOLEAN] /\ ready \in [Tabs -> BOOLEAN]
  /\ view \in [Tabs -> {"loading", "login", "app"}]
  /\ calls \in [Tabs -> SUBSET [kind : Kinds, ok : BOOLEAN]]
  /\ redirects \subseteq Tabs /\ strays \subseteq Tabs

SessionInit ==
  /\ cookie = FALSE
  /\ authenticated = [t \in Tabs |-> FALSE] /\ ready = [t \in Tabs |-> FALSE]
  /\ view = [t \in Tabs |-> "loading"] /\ calls = [t \in Tabs |-> {}]
  /\ redirects = {} /\ strays = {}

Waiting(t, kind) == \E c \in calls[t] : c.kind = kind
Call(t, kind, ok) == calls' = [calls EXCEPT ![t] = @ \cup {[kind |-> kind, ok |-> ok]}]
Answered(t, c) == calls' = [calls EXCEPT ![t] = @ \ {c}]

(* The guard of every page but the login: ask once, then trust the store. *)
Show(t, signedIn) ==
  /\ view' = [view EXCEPT ![t] = IF signedIn THEN "app" ELSE "login"]
  /\ strays' = strays \ {t}

(* A tab is opened or reloaded, at a page of the console or at /login: a    *)
(* new store, and no answer reaches the old one.                            *)
Reload(t) ==
  /\ authenticated' = [authenticated EXCEPT ![t] = FALSE]
  /\ ready' = [ready EXCEPT ![t] = FALSE]
  /\ \E page \in {"loading", "login"} : view' = [view EXCEPT ![t] = page]
  /\ calls' = [calls EXCEPT ![t] = {}]
  /\ redirects' = redirects \ {t} /\ strays' = strays \ {t}
  /\ UNCHANGED cookie

Check(t) ==
  /\ view[t] = "loading" /\ ~ready[t] /\ ~Waiting(t, "me")
  /\ Call(t, "me", cookie)
  /\ UNCHANGED <<cookie, authenticated, ready, view, redirects, strays>>

(* Its answer, or its failure, which counts as a no. *)
Checked(t) ==
  \E c \in calls[t], lost \in BOOLEAN :
    /\ c.kind = "me"
    /\ Answered(t, c)
    /\ authenticated' = [authenticated EXCEPT ![t] = c.ok /\ ~lost]
    /\ ready' = [ready EXCEPT ![t] = TRUE]
    /\ Show(t, c.ok /\ ~lost)
    /\ UNCHANGED <<cookie, redirects>>

Login(t) ==
  /\ view[t] = "login" /\ ~Waiting(t, "login")
  /\ \E right \in BOOLEAN : Call(t, "login", right)
  /\ UNCHANGED <<cookie, authenticated, ready, view, redirects, strays>>

(* The cookie comes with the answer; the page goes where it was headed,     *)
(* through the guard, which asks /me if this tab has not.                   *)
LoggedIn(t) ==
  \E c \in calls[t] :
    /\ c.kind = "login" /\ c.ok
    /\ Answered(t, c)
    /\ cookie' = TRUE
    /\ authenticated' = [authenticated EXCEPT ![t] = TRUE]
    /\ view' = [view EXCEPT ![t] = IF ready[t] THEN "app" ELSE "loading"]
    /\ UNCHANGED <<ready, redirects, strays>>

(* A wrong password is a 401 like any other; no answer leaves the form. *)
LoginFails(t) ==
  \E c \in calls[t] :
    /\ c.kind = "login"
    /\ Answered(t, c)
    /\ redirects' = IF c.ok THEN redirects ELSE redirects \cup {t}
    /\ UNCHANGED <<cookie, authenticated, ready, view, strays>>

Logout(t) ==
  /\ view[t] = "app" /\ authenticated[t] /\ ~Waiting(t, "logout")
  /\ Call(t, "logout", TRUE)
  /\ UNCHANGED <<cookie, authenticated, ready, view, redirects, strays>>

LoggedOut(t) ==
  \E c \in calls[t] :
    /\ c.kind = "logout"
    /\ Answered(t, c)
    /\ cookie' = FALSE
    /\ authenticated' = [authenticated EXCEPT ![t] = FALSE]
    /\ Show(t, FALSE)
    /\ UNCHANGED <<ready, redirects>>

(* The store forgets the session, but the error keeps the tab at its route, *)
(* now blank, and the browser keeps the cookie.                             *)
LogoutFails(t) ==
  \E c \in calls[t] :
    /\ c.kind = "logout"
    /\ Answered(t, c)
    /\ authenticated' = [authenticated EXCEPT ![t] = FALSE]
    /\ strays' = IF view[t] = "app" THEN strays \cup {t} ELSE strays
    /\ UNCHANGED <<cookie, ready, view, redirects>>

(* A page calls the API: the cookie of this moment decides. *)
Fetch(t) ==
  /\ view[t] = "app" /\ authenticated[t] /\ ~Waiting(t, "api")
  /\ Call(t, "api", cookie)
  /\ UNCHANGED <<cookie, authenticated, ready, view, redirects, strays>>

Fetched(t) ==
  \E c \in calls[t], lost \in BOOLEAN :
    /\ c.kind = "api"
    /\ Answered(t, c)
    /\ redirects' = IF c.ok \/ lost THEN redirects ELSE redirects \cup {t}
    /\ UNCHANGED <<cookie, authenticated, ready, view, strays>>

(* A slip: the store forgets the session and the page stays. *)
ForgetOnly(t) ==
  /\ t \in redirects
  /\ redirects' = redirects \ {t}
  /\ authenticated' = [authenticated EXCEPT ![t] = FALSE]
  /\ UNCHANGED <<cookie, ready, view, calls, strays>>

(* handleUnauthorized, once the store and the router are imported. *)
HandleUnauthorized(t) ==
  /\ t \in redirects
  /\ redirects' = redirects \ {t}
  /\ authenticated' = [authenticated EXCEPT ![t] = FALSE]
  /\ IF view[t] = "app" THEN Show(t, FALSE) ELSE UNCHANGED <<view, strays>>
  /\ UNCHANGED <<cookie, ready, calls>>

(* A link, or the browser's history, goes through the guard. *)
FollowLink(t) ==
  /\ view[t] = "app"
  /\ Show(t, authenticated[t])
  /\ UNCHANGED <<cookie, authenticated, ready, calls, redirects>>

Answers(t) ==
  \/ Checked(t) \/ LoggedIn(t) \/ LoginFails(t) \/ LoggedOut(t) \/ LogoutFails(t)
  \/ Fetched(t) \/ HandleUnauthorized(t)

SessionNext ==
  \E t \in Tabs :
    \/ Answers(t) \/ Reload(t) \/ Check(t) \/ Login(t) \/ Logout(t) \/ Fetch(t) \/ FollowLink(t)

SessionSpec == SessionInit /\ [][SessionNext]_sessionVars

-----------------------------------------------------------------------------
(* App.vue:85, router, api.ts:12, stores/auth.ts: whatever answers of       *)
(* whatever age arrive, no tab is left at a page of the console while its   *)
(* store says nobody is signed in, where it would show nothing and ask for  *)
(* no password, except after a logout that failed.                          *)
AppPagesAreSignedIn ==
  \A t \in Tabs : view[t] = "app" => authenticated[t] \/ t \in strays
=============================================================================
