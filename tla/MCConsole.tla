----------------------------- MODULE MCConsole -----------------------------
(* The parts of the console side share no step: each is explored on its    *)
(* own, the others standing still.                                         *)
EXTENDS AdminStore, AccountRegistry, Settings, ConsoleSession, ConsumerPage, LogPager,
        DetailPage

VARIABLE part

Parts == {"store", "registry", "settings", "session", "consumer", "logs", "detail"}

MCPageOf == [row \in Rows |-> IF row = "x" THEN CertificatePage ELSE AccountPage]

(* Accounts with their children, credentials with theirs: the two halves of *)
(* the store meet in no statement, so one is removed beforehand; the other  *)
(* is filled or still empty.  Consumers, ids and tokens of the page are     *)
(* interchangeable at the start.                                            *)
Halves == {Accounts \cup Consumers \cup Certificates, Credentials \cup Domains}

ConsoleInit ==
  /\ part \in Parts
  /\ StoreInit /\ RegistryInit /\ SettingsInit /\ SessionInit /\ PageInit /\ PagerInit
  /\ DetailInit
  /\ IF part = "store"
     THEN /\ (Parents \cup Children) \ gone \in Halves
          /\ rows \in {{}, (Parents \cup Consumers \cup Domains) \ gone}
     ELSE rows = {} /\ gone = {}
  /\ IF part = "settings" THEN setting["renew_window_ratio"] # Blank ELSE setting = BlankForm
  /\ id = CHOOSE c \in Clients : TRUE
  /\ tokens[id] = 1
  /\ part # "logs" => logs = {}

ConsoleNext ==
  /\ UNCHANGED part
  /\ \/ part = "store" /\ StoreNext
        /\ UNCHANGED <<registryVars, settingVars, sessionVars, pageVars, logVars, detailVars>>
     \/ part = "registry" /\ RegistryNext
        /\ UNCHANGED <<storeVars, settingVars, sessionVars, pageVars, logVars, detailVars>>
     \/ part = "settings" /\ SettingsNext
        /\ UNCHANGED <<storeVars, registryVars, sessionVars, pageVars, logVars, detailVars>>
     \/ part = "session" /\ SessionNext
        /\ UNCHANGED <<storeVars, registryVars, settingVars, pageVars, logVars, detailVars>>
     \/ part = "consumer" /\ PageNext
        /\ UNCHANGED <<storeVars, registryVars, settingVars, sessionVars, logVars, detailVars>>
     \/ part = "logs" /\ PagerNext
        /\ UNCHANGED <<storeVars, registryVars, settingVars, sessionVars, pageVars, detailVars>>
     \/ part = "detail" /\ DetailNext
        /\ UNCHANGED <<storeVars, registryVars, settingVars, sessionVars, pageVars, logVars>>

consoleVars ==
  <<part, storeVars, registryVars, settingVars, sessionVars, pageVars, logVars, detailVars>>

ConsoleSpec == ConsoleInit /\ [][ConsoleNext]_consoleVars

(* The type invariants of the seven parts, each where its part moves. *)
ConsoleTypeOK ==
  CASE part = "store"    -> StoreTypeOK
    [] part = "registry" -> RegistryTypeOK
    [] part = "settings" -> SettingsTypeOK
    [] part = "session"  -> SessionTypeOK
    [] part = "consumer" -> PageTypeOK
    [] part = "logs"     -> PagerTypeOK
    [] part = "detail"   -> DetailTypeOK
=============================================================================
