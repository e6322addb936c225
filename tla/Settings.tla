------------------------------ MODULE Settings ------------------------------
(***************************************************************************)
(* The settings (settings/service.ts) and their page (SettingPage.vue).    *)
(* The page loads every key, edits a copy and sends all of it back; the    *)
(* server writes it key by key.                                            *)
(***************************************************************************)
EXTENDS Integers, Sequences

CONSTANTS
  Windows,    \* values of renew_window_ratio an admin may type
  Passwords,  \* values of admin_password an admin may type
  Pages       \* open setting pages

Blank == ""
KEYS  == <<"renew_window_ratio", "admin_password">>
Keys  == {KEYS[i] : i \in DOMAIN KEYS}
Values(k) == {Blank} \cup (IF k = "admin_password" THEN Passwords ELSE Windows)

VARIABLES
  setting,  \* the stored value of each key
  page,     \* each page: its form and its requests
  was       \* history: the values each key has had

settingVars == <<setting, page, was>>

Forms == {f \in [Keys -> Values("admin_password") \cup Values("renew_window_ratio")] :
            \A k \in Keys : f[k] \in Values(k)}
BlankForm == [k \in Keys |-> Blank]
NewPage == [at |-> "closed", form |-> BlankForm, touched |-> {}, failed |-> FALSE,
            kept |-> {}, next |-> 1]

SettingsTypeOK ==
  /\ setting \in Forms
  /\ page \in [Pages -> [at : {"closed", "loading", "ready", "saving", "answering"},
                         form : Forms, touched : SUBSET Keys, failed : BOOLEAN,
                         kept : SUBSET Keys, next : DOMAIN KEYS]]
  /\ was \in [Keys -> SUBSET UNION {Values(k) : k \in Keys}]

SettingsInit ==
  /\ setting \in Forms
  /\ page = [p \in Pages |-> NewPage]
  /\ was = [k \in Keys |-> {setting[k]}]

(* The page opens on a blank form and asks for the values; so does a retry. *)
Load(p) ==
  /\ page[p].at \in {"closed", "ready"}
  /\ page' = [page EXCEPT ![p].at = "loading"]
  /\ UNCHANGED <<setting, was>>

(* The values replace the form, with whatever was typed while they loaded. *)
Loaded(p) ==
  /\ page[p].at = "loading"
  /\ page' = [page EXCEPT ![p] = [NewPage EXCEPT !.at = "ready", !.form = setting]]
  /\ UNCHANGED <<setting, was>>

(* The form stays on the screen as it is: blank, if this was the first load. *)
LoadFails(p) ==
  /\ page[p].at = "loading"
  /\ page' = [page EXCEPT ![p].at = "ready", ![p].failed = TRUE, ![p].touched = {}]
  /\ UNCHANGED <<setting, was>>

(* What is typed while a save is under way goes with its answer: left out. *)
Type(p, k, v) ==
  /\ page[p].at \in {"loading", "ready"}
  /\ v \in Values(k) /\ page[p].form[k] # v
  /\ page' = [page EXCEPT ![p].form[k] = v, ![p].touched = IF page[p].failed THEN @ ELSE @ \cup {k}]
  /\ UNCHANGED <<setting, was>>

(* A slip: only saving disables the button. *)
CanSaveUnlessSaving(p) == page[p].at \in {"loading", "ready"}

(* The button is disabled while the page loads or saves. *)
CanSave(p) == page[p].at = "ready"

HandleSave(p) ==
  /\ CanSave(p)
  /\ page' = [page EXCEPT ![p].at = "saving", ![p].next = 1,
                          ![p].kept = IF page[p].failed THEN {} ELSE Keys \ page[p].touched]
  /\ UNCHANGED <<setting, was>>

(* setSettings upserts the next key. *)
SetSetting(p) ==
  LET k == KEYS[page[p].next] IN
  /\ page[p].at = "saving"
  /\ setting' = [setting EXCEPT ![k] = page[p].form[k]]
  /\ was' = [was EXCEPT ![k] = @ \cup {page[p].form[k]}]
  /\ page' = IF page[p].next < Len(KEYS)
             THEN [page EXCEPT ![p].next = @ + 1]
             ELSE [page EXCEPT ![p] = [NewPage EXCEPT !.at = "answering", !.form = page[p].form,
                                         !.touched = page[p].touched, !.failed = page[p].failed]]

(* The answer is what is stored by now; it replaces the form. *)
Saved(p) ==
  /\ page[p].at = "answering"
  /\ page' = [page EXCEPT ![p] = [NewPage EXCEPT !.at = "ready", !.form = setting]]
  /\ UNCHANGED <<setting, was>>

(* The request or its answer is lost, or the worker stops between two keys. *)
SaveFails(p) ==
  /\ page[p].at \in {"saving", "answering"}
  /\ page' = [page EXCEPT ![p].at = "ready", ![p].kept = {}, ![p].next = 1]
  /\ UNCHANGED <<setting, was>>

Leave(p) ==
  /\ page[p].at = "ready"
  /\ page' = [page EXCEPT ![p] = NewPage]
  /\ UNCHANGED <<setting, was>>

SettingsNext ==
  \E p \in Pages :
    \/ Load(p) \/ Loaded(p) \/ LoadFails(p) \/ HandleSave(p) \/ SetSetting(p)
    \/ Saved(p) \/ SaveFails(p) \/ Leave(p)
    \/ \E k \in Keys : \E v \in Values(k) : Type(p, k, v)

SettingsSpec == SettingsInit /\ [][SettingsNext]_settingVars

-----------------------------------------------------------------------------
(* SettingPage.vue:47: the whole form is sent, so saving one setting must   *)
(* not reset the other: unless a load failed, a field its admin left alone  *)
(* is sent only with a value the key has had.                               *)
UntouchedFieldsKeepTheirValues ==
  \A p \in Pages : \A k \in page[p].kept : page[p].form[k] \in was[k]
=============================================================================
