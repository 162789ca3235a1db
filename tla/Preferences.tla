----------------------------- MODULE Preferences -----------------------------
(***************************************************************************)
(* Notification preferences                                                *)
(* (src/services/domains/pcb/notification_preferences.py): one shared      *)
(* object, loaded from its SQLite row on first use, changed in place by    *)
(* the chat tools and the settings page, read by the automatic             *)
(* notifications of src/agents/tools/pcb/_helpers.py.                      *)
(*                                                                         *)
(* _prefs_lock is not reentrant.  An update holds it and calls the getter, *)
(* which takes it again when nothing is loaded yet.                        *)
(***************************************************************************)
EXTENDS Naturals, FiniteSets

CONSTANTS Requesters,      \* request and monitoring threads
          MaxSaveErrors,\* bound: how often the UPDATE raises
          MaxRestarts,  \* bound: how often the process is restarted
          NoThread, NotLoaded

ASSUME PreferencesAssumption ==
  /\ NoThread \notin Requesters
  /\ MaxSaveErrors \in Nat /\ MaxRestarts \in Nat

\* What decides about a mail: email_enabled, and whether the others
\* (email_recipients, min_severity, quiet hours) let it through.
Fields == {"enabled", "others"}
Prefs == [Fields -> BOOLEAN]
Defaults == [f \in Fields |-> f = "enabled"]

ASSUME NotLoadedAssumption == NotLoaded \notin Prefs

\* keyword arguments of an update: values for some of the fields.
Updates == UNION {[F -> BOOLEAN] : F \in (SUBSET Fields) \ {{}}}
Nothing == [f \in {} |-> FALSE]

VARIABLES
  cache,     \* _preferences
  row,       \* the only row of the table
  prefsLock, \* holder of _prefs_lock
  step,      \* per thread: where it is
  todo,      \* per thread: the fields it has still to set
  disabled,  \* the last update that set email_enabled disabled mail
  obeys,     \* threads whose notification began while disabled held
  unsaved,   \* a save failed and none succeeded since
  saveErrors, restarts

prefsVars == <<cache, row, prefsLock, step, todo, disabled, obeys,
               unsaved, saveErrors, restarts>>

Steps == {"idle", "read", "lockRead", "load", "toggle", "lockUpdate", "nested",
          "set", "save", "check", "decide", "send"}

PrefsTypeOK ==
  /\ cache \in Prefs \union {NotLoaded} /\ row \in Prefs
  /\ prefsLock \in Requesters \union {NoThread}
  /\ step \in [Requesters -> Steps]
  /\ todo \in [Requesters -> Updates \union {Nothing}]
  /\ disabled \in BOOLEAN /\ unsaved \in BOOLEAN /\ obeys \subseteq Requesters
  /\ saveErrors \in 0..MaxSaveErrors /\ restarts \in 0..MaxRestarts

PrefsInit ==
  /\ cache = NotLoaded /\ row = Defaults /\ prefsLock = NoThread
  /\ step = [t \in Requesters |-> "idle"]
  /\ todo = [t \in Requesters |-> Nothing]
  /\ disabled = FALSE /\ obeys = {} /\ unsaved = FALSE
  /\ saveErrors = 0 /\ restarts = 0

Move(t, from, to) == step[t] = from /\ step' = [step EXCEPT ![t] = to]
Loaded == cache # NotLoaded

(***************************************************************************)
(* get_notification_preferences, and what its callers go on to             *)
(***************************************************************************)

\* A GET request, a notification or a tool call reads the preferences: without
\* the lock when they are loaded.
Read(t) ==
  /\ Move(t, "idle", IF Loaded THEN "read" ELSE "lockRead")
  /\ UNCHANGED <<cache, row, prefsLock, todo, disabled, obeys, unsaved,
                 saveErrors, restarts>>

LockToRead(t) ==
  /\ prefsLock = NoThread
  /\ IF Loaded
       THEN Move(t, "lockRead", "read") /\ UNCHANGED prefsLock
       ELSE Move(t, "lockRead", "load") /\ prefsLock' = t
  /\ UNCHANGED <<cache, row, todo, disabled, obeys, unsaved, saveErrors,
                 restarts>>

\* load_preferences under the lock.
Load(t) ==
  /\ Move(t, "load", "read")
  /\ cache' = row
  /\ prefsLock' = NoThread
  /\ UNCHANGED <<row, todo, disabled, obeys, unsaved, saveErrors, restarts>>

\* GET /notifications/preferences, tool_get_notification_preferences.
Answer(t) ==
  /\ Move(t, "read", "idle")
  /\ UNCHANGED <<cache, row, prefsLock, todo, disabled, obeys, unsaved,
                 saveErrors, restarts>>

\* tool_toggle_email_notifications: named fields, or enabled negated.
Toggle(t) ==
  /\ Move(t, "read", "lockUpdate")
  /\ \E u \in Updates \union {[f \in {"enabled"} |-> ~cache.enabled]} :
       todo' = [todo EXCEPT ![t] = u]
  /\ UNCHANGED <<cache, row, prefsLock, disabled, obeys, unsaved, saveErrors,
                 restarts>>

(***************************************************************************)
(* update_notification_preferences                                         *)
(***************************************************************************)

\* PUT /notifications/preferences: no read comes first.
PutUpdate(t) ==
  /\ Move(t, "idle", "lockUpdate")
  /\ \E u \in Updates : todo' = [todo EXCEPT ![t] = u]
  /\ UNCHANGED <<cache, row, prefsLock, disabled, obeys, unsaved, saveErrors,
                 restarts>>

LockToUpdate(t) ==
  /\ prefsLock = NoThread /\ prefsLock' = t
  /\ Move(t, "lockUpdate", "nested")
  /\ UNCHANGED <<cache, row, todo, disabled, obeys, unsaved, saveErrors,
                 restarts>>

\* The getter under the lock: it returns at once when the preferences are
\* loaded, and else waits for the lock its own caller holds.
Nested(t) ==
  /\ Move(t, "nested", "set") /\ Loaded
  /\ UNCHANGED <<cache, row, prefsLock, todo, disabled, obeys, unsaved,
                 saveErrors, restarts>>

\* setattr on the shared object: readers see the fields change one by one.
SetField(t) ==
  /\ step[t] = "set"
  /\ \E f \in DOMAIN todo[t] :
       /\ cache' = [cache EXCEPT ![f] = todo[t][f]]
       /\ todo' = [todo EXCEPT
            ![t] = [g \in DOMAIN todo[t] \ {f} |-> todo[t][g]]]
       /\ IF f = "enabled" THEN disabled' = FALSE /\ obeys' = {}
                           ELSE UNCHANGED <<disabled, obeys>>
  /\ step' = IF DOMAIN todo'[t] = {} THEN [step EXCEPT ![t] = "save"] ELSE step
  /\ UNCHANGED <<row, prefsLock, unsaved, saveErrors, restarts>>

\* save_preferences writes the whole object.
Save(t) ==
  /\ Move(t, "save", "idle")
  /\ row' = cache
  /\ prefsLock' = NoThread
  /\ unsaved' = FALSE
  /\ disabled' = ~cache.enabled
  /\ UNCHANGED <<cache, todo, obeys, saveErrors, restarts>>

\* The UPDATE raises: the request fails, the object keeps what was set.
SaveFails(t) ==
  /\ Move(t, "save", "idle")
  /\ saveErrors < MaxSaveErrors /\ saveErrors' = saveErrors + 1
  /\ prefsLock' = NoThread
  /\ unsaved' = TRUE
  /\ UNCHANGED <<cache, row, todo, disabled, obeys, restarts>>

(***************************************************************************)
(* _auto_notify_defect                                                     *)
(***************************************************************************)

\* should_notify reads the fields of the shared object one after another.
Notify(t) ==
  /\ Move(t, "read", "check")
  /\ obeys' = IF disabled THEN obeys \union {t} ELSE obeys \ {t}
  /\ UNCHANGED <<cache, row, prefsLock, todo, disabled, unsaved, saveErrors,
                 restarts>>

CheckEnabled(t) ==
  /\ Move(t, "check", IF cache.enabled THEN "decide" ELSE "idle")
  /\ UNCHANGED <<cache, row, prefsLock, todo, disabled, obeys, unsaved,
                 saveErrors, restarts>>

ShouldNotify(t) ==
  /\ Move(t, "decide", IF cache.others THEN "send" ELSE "idle")
  /\ UNCHANGED <<cache, row, prefsLock, todo, disabled, obeys, unsaved,
                 saveErrors, restarts>>

Send(t) ==
  /\ Move(t, "send", "idle")
  /\ UNCHANGED <<cache, row, prefsLock, todo, disabled, obeys, unsaved,
                 saveErrors, restarts>>

Restart ==
  /\ restarts < MaxRestarts /\ restarts' = restarts + 1
  /\ cache' = NotLoaded /\ prefsLock' = NoThread
  /\ step' = [t \in Requesters |-> "idle"]
  /\ todo' = [t \in Requesters |-> Nothing]
  /\ unsaved' = FALSE
  /\ UNCHANGED <<row, disabled, obeys, saveErrors>>

PrefsStep(t) ==
  \/ LockToRead(t) \/ Load(t) \/ Answer(t) \/ Toggle(t)
  \/ LockToUpdate(t) \/ Nested(t) \/ SetField(t) \/ Save(t) \/ SaveFails(t)
  \/ Notify(t) \/ CheckEnabled(t) \/ ShouldNotify(t) \/ Send(t)

PrefsNext == Restart \/ \E t \in Requesters : Read(t) \/ PutUpdate(t) \/ PrefsStep(t)

\* A call runs to its end; the lock goes to each thread that waits for it.
PrefsFairness == \A t \in Requesters : SF_prefsVars(PrefsStep(t))

PrefsSpec == PrefsInit /\ [][PrefsNext]_prefsVars /\ PrefsFairness

-----------------------------------------------------------------------------
\* Between updates, and unless a save failed, what is served is what a restart
\* would load: the shared object and the row never drift apart however
\* updates, toggles and first loads interleave (load_preferences,
\* save_preferences).
ServedIsSaved ==
  (\A t \in Requesters : step[t] \notin {"set", "save"}) /\ ~unsaved /\ Loaded
    => cache = row

\* A notification that began when the last update naming email_enabled had
\* switched mail off sends none, unless an update of that field has begun
\* since: the acknowledged setting holds for every reader and over restarts
\* (should_notify, "Respects the user's notification preferences").
DisabledIsObeyed ==
  \A t \in Requesters : step[t] = "send" => t \notin obeys

\* Every call on the preferences returns ("Both the monitoring loop and the
\* chat interface access these preferences through a thread-safe singleton",
\* notification_preferences.py): the code does not keep this.
PreferencesAnswer == \A t \in Requesters : step[t] # "idle" ~> step[t] = "idle"

=============================================================================
