---------------------------- MODULE DatabaseSetup ----------------------------
(***************************************************************************)
(* Start-up of the database (init_db in src/app/database/connection.py):   *)
(* a script of statements run on a file that may be new, written by an     *)
(* earlier version, or left by a start-up that was cut short.              *)
(*                                                                         *)
(* Python's sqlite3 opens a transaction before an INSERT and not before    *)
(* CREATE or ALTER, so the statements up to the first INSERT are durable   *)
(* one by one and those after it together, at the final commit.            *)
(***************************************************************************)
EXTENDS Naturals, Sequences, SequencesExt

CONSTANTS MaxCrashes   \* bound: how often the process dies

ASSUME MaxCrashesAssumption == MaxCrashes \in Nat

VARIABLES
  db,       \* what the file holds: tables, columns, rows
  pending,  \* statements of the open transaction
  inTx,     \* a transaction is open
  settings, \* log_settings: "none", "default" or "custom"
  at,       \* next statement of the running start-up, 0 when none runs
  ready,    \* init_db returned: the application serves
  crashes

setupVars == <<db, pending, inTx, settings, at, ready, crashes>>

Create(t) == [op |-> "create", obj |-> t]
AddColumn(c) == [op |-> "add", obj |-> c]
Seed(r) == [op |-> "seed", obj |-> r]

Columns == {"vision_description", "decision_details", "tool_trace"}

\* init_db up to the migrations, with the indexes of each table; a new
\* detection_logs table has the migrated columns.
CoreSchema ==
  <<Create("users"), Create("detection_logs"), Create("chat_messages")>>

\* _apply_migrations
Migrations == <<AddColumn("vision_description"), AddColumn("decision_details"),
                AddColumn("tool_trace")>>

\* init_db after the migrations.
LaterSchema ==
  <<Create("config_history"), Create("log_settings"), Seed("log_settings_row"),
    Create("pcb_defects"), Create("pcb_frame_store"), Create("pcb_inspections"),
    Create("notification_preferences"), Seed("notification_row")>>

Script == CoreSchema \o Migrations \o LaterSchema

Objects == {Script[i].obj : i \in DOMAIN Script} \union Columns

SetupTypeOK ==
  /\ db \subseteq Objects /\ pending \subseteq Objects
  /\ inTx \in BOOLEAN /\ ready \in BOOLEAN
  /\ settings \in {"none", "default", "custom"}
  /\ at \in 0..Len(Script) + 1
  /\ crashes \in 0..MaxCrashes

\* A new file, or one of a version before the inspection tables whose
\* detection_logs had only some of the columns and whose settings were edited.
SetupInit ==
  /\ \/ db = {} /\ settings = "none"
     \/ /\ \E cols \in SUBSET Columns :
             db = {"users", "detection_logs", "config_history", "log_settings",
                   "log_settings_row"} \union cols
        /\ settings = "custom"
  /\ pending = {} /\ inTx = FALSE
  /\ at = 1 /\ ready = FALSE /\ crashes = 0

Visible == db \union pending

\* CREATE ... IF NOT EXISTS; _add_column_if_missing tolerates a duplicate
\* column; both seeds insert only where no row is.
Effect(st) ==
  IF st.obj \in Visible THEN {}
    ELSE {st.obj} \union {c \in Columns : st = Create("detection_logs")}

RunStatement ==
  /\ at \in DOMAIN Script
  /\ LET st == Script[at] IN
       /\ inTx' = (inTx \/ st.op = "seed")
       /\ IF inTx'
            THEN pending' = pending \union Effect(st) /\ UNCHANGED db
            ELSE db' = db \union Effect(st) /\ UNCHANGED pending
  /\ at' = at + 1
  /\ UNCHANGED <<settings, ready, crashes>>

\* Mutant: the seed replaces the row that is there.
Finish_reseeds ==
  /\ at = Len(Script) + 1
  /\ db' = Visible /\ pending' = {} /\ inTx' = FALSE
  /\ settings' = "default"
  /\ at' = 0 /\ ready' = TRUE
  /\ UNCHANGED crashes

\* conn.commit() and close at the end of init_db.
Finish ==
  /\ at = Len(Script) + 1
  /\ db' = Visible /\ pending' = {} /\ inTx' = FALSE
  /\ settings' = IF "log_settings_row" \in pending THEN "default" ELSE settings
  /\ at' = 0 /\ ready' = TRUE
  /\ UNCHANGED crashes

\* LogSettingsRepository.update from the settings page.
EditSettings ==
  /\ ready /\ settings' = "custom"
  /\ UNCHANGED <<db, pending, inTx, at, ready, crashes>>

\* The process dies and is started again: the open transaction is lost.
Restart ==
  /\ crashes < MaxCrashes
  /\ crashes' = crashes + 1
  /\ pending' = {} /\ inTx' = FALSE
  /\ at' = 1 /\ ready' = FALSE
  /\ UNCHANGED <<db, settings>>

-----------------------------------------------------------------------------
\* Whatever file it found and wherever earlier start-ups were cut off, a
\* start-up that ends leaves every table, column and row in place, each table
\* created before the columns and rows that need it, and settings the user
\* edited are never put back to the defaults (init_db, _apply_migrations,
\* _seed_log_settings).
SetupIsSound ==
  [][/\ ready' => db' = Objects /\ settings' # "none"
     /\ settings = "custom" => settings' = "custom"]_setupVars
=============================================================================
