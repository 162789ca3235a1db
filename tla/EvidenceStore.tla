---------------------------- MODULE EvidenceStore ----------------------------
(***************************************************************************)
(* Captured images and the rows that point at them: the frame store, the   *)
(* detection log and the defect and inspection records                     *)
(* (src/app/database/repositories.py), filled by the monitoring loop,      *)
(* emptied by the retention worker (src/app/database/maintenance.py) and   *)
(* by the log pages, and read by the inspection tools.                     *)
(*                                                                         *)
(* A removal is three steps in the code, and here: SELECT the doomed rows, *)
(* DELETE them and commit, unlink their files one by one.  A process may   *)
(* die between any two.  A row and its image have one identity.            *)
(***************************************************************************)
EXTENDS Naturals, FiniteSets

CONSTANTS Frames,       \* identities of stored frames and their files
          Logs,         \* identities of detection logs and their files
          Worker,       \* the retention worker of the process
          Admin,        \* the thread serving the log pages
          MaxRows,      \* retention.frame_max_rows
          FrameAge,     \* retention.frame_max_age_seconds
          MaxTime,      \* bound on the clock
          MaxFaults     \* bound on failed writes, failed unlinks and crashes

ASSUME EvidenceAssumption ==
  /\ Frames \intersect Logs = {} /\ Admin # Worker
  /\ IsFiniteSet(Frames) /\ IsFiniteSet(Logs)
  /\ MaxRows \in Nat \ {0} /\ FrameAge \in Nat \ {0}
  /\ MaxTime \in Nat /\ MaxFaults \in Nat

VARIABLES
  now,
  rows,      \* rows of both tables
  at,        \* their timestamp column
  files,     \* images on the data volume
  used,      \* identities handed out so far
  written,   \* images whose write succeeded
  evidence,  \* image_path of defect and inspection rows, which nobody deletes
  saving,    \* images written, or tried, whose row is still to come
  days,      \* log_settings.log_retention
  phase,     \* per remover: what it is doing
  doomed,    \* per remover: the rows it selected
  reading,   \* frame the inspection tool works on, or none
  missed,    \* rows delete_all deleted without having selected them
  faults

evidenceVars == <<now, rows, at, files, used, written, evidence,
                  saving, days, phase, doomed, reading, missed, faults>>

Images == Frames \union Logs
Removers == {Worker, Admin}
Phases == {"frames", "deleteFrames", "unlinkFrames", "logs",
           "deleteLogs", "unlinkLogs", "wait", "idle", "deleteAll", "unlink"}

EvidenceTypeOK ==
  /\ now \in 0..MaxTime
  /\ rows \subseteq used /\ used \subseteq Images
  /\ at \in [Images -> 0..MaxTime]
  /\ files \subseteq written /\ written \subseteq used
  /\ evidence \subseteq used /\ saving \subseteq used
  /\ days \in {0, 1}
  /\ phase \in [Removers -> Phases]
  /\ doomed \in [Removers -> SUBSET Images]
  /\ reading \subseteq Frames /\ Cardinality(reading) <= 1
  /\ missed \subseteq Logs
  /\ faults \in 0..MaxFaults

EvidenceInit ==
  /\ now = 0 /\ rows = {} /\ at = [i \in Images |-> 0]
  /\ files = {} /\ used = {} /\ written = {}
  /\ evidence = {} /\ saving = {}
  /\ days \in {0, 1}
  /\ phase = [r \in Removers |-> IF r = Admin THEN "idle" ELSE "frames"]
  /\ doomed = [r \in Removers |-> {}]
  /\ reading = {} /\ missed = {} /\ faults = 0

Goto(r, from, to) == phase[r] = from /\ phase' = [phase EXCEPT ![r] = to]
Fault == faults < MaxFaults /\ faults' = faults + 1

Tick ==
  /\ now < MaxTime /\ now' = now + 1
  /\ UNCHANGED <<rows, at, files, used, written, evidence, saving, days,
                 phase, doomed, reading, missed, faults>>

(***************************************************************************)
(* The monitoring loop: image first, row second                            *)
(***************************************************************************)

\* Mutant: a file name that a later image gets again.
SaveImage_reuses(i) ==
  /\ i \in Images \ used /\ saving = {}
  /\ saving' = {i}
  /\ files' = files \union {i} /\ written' = written \union {i}
  /\ UNCHANGED <<now, rows, at, used, evidence, days, phase, doomed, reading,
                 missed, faults>>

\* _store_frame, _save_detection_image: cv2.imwrite, which reports a failure
\* in a result nobody reads.
SaveImage(i) ==
  /\ i \in Images \ used /\ saving = {}
  /\ used' = used \union {i}
  /\ saving' = {i}
  /\ \/ files' = files \union {i} /\ written' = written \union {i}
        /\ UNCHANGED faults
     \/ Fault /\ UNCHANGED <<files, written>>
  /\ UNCHANGED <<now, rows, at, evidence, days, phase, doomed, reading,
                 missed>>

\* PCBFrameStoreRepository.store; for a detection first the inspection row
\* (_persist_inspection), then the log row (_record_detection).
InsertRow ==
  \E i \in saving :
    /\ i \in Frames \/ i \in evidence
    /\ rows' = rows \union {i}
    /\ at' = [at EXCEPT ![i] = now]
    /\ saving' = {}
    /\ UNCHANGED <<now, files, used, written, evidence, days, phase, doomed,
                   reading, missed, faults>>

InsertInspection ==
  \E i \in saving \intersect Logs :
    /\ i \notin evidence
    /\ evidence' = evidence \union {i}
    /\ UNCHANGED <<now, rows, at, files, used, written, saving, days, phase,
                   doomed, reading, missed, faults>>

(***************************************************************************)
(* Removing                                                                *)
(***************************************************************************)

StoredFrames == rows \intersect Frames
StoredLogs == rows \intersect Logs

\* Mutant: ORDER BY timestamp ASC.
IsNewest_oldest(keep) ==
  /\ keep \subseteq StoredFrames
  /\ Cardinality(keep) =
       IF Cardinality(StoredFrames) < MaxRows THEN Cardinality(StoredFrames)
       ELSE MaxRows
  /\ \A i \in keep, j \in StoredFrames \ keep : at[i] <= at[j]

\* A choice of the MaxRows newest frames (ORDER BY timestamp DESC LIMIT):
\* rows of one second may come in any order.
IsNewest(keep) ==
  /\ keep \subseteq StoredFrames
  /\ Cardinality(keep) =
       IF Cardinality(StoredFrames) < MaxRows THEN Cardinality(StoredFrames)
       ELSE MaxRows
  /\ \A i \in keep, j \in StoredFrames \ keep : at[i] >= at[j]

Expired(i) == at[i] + FrameAge < now

\* The timestamps go with the rows.
Forget(set) == [i \in Images |-> IF i \in set THEN 0 ELSE at[i]]

Select(r, set) == doomed' = [doomed EXCEPT ![r] = set]

\* cleanup_old
SelectFrames ==
  /\ Goto(Worker, "frames", "deleteFrames")
  /\ \E keep \in SUBSET StoredFrames :
       /\ IsNewest(keep)
       /\ Select(Worker, {i \in StoredFrames : Expired(i) \/ i \notin keep})
  /\ UNCHANGED <<now, rows, at, files, used, written, evidence, saving, days,
                 reading, missed, faults>>

\* delete_older_than; a retention of zero days keeps everything.
SelectOldLogs ==
  /\ Goto(Worker, "logs", "deleteLogs")
  /\ Select(Worker, {i \in StoredLogs : days > 0 /\ at[i] + days < now})
  /\ UNCHANGED <<now, rows, at, files, used, written, evidence, saving, days,
                 reading, missed, faults>>

\* delete, delete_all from the log pages.
SelectLog ==
  /\ \E i \in StoredLogs : Select(Admin, {i})
  /\ Goto(Admin, "idle", "deleteLogs")
  /\ UNCHANGED <<now, rows, at, files, used, written, evidence, saving, days,
                 reading, missed, faults>>

SelectAllLogs ==
  /\ Select(Admin, StoredLogs)
  /\ Goto(Admin, "idle", "deleteAll")
  /\ UNCHANGED <<now, rows, at, files, used, written, evidence, saving, days,
                 reading, missed, faults>>

\* Mutant: the DELETE is not committed.
DeleteRows_uncommitted(r) ==
  /\ \/ Goto(r, "deleteFrames", "unlinkFrames")
     \/ Goto(r, "deleteLogs", IF r = Admin THEN "unlink" ELSE "unlinkLogs")
  /\ UNCHANGED <<now, rows, at, files, used, written, evidence, saving, days,
                 doomed, reading, missed, faults>>

\* DELETE ... WHERE id IN (...) and commit.
DeleteRows(r) ==
  /\ \/ Goto(r, "deleteFrames", "unlinkFrames")
     \/ Goto(r, "deleteLogs", IF r = Admin THEN "unlink" ELSE "unlinkLogs")
  /\ rows' = rows \ doomed[r]
  /\ at' = Forget(doomed[r])
  /\ UNCHANGED <<now, files, used, written, evidence, saving, days, doomed,
                 reading, missed, faults>>

\* DELETE FROM detection_logs takes rows inserted since the SELECT as well.
DeleteAllRows ==
  /\ Goto(Admin, "deleteAll", "unlink")
  /\ rows' = rows \ Logs
  /\ at' = Forget(Logs)
  /\ missed' = missed \union (StoredLogs \ doomed[Admin])
  /\ UNCHANGED <<now, files, used, written, evidence, saving, days, doomed,
                 reading, faults>>

\* _unlink_all: a file that cannot be removed is skipped and stays.
Unlink(r) ==
  /\ phase[r] \in {"unlinkFrames", "unlinkLogs", "unlink"}
  /\ \E i \in doomed[r] :
       /\ doomed' = [doomed EXCEPT ![r] = @ \ {i}]
       /\ \/ files' = files \ {i} /\ UNCHANGED faults
          \/ Fault /\ i \in files /\ UNCHANGED files
  /\ UNCHANGED <<now, rows, at, used, written, evidence, saving, days, phase,
                 reading, missed>>

Unlinked(r) ==
  /\ doomed[r] = {}
  /\ \/ Goto(r, "unlinkFrames", "logs")
     \/ Goto(r, "unlinkLogs", "wait")
     \/ Goto(r, "unlink", "idle")
  /\ UNCHANGED <<now, rows, at, files, used, written, evidence, saving, days,
                 doomed, reading, missed, faults>>

\* A statement of one dataset raises: the sweep goes on with the next one.
SweepFails ==
  /\ Fault
  /\ \/ Goto(Worker, "frames", "logs") \/ Goto(Worker, "deleteFrames", "logs")
     \/ Goto(Worker, "logs", "wait") \/ Goto(Worker, "deleteLogs", "wait")
  /\ Select(Worker, {})
  /\ UNCHANGED <<now, rows, at, files, used, written, evidence, saving, days,
                 reading, missed>>

\* The interval passes: the next sweep.
Wake ==
  /\ Goto(Worker, "wait", "frames")
  /\ UNCHANGED <<now, rows, at, files, used, written, evidence, saving, days,
                 doomed, reading, missed, faults>>

(***************************************************************************)
(* The inspection tools                                                    *)
(***************************************************************************)

\* tool_inspect_pcb_frame: a frame by id, or the latest unconsumed one.
PickFrame ==
  /\ reading = {}
  /\ \E i \in StoredFrames : reading' = {i}
  /\ UNCHANGED <<now, rows, at, files, used, written, evidence, saving, days,
                 phase, doomed, missed, faults>>

\* The image is read, inspected and the row marked; a defect is recorded with
\* the frame's image as its evidence when auto_log is set.
InspectFrame ==
  /\ reading # {} /\ reading \subseteq files
  /\ \E log \in BOOLEAN :
       evidence' = IF log THEN evidence \union reading ELSE evidence
  /\ reading' = {}
  /\ UNCHANGED <<now, rows, at, files, used, written, saving, days, phase,
                 doomed, missed, faults>>

\* cv2.imread returns None: removed since it was picked, or never written.
InspectFails ==
  /\ reading # {} /\ ~(reading \subseteq files)
  /\ reading' = {}
  /\ UNCHANGED <<now, rows, at, files, used, written, evidence, saving, days,
                 phase, doomed, missed, faults>>

\* The process dies: rows and files stay as they are.
Crash ==
  /\ Fault
  /\ saving' = {} /\ reading' = {}
  /\ phase' = [r \in Removers |-> IF r = Admin THEN "idle" ELSE "frames"]
  /\ doomed' = [r \in Removers |-> {}]
  /\ UNCHANGED <<now, rows, at, files, used, written, evidence, days, missed>>

EvidenceNext ==
  \/ Tick \/ Crash \/ InsertRow \/ InsertInspection
  \/ PickFrame \/ InspectFrame \/ InspectFails
  \/ SelectFrames \/ SelectOldLogs \/ SweepFails \/ Wake
  \/ SelectLog \/ SelectAllLogs \/ DeleteAllRows
  \/ \E i \in Images : SaveImage(i)
  \/ \E r \in Removers : DeleteRows(r) \/ Unlink(r) \/ Unlinked(r)

EvidenceSpec == EvidenceInit /\ [][EvidenceNext]_evidenceVars

-----------------------------------------------------------------------------
\* A row never outlives its image, whatever removers, readers and crashes
\* interleave: a file is unlinked only when its row is gone.  And without a
\* fault, but for rows delete_all deleted unseen, an image on the volume has its
\* row, or its row is still to come, or a remover is about to unlink it: nothing
\* else makes the volume grow for ever (cleanup_old, delete_older_than, delete,
\* delete_all, _unlink_all).
RowsAndImagesMatch ==
  /\ rows \intersect written \subseteq files
  /\ faults = 0 =>
       files \subseteq rows \union saving \union missed
                         \union UNION {doomed[r] : r \in Removers}

\* While a sweep removes frames, one that is not too old goes only if one at
\* least as new stays: the frame store never loses its latest frame to the
\* row limit, whatever is stored or deleted meanwhile (cleanup_old).
LatestFrameStays ==
  LET gone == doomed[Worker] \intersect rows \intersect Frames
  IN \A i \in gone :
       Expired(i) \/ \E j \in StoredFrames \ gone : at[j] >= at[i]

=============================================================================
