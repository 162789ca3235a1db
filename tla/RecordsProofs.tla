---------------------------- MODULE RecordsProofs ---------------------------
(***************************************************************************)
(* Proofs about what is kept of inspections: EvidenceStore, FrameDedup,    *)
(* DefectLog and DefectReports, for any number of images, rows, threads,   *)
(* failures and seconds.                                                   *)
(*                                                                         *)
(* Images (EvidenceIInv): an image has no row yet while it is saved, and   *)
(* is then no remover's; a remover that unlinks works on images whose rows *)
(* are gone; and one that is about to select holds nothing from before.    *)
(* Similar frames (Walked): what is marked so far is covered by a frame    *)
(* that the walk has reached and not marked.                               *)
(* The log (LogIInv): a fingerprint stands for a row that is no older, one *)
(* on its way or a failed insert; and an inspection past its purge sees    *)
(* only fingerprints whose row is within its own time to live.             *)
(* Reports (ReportIInv): the figures a report has fit together, or the     *)
(* query that mends them is the next one, or the last.                     *)
(***************************************************************************)
EXTENDS MCRecords, SequenceTheorems, FiniteSetTheorems, TLAPS

(***************************************************************************)
(* Images and their rows                                                   *)
(***************************************************************************)
Deleting  == {"deleteFrames", "deleteLogs", "deleteAll"}
Unlinking == {"unlinkFrames", "unlinkLogs", "unlink"}

SavedIsNew ==
  /\ \A i, j \in saving : i = j
  /\ saving \intersect rows = {}
  /\ saving \intersect written \subseteq files

DoomedIsHeld ==
  \A r \in Removers :
    /\ doomed[r] \subseteq used \ saving
    /\ phase[r] \notin Deleting \union Unlinking => doomed[r] = {}
    /\ phase[r] \in Unlinking => doomed[r] \intersect rows = {}
    /\ phase[r] = "deleteAll" => doomed[r] \subseteq Logs

EvidenceIInv ==
  EvidenceTypeOK /\ SavedIsNew /\ DoomedIsHeld /\ RowsAndImagesMatch

-----------------------------------------------------------------------------
LEMMA InitHolds == EvidenceInit => EvidenceIInv
<1> SUFFICES ASSUME EvidenceInit PROVE EvidenceIInv
  OBVIOUS
<1>1. EvidenceTypeOK
  <2>1. Cardinality(reading) <= 1
    BY FS_EmptySet DEF EvidenceInit
  <2>2. faults \in 0..MaxFaults /\ now \in 0..MaxTime
    BY EvidenceAssumption DEF EvidenceInit
  <2>3. QED
    BY <2>1, <2>2, EvidenceAssumption
    DEF EvidenceInit, EvidenceTypeOK, Phases
<1>2. SavedIsNew /\ DoomedIsHeld /\ RowsAndImagesMatch
  BY DEF EvidenceInit, SavedIsNew, DoomedIsHeld, RowsAndImagesMatch, Deleting,
         Unlinking
<1>3. QED
  BY <1>1, <1>2 DEF EvidenceIInv

-----------------------------------------------------------------------------
(* Storing *)

LEMMA SaveKeeps ==
  ASSUME EvidenceIInv, NEW i \in Images, SaveImage(i)
  PROVE  EvidenceIInv'
<1> USE DEF EvidenceIInv, SaveImage
<1>1. faults' \in 0..MaxFaults /\ (faults' = 0 => files' = files \union {i})
  BY EvidenceAssumption DEF EvidenceTypeOK, Fault
<1>2. EvidenceTypeOK'
  BY <1>1 DEF EvidenceTypeOK
<1>3. SavedIsNew'
  BY DEF SavedIsNew, EvidenceTypeOK
<1>4. DoomedIsHeld'
  BY DEF DoomedIsHeld
<1>5. RowsAndImagesMatch'
  <2>1. i \notin rows
    BY DEF EvidenceTypeOK
  <2>2. (rows \intersect written \subseteq files)'
    BY <2>1 DEF RowsAndImagesMatch
  <2>3. ASSUME faults' = 0
        PROVE  files \subseteq rows \union missed \union UNION {doomed[r] : r \in Removers}
    <3>1. faults = 0
      BY <2>3, EvidenceAssumption DEF Fault, EvidenceTypeOK
    <3>2. QED
      BY <3>1 DEF RowsAndImagesMatch
  <2>4. QED
    BY <1>1, <2>2, <2>3 DEF RowsAndImagesMatch
<1>6. QED
  BY <1>2, <1>3, <1>4, <1>5

LEMMA InsertRowKeeps ==
  ASSUME EvidenceIInv, InsertRow
  PROVE  EvidenceIInv'
<1> USE DEF EvidenceIInv
<1>1. PICK i \in saving : /\ rows' = rows \union {i}
                          /\ at' = [at EXCEPT ![i] = now]
                          /\ saving' = {}
                          /\ UNCHANGED <<now, files, used, written, evidence, days, phase, doomed,
                                         reading, missed, faults>>
  BY DEF InsertRow
<1>2. saving = {i}
  BY <1>1 DEF SavedIsNew
<1>3. EvidenceTypeOK'
  BY <1>1 DEF EvidenceTypeOK
<1>4. SavedIsNew' /\ DoomedIsHeld'
  BY <1>1, <1>2 DEF SavedIsNew, DoomedIsHeld
<1>5. RowsAndImagesMatch'
  BY <1>1, <1>2 DEF SavedIsNew, RowsAndImagesMatch
<1>6. QED
  BY <1>3, <1>4, <1>5

LEMMA InsertInspectionKeeps ==
  ASSUME EvidenceIInv, InsertInspection
  PROVE  EvidenceIInv'
BY DEF InsertInspection, EvidenceIInv, EvidenceTypeOK, SavedIsNew,
       DoomedIsHeld, RowsAndImagesMatch

-----------------------------------------------------------------------------
(* Removing *)

\* A remover that selects holds nothing that it would forget, and selects rows.
LEMMA SelectKeeps ==
  ASSUME EvidenceIInv, NEW r \in Removers, NEW set \in SUBSET rows,
         NEW to \in Phases \ Unlinking, to = "deleteAll" => set \subseteq Logs,
         phase[r] \notin Deleting \union Unlinking,
         set # {} => to \in Deleting,
         phase' = [phase EXCEPT ![r] = to],
         doomed' = [doomed EXCEPT ![r] = set],
         UNCHANGED <<now, rows, at, files, used, written, evidence, saving, days,
                     reading, missed, faults>>
  PROVE  EvidenceIInv'
<1> USE DEF EvidenceIInv
<1>1. EvidenceTypeOK'
  BY DEF EvidenceTypeOK
<1>2. SavedIsNew'
  BY DEF SavedIsNew
<1>3. DoomedIsHeld'
  <2>1. set \subseteq used \ saving
    BY DEF EvidenceTypeOK, SavedIsNew
  <2>2. QED
    BY <2>1 DEF DoomedIsHeld, EvidenceTypeOK
<1>4. RowsAndImagesMatch'
  <2>1. doomed[r] = {}
    BY DEF DoomedIsHeld
  <2>2. UNION {doomed[s] : s \in Removers} \subseteq UNION {doomed'[s] : s \in Removers}
    BY <2>1 DEF EvidenceTypeOK
  <2>3. QED
    BY <2>2 DEF RowsAndImagesMatch
<1>5. QED
  BY <1>1, <1>2, <1>3, <1>4

LEMMA Selections ==
  ASSUME EvidenceIInv,
         SelectFrames \/ SelectOldLogs \/ SelectLog \/ SelectAllLogs
  PROVE  EvidenceIInv'
<1> USE DEF Goto, Select, Deleting, Unlinking, Phases, Removers, StoredFrames,
            StoredLogs
<1>1. CASE SelectFrames
  BY <1>1, SelectKeeps DEF SelectFrames
<1>2. CASE SelectOldLogs
  BY <1>2, SelectKeeps DEF SelectOldLogs
<1>3. CASE SelectLog
  <2>1. PICK i \in StoredLogs : doomed' = [doomed EXCEPT ![Admin] = {i}]
    BY <1>3 DEF SelectLog
  <2>2. {i} \in SUBSET rows
    BY <2>1
  <2>3. QED
    BY <1>3, <2>1, <2>2, SelectKeeps DEF SelectLog
<1>4. CASE SelectAllLogs
  BY <1>4, SelectKeeps DEF SelectAllLogs
<1>5. QED
  BY <1>1, <1>2, <1>3, <1>4

LEMMA DeleteKeeps ==
  ASSUME EvidenceIInv, NEW r \in Removers, DeleteRows(r)
  PROVE  EvidenceIInv'
<1> USE DEF EvidenceIInv, DeleteRows
<1>1. PICK to \in Unlinking : phase' = [phase EXCEPT ![r] = to]
  BY DEF Goto, Unlinking
<1>2. EvidenceTypeOK'
  BY <1>1, EvidenceAssumption DEF EvidenceTypeOK, Forget, Unlinking, Phases
<1>3. SavedIsNew' /\ DoomedIsHeld'
  BY <1>1 DEF SavedIsNew, DoomedIsHeld, EvidenceTypeOK, Deleting, Unlinking
<1>4. RowsAndImagesMatch'
  BY DEF RowsAndImagesMatch
<1>5. QED
  BY <1>2, <1>3, <1>4

LEMMA DeleteAllKeeps ==
  ASSUME EvidenceIInv, DeleteAllRows
  PROVE  EvidenceIInv'
<1> USE DEF EvidenceIInv, DeleteAllRows, Goto
<1>1. EvidenceTypeOK'
  <2>1. at' \in [Images -> 0..MaxTime]
    BY EvidenceAssumption DEF EvidenceTypeOK, Forget
  <2>2. phase' \in [Removers -> Phases] /\ missed' \subseteq Logs
    BY DEF EvidenceTypeOK, Phases, StoredLogs
  <2>3. QED
    BY <2>1, <2>2 DEF EvidenceTypeOK
<1>2. Admin \in Removers /\ doomed[Admin] \subseteq Logs
  BY DEF DoomedIsHeld, Removers
<1>3. SavedIsNew' /\ DoomedIsHeld'
  BY <1>2 DEF SavedIsNew, DoomedIsHeld, EvidenceTypeOK, Deleting, Unlinking
<1>4. RowsAndImagesMatch'
  <2>1. rows \subseteq rows' \union missed' \union doomed[Admin]
    BY DEF StoredLogs
  <2>2. QED
    BY <1>2, <2>1 DEF RowsAndImagesMatch
<1>5. QED
  BY <1>1, <1>3, <1>4

\* A file goes only when its row is gone.
LEMMA UnlinkKeeps ==
  ASSUME EvidenceIInv, NEW r \in Removers, Unlink(r)
  PROVE  EvidenceIInv'
<1> USE DEF EvidenceIInv
<1>1. PICK i \in doomed[r] :
        /\ doomed' = [doomed EXCEPT ![r] = @ \ {i}]
        /\ \/ files' = files \ {i} /\ UNCHANGED faults
           \/ Fault /\ UNCHANGED files
  BY DEF Unlink
<1>2. /\ phase[r] \in Unlinking
      /\ UNCHANGED <<now, rows, at, used, written, evidence, saving, days,
                     phase, reading, missed>>
  BY DEF Unlink, Unlinking
<1>3. i \notin rows /\ i \notin saving
  BY <1>1, <1>2 DEF DoomedIsHeld
<1>4. doomed' \in [Removers -> SUBSET Images]
      /\ \A s \in Removers : doomed'[s] = IF s = r THEN doomed[r] \ {i} ELSE doomed[s]
  BY <1>1 DEF EvidenceTypeOK
<1>5. EvidenceTypeOK'
  BY <1>1, <1>2, <1>4, EvidenceAssumption DEF EvidenceTypeOK, Fault
<1>6. SavedIsNew'
  BY <1>1, <1>2, <1>3 DEF SavedIsNew
<1>7. DoomedIsHeld'
  BY <1>2, <1>4 DEF DoomedIsHeld
<1>8. RowsAndImagesMatch'
  <2>1. (rows \intersect written \subseteq files)'
    BY <1>1, <1>2, <1>3 DEF RowsAndImagesMatch
  <2>2. ASSUME faults' = 0
        PROVE  faults = 0 /\ files' = files \ {i}
    BY <1>1, <2>2 DEF Fault, EvidenceTypeOK
  <2>3. ASSUME faults' = 0, NEW j \in files'
        PROVE  j \in rows \union saving \union missed
                     \union UNION {doomed'[s] : s \in Removers}
    <3>1. j # i /\ j \in files
      BY <2>2, <2>3
    <3>2. CASE \E s \in Removers : j \in doomed[s]
      BY <1>4, <3>1, <3>2
    <3>3. QED
      BY <2>2, <2>3, <3>1, <3>2 DEF RowsAndImagesMatch
  <2>4. QED
    BY <1>2, <2>1, <2>3 DEF RowsAndImagesMatch
<1>9. QED
  BY <1>5, <1>6, <1>7, <1>8

LEMMA MovesOn ==
  ASSUME EvidenceIInv, NEW r \in Removers, Unlinked(r) \/ (r = Worker /\ Wake)
  PROVE  EvidenceIInv'
<1> USE DEF EvidenceIInv
<1>1. doomed[r] = {} /\ doomed' = doomed
  BY DEF Unlinked, Wake, Goto, DoomedIsHeld, Deleting, Unlinking
<1>2. PICK to \in {"logs", "wait", "idle", "frames"} :
        phase' = [phase EXCEPT ![r] = to]
  BY DEF Unlinked, Wake, Goto
<1>3. UNCHANGED <<now, rows, at, files, used, written, evidence, saving, days,
                  reading, missed, faults>>
  BY DEF Unlinked, Wake
<1>4. EvidenceTypeOK'
  BY <1>1, <1>2, <1>3 DEF EvidenceTypeOK, Phases
<1>5. SavedIsNew' /\ RowsAndImagesMatch'
  BY <1>1, <1>3 DEF SavedIsNew, RowsAndImagesMatch
<1>6. DoomedIsHeld'
  BY <1>1, <1>2, <1>3 DEF DoomedIsHeld, EvidenceTypeOK, Deleting, Unlinking
<1>7. QED
  BY <1>4, <1>5, <1>6

-----------------------------------------------------------------------------
(* Faults: of the removers' work what is left undone stays so *)

LEMMA FaultKeeps ==
  ASSUME EvidenceIInv, SweepFails \/ Crash
  PROVE  EvidenceIInv'
<1> USE DEF EvidenceIInv
<1>1. faults' \in 0..MaxFaults /\ faults' # 0
  BY EvidenceAssumption DEF SweepFails, Crash, Fault, EvidenceTypeOK
<1>2. CASE SweepFails
  <2>1. PICK to \in {"logs", "wait"} :
          /\ phase' = [phase EXCEPT ![Worker] = to]
          /\ doomed' = [doomed EXCEPT ![Worker] = {}]
          /\ UNCHANGED <<now, rows, at, files, used, written, evidence, saving,
                         days, reading, missed>>
    BY <1>2 DEF SweepFails, Goto, Select
  <2>2. EvidenceTypeOK'
    BY <1>1, <2>1 DEF EvidenceTypeOK, Phases
  <2>3. SavedIsNew' /\ DoomedIsHeld' /\ RowsAndImagesMatch'
    BY <1>1, <2>1 DEF EvidenceTypeOK, SavedIsNew, DoomedIsHeld,
                      RowsAndImagesMatch, Deleting, Unlinking
  <2>4. QED
    BY <2>2, <2>3
<1>3. CASE Crash
  <2>1. Cardinality({}) <= 1
    BY FS_EmptySet
  <2>2. EvidenceTypeOK'
    BY <1>1, <1>3, <2>1 DEF Crash, EvidenceTypeOK, Phases
  <2>3. SavedIsNew' /\ DoomedIsHeld' /\ RowsAndImagesMatch'
    BY <1>1, <1>3 DEF Crash, SavedIsNew, DoomedIsHeld, RowsAndImagesMatch,
                      Deleting, Unlinking
  <2>4. QED
    BY <2>2, <2>3
<1>4. QED
  BY <1>2, <1>3

LEMMA ReadingKeeps ==
  ASSUME EvidenceIInv, PickFrame \/ InspectFrame \/ InspectFails \/ Tick
  PROVE  EvidenceIInv'
<1> USE DEF EvidenceIInv
<1>1. EvidenceTypeOK'
  <2>1. Cardinality({}) <= 1
    BY FS_EmptySet
  <2>2. ASSUME NEW i PROVE Cardinality({i}) <= 1
    <3>1. Cardinality({i}) = 1
      BY FS_Singleton
    <3>2. QED
      BY <3>1
  <2>3. CASE Tick
    BY <2>3, EvidenceAssumption DEF Tick, EvidenceTypeOK
  <2>4. CASE PickFrame
    BY <2>2, <2>4 DEF PickFrame, EvidenceTypeOK, StoredFrames
  <2>5. CASE InspectFrame
    BY <2>1, <2>5 DEF InspectFrame, EvidenceTypeOK
  <2>6. CASE InspectFails
    BY <2>1, <2>6 DEF InspectFails, EvidenceTypeOK
  <2>7. QED
    BY <2>3, <2>4, <2>5, <2>6
<1>2. UNCHANGED <<rows, files, used, written, saving, phase, doomed, missed,
                  faults>>
  BY DEF PickFrame, InspectFrame, InspectFails, Tick
<1>3. SavedIsNew' /\ DoomedIsHeld' /\ RowsAndImagesMatch'
  BY <1>2 DEF SavedIsNew, DoomedIsHeld, RowsAndImagesMatch
<1>4. QED
  BY <1>1, <1>3

-----------------------------------------------------------------------------
LEMMA EvidenceStep == EvidenceIInv /\ [EvidenceNext]_evidenceVars => EvidenceIInv'
<1> SUFFICES ASSUME EvidenceIInv, [EvidenceNext]_evidenceVars
             PROVE  EvidenceIInv'
  OBVIOUS
<1>1. CASE EvidenceNext
  BY <1>1, SaveKeeps, InsertRowKeeps, InsertInspectionKeeps, Selections,
     DeleteKeeps, DeleteAllKeeps, UnlinkKeeps, MovesOn, FaultKeeps,
     ReadingKeeps
  DEF EvidenceNext, Removers
<1>2. CASE UNCHANGED evidenceVars
  BY <1>2 DEF evidenceVars, EvidenceIInv, EvidenceTypeOK, SavedIsNew,
              DoomedIsHeld, RowsAndImagesMatch
<1>3. QED
  BY <1>1, <1>2

\* The inductive invariant: who holds which image, and in which stage.
THEOREM EvidenceInductive == EvidenceSpec => []EvidenceIInv
  BY InitHolds, EvidenceStep, PTL DEF EvidenceSpec

\* Every variable of the store keeps its type.
THEOREM EvidenceTypeCorrect == EvidenceSpec => []EvidenceTypeOK
<1>1. EvidenceIInv => EvidenceTypeOK
  BY DEF EvidenceIInv
<1>2. QED
  BY <1>1, EvidenceInductive, PTL

\* No row outlives its image, and without a fault no image is forgotten on the
\* volume, whatever the loop, the removers and the inspection tools interleave.
THEOREM ImagesFollowRows == EvidenceSpec => []RowsAndImagesMatch
<1>1. EvidenceIInv => RowsAndImagesMatch
  BY DEF EvidenceIInv
<1>2. QED
  BY <1>1, EvidenceInductive, PTL

-----------------------------------------------------------------------------
(* The latest frame: nobody but the worker deletes frames, its selection    *)
(* leaves one as new as each it takes before its time, and the row of that  *)
(* one stays while the sweep lasts.                                         *)

AdminTakesLogs == doomed[Admin] \subseteq Logs

LEMMA AdminStep ==
  ASSUME EvidenceIInv, AdminTakesLogs, EvidenceNext
  PROVE  AdminTakesLogs'
<1> USE DEF AdminTakesLogs
<1>1. doomed \in [Removers -> SUBSET Images] /\ Admin \in Removers /\ Admin # Worker
  BY EvidenceAssumption DEF EvidenceIInv, EvidenceTypeOK, Removers
<1>2. CASE SelectLog \/ SelectAllLogs
  BY <1>1, <1>2 DEF SelectLog, SelectAllLogs, Select, StoredLogs
<1>3. CASE SelectFrames \/ SelectOldLogs \/ SweepFails
  BY <1>1, <1>3 DEF SelectFrames, SelectOldLogs, SweepFails, Select
<1>4. ASSUME NEW r \in Removers, Unlink(r) PROVE doomed'[Admin] \subseteq Logs
  BY <1>1, <1>4 DEF Unlink
<1>5. CASE Crash
  BY <1>1, <1>5 DEF Crash
<1>6. doomed' = doomed \/ SelectLog \/ SelectAllLogs \/ SelectFrames
      \/ SelectOldLogs \/ SweepFails \/ Crash \/ \E r \in Removers : Unlink(r)
  BY DEF EvidenceNext, Tick, InsertRow, InsertInspection, PickFrame,
         InspectFrame, InspectFails, Wake, DeleteAllRows, SaveImage, DeleteRows,
         Unlinked
<1>7. QED
  BY <1>2, <1>3, <1>4, <1>5, <1>6

Gone == doomed[Worker] \intersect rows \intersect Frames

\* What SelectFrames leaves, of the newest MaxRows frames.
LEMMA SelectionLeavesOne ==
  ASSUME EvidenceIInv, SelectFrames, NEW i \in Gone', ~ Expired(i)
  PROVE  \E j \in StoredFrames \ Gone' : at[j] >= at[i]
<1>1. PICK keep \in SUBSET StoredFrames :
        /\ IsNewest(keep)
        /\ doomed' = [doomed EXCEPT ![Worker] =
                        {k \in StoredFrames : Expired(k) \/ k \notin keep}]
  BY DEF SelectFrames, Select
<1>2. doomed'[Worker] = {k \in StoredFrames : Expired(k) \/ k \notin keep}
  BY <1>1 DEF EvidenceIInv, EvidenceTypeOK, Removers
<1>3. Gone' = {k \in StoredFrames : Expired(k) \/ k \notin keep} /\ rows' = rows
  BY <1>2 DEF Gone, StoredFrames, SelectFrames
<1>4. i \in StoredFrames \ keep
  BY <1>3
<1>5. IsFiniteSet(StoredFrames) /\ Cardinality(StoredFrames) \in Nat
      /\ Cardinality(StoredFrames) # 0
  <2>1. IsFiniteSet(StoredFrames)
    BY EvidenceAssumption, FS_Subset DEF StoredFrames
  <2>2. QED
    BY <2>1, <1>4, FS_CardinalityType, FS_EmptySet
<1>6. PICK j : j \in keep
  <2>1. Cardinality(keep) # 0
    BY <1>1, <1>5, EvidenceAssumption DEF IsNewest
  <2>2. QED
    BY <2>1, FS_EmptySet
<1>7. at[j] >= at[i] /\ j \in StoredFrames
  BY <1>1, <1>4, <1>6 DEF IsNewest
<1>8. ~ Expired(j)
  <2>1. at[i] \in Nat /\ at[j] \in Nat /\ now \in Nat /\ FrameAge \in Nat
    BY <1>4, <1>7, EvidenceAssumption
    DEF EvidenceIInv, EvidenceTypeOK, StoredFrames, Images
  <2>2. QED
    BY <1>7, <2>1 DEF Expired
<1>9. QED
  BY <1>3, <1>6, <1>7, <1>8

LEMMA LatestStep ==
  ASSUME EvidenceIInv, AdminTakesLogs, LatestFrameStays, EvidenceNext
  PROVE  LatestFrameStays'
<1> USE DEF Gone
<1>1. SUFFICES ASSUME NEW i \in Gone', ~ Expired(i)'
               PROVE  \E j \in (StoredFrames \ Gone)' : at'[j] >= at'[i]
  BY DEF LatestFrameStays
<1>2. /\ at \in [Images -> 0..MaxTime] /\ now \in 0..MaxTime /\ rows \subseteq Images
      /\ doomed \in [Removers -> SUBSET Images] /\ Worker \in Removers
      /\ MaxTime \in Nat /\ FrameAge \in Nat /\ Frames \intersect Logs = {}
  BY EvidenceAssumption DEF EvidenceIInv, EvidenceTypeOK, Removers
<1>3. CASE SelectFrames
  <2>1. ~ Expired(i) /\ UNCHANGED <<at, now, rows>>
    BY <1>1, <1>3 DEF SelectFrames, Expired
  <2>2. QED
    BY <1>3, <2>1, SelectionLeavesOne DEF StoredFrames
<1>4. CASE SelectOldLogs \/ SweepFails \/ Crash
  <2>1. Gone' = {}
    BY <1>2, <1>4 DEF SelectOldLogs, SweepFails, Crash, Select, StoredLogs
  <2>2. QED
    BY <2>1
<1>5. ASSUME NEW r \in Removers, DeleteRows(r) \/ Unlink(r)
      PROVE  (Gone' = Gone /\ StoredFrames' = StoredFrames
                       /\ now' = now /\ \A k \in Frames : at'[k] = at[k])
  <2>1. CASE r = Worker
    BY <1>1, <1>2, <1>5, <2>1
    DEF DeleteRows, Unlink, EvidenceIInv, DoomedIsHeld, Unlinking
  <2>2. CASE r # Worker
    <3>1. r = Admin /\ doomed[r] \intersect Frames = {} /\ doomed'[Worker] = doomed[Worker]
      BY <1>2, <1>5, <2>2 DEF Removers, AdminTakesLogs, DeleteRows, Unlink
    <3>2. StoredFrames' = StoredFrames /\ now' = now
      BY <1>5, <3>1 DEF StoredFrames, DeleteRows, Unlink
    <3>3. \A k \in Frames : at'[k] = at[k]
      BY <1>2, <1>5, <3>1 DEF DeleteRows, Unlink, Forget, Images
    <3>4. QED
      BY <3>1, <3>2, <3>3 DEF StoredFrames
  <2>3. QED
    BY <2>1, <2>2
<1>6. CASE DeleteAllRows
  BY <1>1, <1>2, <1>6
  DEF DeleteAllRows, Forget, StoredFrames, LatestFrameStays, Expired, Images
<1>7. CASE InsertRow
  <2>1. PICK n \in saving : /\ rows' = rows \union {n}
                            /\ at' = [at EXCEPT ![n] = now]
                            /\ now' = now /\ doomed' = doomed
    BY <1>7 DEF InsertRow
  <2>2. n \notin rows /\ n \notin doomed[Worker]
    BY <1>2 DEF EvidenceIInv, SavedIsNew, DoomedIsHeld
  <2>3. Gone' = Gone /\ i \in Gone /\ at'[i] = at[i] /\ ~ Expired(i)
    BY <1>1, <1>2, <2>1, <2>2 DEF Expired
  <2>4. PICK j \in StoredFrames \ Gone : at[j] >= at[i]
    BY <2>3 DEF LatestFrameStays
  <2>5. j \in (StoredFrames \ Gone)' /\ at'[j] = at[j]
    BY <1>2, <2>1, <2>2, <2>3, <2>4 DEF StoredFrames
  <2>6. QED
    BY <2>3, <2>4, <2>5
<1>8. CASE UNCHANGED <<rows, at, doomed>> /\ now' >= now /\ now' \in Nat
  <2>1. ~ Expired(i) /\ i \in Gone
    BY <1>1, <1>2, <1>8 DEF Expired, Images
  <2>2. QED
    BY <1>8, <2>1 DEF LatestFrameStays, StoredFrames
<1>9. CASE SelectLog \/ SelectAllLogs
  <2>1. doomed'[Worker] = doomed[Worker] /\ UNCHANGED <<rows, at, now>>
    BY <1>2, <1>9, EvidenceAssumption
    DEF SelectLog, SelectAllLogs, Select, Removers
  <2>2. QED
    BY <1>1, <2>1 DEF LatestFrameStays, StoredFrames, Expired
<1>10. CASE \E r \in Removers : DeleteRows(r) \/ Unlink(r)
  BY <1>1, <1>5, <1>10 DEF LatestFrameStays, StoredFrames, Expired
<1>11. QED
  <2>1. \/ UNCHANGED <<rows, at, doomed>> /\ now' >= now /\ now' \in Nat
        \/ SelectFrames \/ SelectOldLogs \/ SweepFails \/ Crash \/ DeleteAllRows
        \/ InsertRow \/ SelectLog \/ SelectAllLogs
        \/ \E r \in Removers : DeleteRows(r) \/ Unlink(r)
    BY <1>2 DEF EvidenceNext, Tick, InsertInspection, PickFrame,
                InspectFrame, InspectFails, Wake, SaveImage, Unlinked
  <2>2. QED
    BY <2>1, <1>3, <1>4, <1>6, <1>7, <1>8, <1>9, <1>10

\* A sweep that removes frames before their time leaves one as new as each of
\* them, whatever is stored, deleted and inspected while it runs.
THEOREM LatestIsNeverLost == EvidenceSpec => []LatestFrameStays
<1>1. EvidenceInit => AdminTakesLogs /\ LatestFrameStays
  BY DEF EvidenceInit, AdminTakesLogs, LatestFrameStays, Removers
<1>2. EvidenceIInv /\ AdminTakesLogs /\ LatestFrameStays
      /\ [EvidenceNext]_evidenceVars => (AdminTakesLogs /\ LatestFrameStays)'
  <2>1. SUFFICES ASSUME EvidenceIInv, AdminTakesLogs, LatestFrameStays,
                        [EvidenceNext]_evidenceVars
                 PROVE  (AdminTakesLogs /\ LatestFrameStays)'
    OBVIOUS
  <2>2. CASE EvidenceNext
    BY <2>1, <2>2, AdminStep, LatestStep
  <2>3. CASE UNCHANGED evidenceVars
    BY <2>1, <2>3 DEF evidenceVars, AdminTakesLogs, LatestFrameStays,
                      StoredFrames, Expired
  <2>4. QED
    BY <2>1, <2>2, <2>3
<1>3. QED
  BY <1>1, <1>2, EvidenceInductive, PTL DEF EvidenceSpec

-----------------------------------------------------------------------------
(* deduplicate_similar: a marked frame's better neighbour may be marked in  *)
(* the next step; a witness for the first moves along with the walk.        *)

Covered(d) ==
  \E k \in Stored \ marked :
    k <= cur /\ Linked(d, k) /\ score[k] >= score[d]

(* What the walk has marked so far is covered, and it marks no frame it has *)
(* not reached.                                                             *)
Walked ==
  /\ \A d \in marked : d <= cur /\ Covered(d)
  /\ cur <= N => kept = Stored
  /\ cur = N + 1 => kept = Stored \ marked

-----------------------------------------------------------------------------
\* A link to a frame goes on to the next frame if those two are similar.
LEMMA LinkExtends ==
  ASSUME DedupTypeOK, NEW d \in Stored, NEW i \in Stored,
         Linked(d, i), similar[i], d <= i
  PROVE  Linked(d, i + 1)
<1>1. SUFFICES ASSUME NEW k \in Stored,
                      (d <= k /\ k < i + 1) \/ (i + 1 <= k /\ k < d)
               PROVE  similar[k]
  BY DEF Linked
<1>2. d \in Nat /\ i \in Nat /\ k \in Nat
  BY DEF Stored
<1>3. CASE k = i
  BY <1>3
<1>4. CASE k # i
  BY <1>1, <1>2, <1>4 DEF Linked
<1>5. QED
  BY <1>3, <1>4

\* Every reachable state of the walk is well typed.
THEOREM DedupTypeCorrect == DedupSpec => []DedupTypeOK
<1>1. DedupInit => DedupTypeOK
  BY DedupAssumption DEF DedupInit, DedupTypeOK, Stored
<1>2. DedupTypeOK /\ [DedupNext]_dedupVars => DedupTypeOK'
  <2> SUFFICES ASSUME DedupTypeOK, [DedupNext]_dedupVars PROVE DedupTypeOK'
    OBVIOUS
  <2>1. CASE Compare
    BY <2>1, DedupAssumption DEF Compare, DedupTypeOK, Stored, Worse
  <2>2. CASE Delete
    BY <2>2, DedupAssumption DEF Delete, DedupTypeOK, Stored
  <2>3. CASE UNCHANGED dedupVars
    BY <2>3 DEF dedupVars, DedupTypeOK
  <2>4. QED
    BY <2>1, <2>2, <2>3 DEF DedupNext
<1>3. QED
  BY <1>1, <1>2, PTL DEF DedupSpec

\* A comparison that marks a frame keeps every marked frame covered.
LEMMA MarkingCovers ==
  ASSUME DedupTypeOK, Walked, Compare, similar[cur],
         {cur, cur + 1} \cap marked = {}
  PROVE  \A d \in marked' : d <= cur' /\ Covered(d)'
<1> DEFINE i == cur
<1>1. /\ i \in Stored /\ i + 1 \in Stored /\ i \in Nat
      /\ cur' = i + 1 /\ marked' = marked \cup {Worse(i)}
      /\ score' = score /\ similar' = similar
  BY DedupAssumption DEF DedupTypeOK, Compare, Stored
<1>2. score[i] \in Nat /\ score[i + 1] \in Nat
  BY <1>1, DedupAssumption DEF DedupTypeOK
<1>3. PICK v \in {i, i + 1}, w \in {i, i + 1} :
             v = Worse(i) /\ w # v /\ score[w] >= score[v]
  BY <1>1, <1>2 DEF Worse
<1>4. w \in Stored \ marked' /\ w <= cur'
  BY <1>1, <1>3
<1>5. Linked(v, w)
  BY <1>1, <1>3 DEF Linked, Stored
<1>6. ASSUME NEW d \in marked
      PROVE  d <= cur' /\ Covered(d)'
  <2>1. d \in Stored /\ d \in Nat /\ d <= i /\ d # i
    BY <1>1 DEF DedupTypeOK, Walked, Stored
  <2>2. PICK k \in Stored \ marked :
               k <= i /\ Linked(d, k) /\ score[k] >= score[d]
    BY DEF Walked, Covered
  <2>3. CASE k # v
    <3>1. k \in Stored \ marked' /\ k <= cur'
      BY <1>1, <1>3, <2>2, <2>3 DEF Stored
    <3>2. Covered(d)'
      BY <1>1, <2>2, <3>1 DEF Covered, Linked, Stored
    <3>3. QED
      BY <1>1, <2>1, <3>2
  <2>4. CASE k = v
    <3>1. k = i /\ w = i + 1
      BY <1>1, <1>3, <2>2, <2>4 DEF Stored
    <3>2. Linked(d, i + 1)
      BY <1>1, <2>1, <2>2, <3>1, LinkExtends
    <3>3. score[i + 1] >= score[d]
      <4>1. score[d] \in Nat
        BY <2>1, DedupAssumption DEF DedupTypeOK
      <4>2. score[i] >= score[d] /\ score[i + 1] >= score[i]
        BY <1>3, <2>2, <2>4, <3>1
      <4>3. QED
        BY <1>2, <4>1, <4>2
    <3>4. Covered(d)'
      BY <1>1, <1>4, <3>1, <3>2, <3>3 DEF Covered, Linked, Stored
    <3>5. QED
      BY <1>1, <2>1, <3>4
  <2>5. QED
    BY <2>3, <2>4
<1>7. v <= cur' /\ Covered(v)'
  BY <1>1, <1>3, <1>4, <1>5 DEF Covered, Linked, Stored
<1>8. QED
  BY <1>1, <1>3, <1>6, <1>7

\* A step of the walk that marks nothing moves on and keeps the invariant.
LEMMA WalkedStep ==
  ASSUME DedupTypeOK, Walked, [DedupNext]_dedupVars
  PROVE  Walked'
<1>0. cur \in Nat /\ cur >= 1 /\ N \in Nat
  BY DedupAssumption DEF DedupTypeOK
<1>1. ASSUME marked' = marked, score' = score, similar' = similar,
             cur' \in {cur, cur + 1}
      PROVE  \A d \in marked' : d <= cur' /\ Covered(d)'
  <2> SUFFICES ASSUME NEW d \in marked PROVE d <= cur' /\ Covered(d)'
    BY <1>1
  <2>1. d <= cur /\ d \in Nat
    BY DEF Walked, DedupTypeOK, Stored
  <2>2. PICK k \in Stored \ marked :
               k <= cur /\ Linked(d, k) /\ score[k] >= score[d]
    BY DEF Walked, Covered
  <2>3. k \in Nat /\ k <= cur' /\ d <= cur'
    BY <1>0, <1>1, <2>1, <2>2 DEF Stored
  <2>4. Covered(d)'
    BY <1>1, <2>2, <2>3 DEF Covered, Linked, Stored
  <2>5. QED
    BY <2>3, <2>4
<1>2. CASE Compare
  <2>1. cur' = cur + 1 /\ cur' <= N /\ kept' = kept /\ kept = Stored
    BY <1>0, <1>2 DEF Compare, Walked
  <2>2. CASE similar[cur] /\ {cur, cur + 1} \cap marked = {}
    BY <1>0, <1>2, <2>1, <2>2, MarkingCovers DEF Walked, Stored
  <2>3. CASE ~ (similar[cur] /\ {cur, cur + 1} \cap marked = {})
    <3>1. marked' = marked /\ score' = score /\ similar' = similar
      BY <1>2, <2>3 DEF Compare
    <3>2. \A d \in marked' : d <= cur' /\ Covered(d)'
      BY <1>1, <2>1, <3>1
    <3>3. QED
      BY <1>0, <2>1, <3>2 DEF Walked, Stored
  <2>4. QED
    BY <2>2, <2>3
<1>3. CASE Delete
  <2>1. /\ marked' = marked /\ score' = score /\ similar' = similar
        /\ cur' = cur + 1 /\ cur' = N + 1 /\ kept' = Stored \ marked
    BY <1>3 DEF Delete
  <2>2. \A d \in marked' : d <= cur' /\ Covered(d)'
    BY <1>1, <2>1
  <2>3. QED
    BY <1>0, <2>1, <2>2 DEF Walked, Stored
<1>4. CASE UNCHANGED dedupVars
  <2>1. \A d \in marked' : d <= cur' /\ Covered(d)'
    BY <1>1, <1>4 DEF dedupVars
  <2>2. QED
    BY <1>4, <2>1 DEF dedupVars, Walked, Stored
<1>5. QED
  BY <1>2, <1>3, <1>4 DEF DedupNext

\* Each removed frame leaves one of its cluster that is as good, for every
\* number of frames, all scores and any likeness (repositories.py line 809).
THEOREM BestAlwaysStays == DedupSpec => []BestStays
<1>1. DedupInit => Walked
  BY DedupAssumption DEF DedupInit, Walked, Stored
<1>2. DedupTypeOK /\ Walked /\ [DedupNext]_dedupVars => Walked'
  BY WalkedStep
<1>3. DedupTypeOK /\ Walked => BestStays
  <2> SUFFICES ASSUME DedupTypeOK, Walked, NEW d \in Stored \ kept
               PROVE  \E k \in kept : Linked(d, k) /\ score[k] >= score[d]
    BY DEF BestStays
  <2>1. cur = N + 1
    BY DedupAssumption DEF DedupTypeOK, Walked
  <2>2. kept = Stored \ marked /\ d \in marked
    BY <2>1 DEF Walked
  <2>3. QED
    BY <2>2 DEF Walked, Covered
<1>4. QED
  BY <1>1, <1>2, <1>3, DedupTypeCorrect, PTL DEF DedupSpec

(***************************************************************************)
(* The table of defects                                                    *)
(***************************************************************************)
LEMMA BoundsAreNaturals ==
  /\ Hour \in Nat /\ Day \in Nat /\ Week \in Nat /\ ListLimit \in Nat
  /\ MaxDefects \in Nat /\ Horizon \in Nat /\ AllTime \in Nat
  /\ TTL \in Nat /\ MaxFailures \in Nat /\ Severe \subseteq Findings
BY TableAssumption, LogAssumption DEF AllTime

LEMMA RowTypes ==
  TableTypeOK => \A i \in DOMAIN table :
    table[i].finding \in Findings /\ table[i].time \in 0 .. Horizon
<1> DEFINE Row == [finding : Findings, time : 0 .. Horizon]
<1>1. TableTypeOK => table \in Seq(Row)  BY DEF TableTypeOK
<1>2. \A r \in Row : r.finding \in Findings /\ r.time \in 0 .. Horizon
  OBVIOUS
<1> HIDE DEF Row
<1>3. TableTypeOK => \A i \in DOMAIN table : table[i] \in Row
  BY <1>1, ElementOfSeq, LenProperties
<1>. QED  BY <1>2, <1>3

LEMMA ElapseStep == TableTypeOK /\ Elapse => TableTypeOK' /\ clock <= clock'
BY BoundsAreNaturals DEF TableTypeOK, Elapse

(* A new row takes nothing from the others.                                 *)
LEMMA RecordStep ==
  ASSUME TableTypeOK, NEW f \in Findings, Record(f)
  PROVE  /\ TableTypeOK' /\ clock' = clock
         /\ \A i \in DOMAIN table : i \in DOMAIN table' /\ table'[i] = table[i]
         /\ \E i \in DOMAIN table' :
              table'[i].finding = f /\ table'[i].time = clock
<1> DEFINE Row == [finding : Findings, time : 0 .. Horizon]
           x == [finding |-> f, time |-> clock]
<1>1. table \in Seq(Row) /\ x \in Row /\ clock \in 0 .. Horizon
  BY DEF TableTypeOK
<1>2. table' = Append(table, x) /\ clock' = clock /\ Len(table) < MaxDefects
  BY DEF Record
<1> HIDE DEF Row
<1>3. /\ Append(table, x) \in Seq(Row)
      /\ Len(Append(table, x)) = Len(table) + 1
      /\ \A i \in 1 .. Len(table) : Append(table, x)[i] = table[i]
      /\ Append(table, x)[Len(table) + 1] = x
  BY <1>1, AppendProperties
<1>4. Len(table) \in Nat /\ DOMAIN table = 1 .. Len(table)
      /\ DOMAIN table' = 1 .. (Len(table) + 1)
  BY <1>1, <1>2, <1>3, LenProperties
<1>5. table' \in Seq(Row) /\ Len(table') <= MaxDefects
  BY <1>2, <1>3, <1>4, BoundsAreNaturals
<1>6. TableTypeOK'  BY <1>1, <1>2, <1>5 DEF TableTypeOK, Row
<1>7. \A i \in DOMAIN table : i \in DOMAIN table' /\ table'[i] = table[i]
  BY <1>2, <1>3, <1>4
<1>8. Len(table) + 1 \in DOMAIN table' /\ table'[Len(table) + 1] = x
  BY <1>2, <1>3, <1>4
<1>9. x.finding = f /\ x.time = clock  OBVIOUS
<1>. QED  BY <1>2, <1>6, <1>7, <1>8, <1>9

(***************************************************************************)
(* The automatic log                                                       *)
(***************************************************************************)
(* Someone is about to insert a row of f.                                   *)
Underway(f) == \E u \in Loggers : step[u] = "insert" /\ finding[u] = f

(* f was marked in vain, is on its way, or has a row that is recent enough. *)
Kept(f, from, slack) ==
  \/ f \in spoiled \/ Underway(f)
  \/ \E i \in DOMAIN table :
       table[i].finding = f /\ from <= table[i].time + slack

(* A fingerprint stands for a row of its finding.                           *)
MarksAreBacked ==
  \A f \in Findings :
    cache[f] # Unmarked => cache[f] <= clock /\ Kept(f, cache[f], 0)

(* An inspection that will not delete its fingerprint sees a recent one.    *)
Sees(t) ==
  /\ step[t] \in {"purge", "check"}
  /\ finding[t] \notin stale[t] /\ cache[finding[t]] # Unmarked

SeenMarksAreBacked ==
  \A t \in Loggers : Sees(t) => Kept(finding[t], stamp[t], TTL)

Working ==
  \A t \in Loggers :
    /\ stamp[t] <= clock
    /\ step[t] \in {"purge", "check", "mark", "insert"} =>
         finding[t] \in Findings
    /\ step[t] = "insert" => todo[t] > 0
    /\ step[t] # "purge" => stale[t] = {}

LogIInv == LogTypeOK /\ Working /\ MarksAreBacked /\ SeenMarksAreBacked

-----------------------------------------------------------------------------
LEMMA LogInitHolds == LogInit => LogIInv
<1> SUFFICES ASSUME LogInit PROVE LogIInv  OBVIOUS
<1> USE BoundsAreNaturals DEF LogInit, TableInit
<1>1. LogTypeOK
  <2>1. TableTypeOK  BY EmptySeq DEF TableTypeOK
  <2>. QED  BY <2>1 DEF LogTypeOK, Steps, Unmarked
<1>2. Working  BY DEF Working
<1>3. MarksAreBacked  BY DEF MarksAreBacked, Unmarked
<1>4. SeenMarksAreBacked  BY DEF SeenMarksAreBacked, Sees
<1>. QED  BY <1>1, <1>2, <1>3, <1>4 DEF LogIInv

(* What is kept of a finding stays kept.                                    *)
KeepsAll ==
  \A f \in Findings, from \in 0 .. clock, slack \in Nat :
    Kept(f, from, slack) => Kept(f, from, slack)'

RowsStay ==
  \A i \in DOMAIN table : i \in DOMAIN table' /\ table'[i] = table[i]

LEMMA KeptStays ==
  ASSUME TableTypeOK, TableTypeOK', RowsStay,
         \A f \in Findings :
           f \in spoiled \/ Underway(f) =>
             \/ Underway(f)' \/ f \in spoiled'
             \/ \E i \in DOMAIN table' :
                  table'[i].finding = f /\ table'[i].time = clock
  PROVE  KeepsAll
<1> SUFFICES ASSUME NEW f \in Findings, NEW from \in 0 .. clock,
                    NEW slack \in Nat, Kept(f, from, slack)
             PROVE  Kept(f, from, slack)'
  BY DEF KeepsAll
<1>0. clock \in Nat  BY BoundsAreNaturals DEF TableTypeOK
<1>1. CASE f \in spoiled'  BY <1>1 DEF Kept
<1>2. CASE Underway(f)'  BY <1>2 DEF Kept
<1>3. CASE \E i \in DOMAIN table :
             table[i].finding = f /\ from <= table[i].time + slack
  BY <1>3 DEF Kept, RowsStay
<1>4. CASE \E i \in DOMAIN table' :
             table'[i].finding = f /\ table'[i].time = clock
  <2>1. PICK i \in DOMAIN table' :
               table'[i].finding = f /\ table'[i].time = clock
    BY <1>4
  <2>2. from <= table'[i].time + slack  BY <2>1, <1>0
  <2>. QED  BY <2>1, <2>2 DEF Kept
<1>. QED  BY <1>1, <1>2, <1>3, <1>4 DEF Kept

(* A step that neither inserts nor gives up keeps everything.               *)
LEMMA QuietSteps ==
  ASSUME TableTypeOK, UNCHANGED <<table, clock, spoiled>>,
         \A u \in Loggers :
           step[u] = "insert" => step'[u] = "insert" /\ finding'[u] = finding[u]
  PROVE  KeepsAll
<1>1. RowsStay /\ TableTypeOK'  BY DEF RowsStay, TableTypeOK
<1>2. \A f \in Findings : Underway(f) => Underway(f)'  BY DEF Underway
<1>. QED  BY <1>1, <1>2, KeptStays

LEMMA MarksStay ==
  ASSUME LogIInv, LogTypeOK', KeepsAll, clock <= clock',
         \A f \in Findings : cache'[f] = cache[f] \/ cache'[f] = Unmarked
  PROVE  MarksAreBacked'
<1> SUFFICES ASSUME NEW f \in Findings, cache'[f] # Unmarked
             PROVE  cache'[f] <= clock' /\ Kept(f, cache[f], 0)'
  BY DEF MarksAreBacked
<1>1. cache'[f] = cache[f] /\ cache[f] # Unmarked  OBVIOUS
<1>2. cache[f] <= clock /\ Kept(f, cache[f], 0)
  BY <1>1 DEF LogIInv, MarksAreBacked
<1>3. cache[f] \in 0 .. clock /\ clock' \in Nat /\ clock \in Nat
  BY <1>1, <1>2, BoundsAreNaturals DEF LogIInv, LogTypeOK, TableTypeOK
<1>4. PICK from \in 0 .. clock : from = cache[f]  BY <1>3
<1>5. Kept(f, from, 0)'  BY <1>2, <1>4 DEF KeepsAll, Kept
<1>. QED  BY <1>1, <1>2, <1>3, <1>4, <1>5 DEF Kept

LEMMA SeenStay ==
  ASSUME LogIInv, KeepsAll, NEW t \in Loggers, Sees(t),
         finding'[t] = finding[t], stamp'[t] = stamp[t]
  PROVE  Kept(finding[t], stamp[t], TTL)'
<1>1. finding[t] \in Findings /\ stamp[t] \in 0 .. clock
  BY DEF LogIInv, Working, LogTypeOK, TableTypeOK, Sees
<1>2. Kept(finding[t], stamp[t], TTL)
  BY DEF LogIInv, SeenMarksAreBacked
<1>3. PICK f \in Findings, from \in 0 .. clock :
             f = finding[t] /\ from = stamp[t]
  BY <1>1
<1>4. Kept(f, from, TTL)'
  BY <1>2, <1>3, BoundsAreNaturals DEF KeepsAll, Kept
<1>. QED  BY <1>3, <1>4 DEF Kept

(* Nobody sees a fingerprint that it did not see before.                    *)
LEMMA NothingNewSeen ==
  ASSUME LogIInv, KeepsAll,
         \A t \in Loggers : Sees(t)' =>
           /\ Sees(t) /\ finding'[t] = finding[t] /\ stamp'[t] = stamp[t]
  PROVE  SeenMarksAreBacked'
BY SeenStay DEF SeenMarksAreBacked

-----------------------------------------------------------------------------
LEMMA InspectStep ==
  ASSUME LogIInv, NEW t \in Loggers, NEW f \in Findings, Inspect(t, f)
  PROVE  LogIInv'
<1> USE BoundsAreNaturals
<1>1. LogTypeOK'
  BY DEF LogIInv, LogTypeOK, TableTypeOK, Inspect, Lapsed, Steps
<1>2. Working'
  BY DEF LogIInv, LogTypeOK, TableTypeOK, Working, Inspect
<1>3. KeepsAll
  BY QuietSteps DEF LogIInv, LogTypeOK, Inspect
<1>4. MarksAreBacked'
  BY <1>1, <1>3, MarksStay DEF LogIInv, LogTypeOK, TableTypeOK, Inspect
<1>5. ASSUME NEW u \in Loggers, Sees(u)'
      PROVE  Kept(finding[u], stamp[u], TTL)'
  <2>1. CASE u # t
    <3>1. /\ finding'[u] = finding[u] /\ stamp'[u] = stamp[u]
          /\ step'[u] = step[u] /\ stale'[u] = stale[u] /\ cache' = cache
      BY <2>1 DEF Inspect, LogIInv, LogTypeOK
    <3>2. Sees(u)  BY <1>5, <3>1 DEF Sees
    <3>. QED  BY <1>3, <3>1, <3>2, SeenStay
  <2>2. CASE u = t
    <3>1. /\ finding'[t] = f /\ stamp'[t] = clock /\ stale'[t] = Lapsed(t)
          /\ UNCHANGED <<table, clock, cache, spoiled>>
      BY DEF Inspect, LogIInv, LogTypeOK
    <3>2. cache[f] # Unmarked /\ f \notin Lapsed(t)
      BY <1>5, <2>2, <3>1 DEF Sees
    <3>3. cache[f] \in Nat /\ clock \in Nat /\ TTL \in Nat
      BY <3>2 DEF LogIInv, LogTypeOK, TableTypeOK, Unmarked
    <3>4. clock <= cache[f] + TTL  BY <3>2, <3>3 DEF Lapsed
    <3>5. Kept(f, cache[f], 0)  BY <3>2 DEF LogIInv, MarksAreBacked
    <3>6. \A i \in DOMAIN table :
            (cache[f] <= table[i].time + 0 => clock <= table[i].time + TTL)
      BY <3>3, <3>4, RowTypes DEF LogIInv, LogTypeOK
    <3>7. Kept(f, clock, TTL)
      BY <3>5, <3>6 DEF Kept
    <3>8. Underway(f) => Underway(f)'
      BY DEF Underway, Inspect, LogIInv, LogTypeOK
    <3>. QED  BY <2>2, <3>1, <3>7, <3>8 DEF Kept
  <2>. QED  BY <2>1, <2>2
<1>6. SeenMarksAreBacked'
  BY <1>5 DEF SeenMarksAreBacked
<1>. QED  BY <1>1, <1>2, <1>4, <1>6 DEF LogIInv

(* Leaving does not disturb the others.                                     *)
LEMMA LeavesAlone ==
  ASSUME LogIInv, NEW t \in Loggers, Leave(t), clock' = clock
  PROVE  /\ Working'
         /\ step' \in [Loggers -> Steps]
         /\ finding' \in [Loggers -> Findings \cup {NoFinding}]
         /\ stamp' \in [Loggers -> 0 .. Horizon]
         /\ stale' \in [Loggers -> SUBSET Findings]
         /\ todo' \in [Loggers -> 0 .. 2]
         /\ step'[t] = "idle"
         /\ \A u \in Loggers \ {t} :
              /\ step'[u] = step[u] /\ finding'[u] = finding[u]
              /\ stamp'[u] = stamp[u] /\ stale'[u] = stale[u]
<1> USE BoundsAreNaturals DEF LogIInv, LogTypeOK, TableTypeOK, Leave, Steps
<1>1. Working'  BY DEF Working
<1>. QED  BY <1>1

(* An inspection that leaves without having marked anything.                *)
LEMMA GiveUp ==
  ASSUME LogIInv, NEW t \in Loggers, step[t] # "insert", Leave(t),
         UNCHANGED <<table, clock, cache, spoiled, failures>>
  PROVE  LogIInv'
<1>1. LogTypeOK' /\ Working'
  BY LeavesAlone DEF LogIInv, LogTypeOK, TableTypeOK
<1>2. KeepsAll
  BY QuietSteps, LeavesAlone DEF LogIInv, LogTypeOK
<1>3. clock <= clock'  BY BoundsAreNaturals DEF LogIInv, LogTypeOK, TableTypeOK
<1>4. MarksAreBacked'  BY <1>1, <1>2, <1>3, MarksStay
<1>5. ASSUME NEW u \in Loggers, Sees(u)'
      PROVE  Sees(u) /\ finding'[u] = finding[u] /\ stamp'[u] = stamp[u]
  BY <1>5, LeavesAlone DEF Sees
<1>6. SeenMarksAreBacked'  BY <1>2, <1>5, NothingNewSeen
<1>. QED  BY <1>1, <1>4, <1>6 DEF LogIInv

LEMMA IterationBreaksStep ==
  ASSUME LogIInv, NEW t \in Loggers, IterationBreaks(t)  PROVE LogIInv'
BY GiveUp DEF IterationBreaks

LEMMA SkipStep ==
  ASSUME LogIInv, NEW t \in Loggers, Skip(t)  PROVE LogIInv'
BY GiveUp DEF Skip

LEMMA PurgeStep ==
  ASSUME LogIInv, NEW t \in Loggers, NEW f \in Findings, Purge(t, f)
  PROVE  LogIInv'
<1>1. CASE cache[f] = Unmarked
  BY <1>1, GiveUp DEF Purge
<1>2. CASE cache[f] # Unmarked
  <2>1. /\ step[t] = "purge"
        /\ cache' = [cache EXCEPT ![f] = Unmarked]
        /\ stale' = [stale EXCEPT ![t] = @ \ {f}]
        /\ UNCHANGED <<step, finding, stamp, todo, table, clock, spoiled,
                       failures>>
    BY <1>2 DEF Purge
  <2>2. LogTypeOK'
    BY <2>1 DEF LogIInv, LogTypeOK, TableTypeOK
  <2>3. Working'
    BY <2>1 DEF LogIInv, LogTypeOK, Working
  <2>4. KeepsAll  BY <2>1, QuietSteps DEF LogIInv, LogTypeOK
  <2>5. clock <= clock'
    BY <2>1, BoundsAreNaturals DEF LogIInv, LogTypeOK, TableTypeOK
  <2>6. \A g \in Findings : cache'[g] = cache[g] \/ cache'[g] = Unmarked
    BY <2>1 DEF LogIInv, LogTypeOK
  <2>7. MarksAreBacked'  BY <2>2, <2>4, <2>5, <2>6, MarksStay
  <2>8. ASSUME NEW u \in Loggers, Sees(u)'
        PROVE  Sees(u) /\ finding'[u] = finding[u] /\ stamp'[u] = stamp[u]
    <3>1. step[u] \in {"purge", "check"} /\ finding[u] \notin stale'[u]
          /\ cache'[finding[u]] # Unmarked
      BY <2>1, <2>8 DEF Sees
    <3>2. finding[u] \in Findings
      BY <3>1 DEF LogIInv, Working
    <3>3. cache'[finding[u]] = cache[finding[u]] /\ finding[u] # f
      BY <3>1, <3>2, <2>1 DEF LogIInv, LogTypeOK
    <3>4. finding[u] \notin stale[u]
      BY <3>1, <3>3, <2>1 DEF LogIInv, LogTypeOK
    <3>. QED  BY <2>1, <3>1, <3>3, <3>4 DEF Sees
  <2>9. SeenMarksAreBacked'  BY <2>4, <2>8, NothingNewSeen
  <2>. QED  BY <2>2, <2>3, <2>7, <2>9 DEF LogIInv
<1>. QED  BY <1>1, <1>2

(* The steps that only move on.                                             *)
LEMMA MoveOn ==
  ASSUME LogIInv, NEW t \in Loggers, NEW to \in {"check", "mark"},
         \/ step[t] = "purge" /\ stale[t] = {}
         \/ step[t] = "check",
         step' = [step EXCEPT ![t] = to],
         UNCHANGED <<table, clock, cache, finding, stamp, stale, todo, spoiled,
                     failures>>
  PROVE  LogIInv'
<1>1. LogTypeOK'
  BY DEF LogIInv, LogTypeOK, TableTypeOK, Steps
<1>2. Working'
  BY DEF LogIInv, LogTypeOK, Working
<1>3. KeepsAll  BY QuietSteps DEF LogIInv, LogTypeOK
<1>4. clock <= clock'
  BY BoundsAreNaturals DEF LogIInv, LogTypeOK, TableTypeOK
<1>5. MarksAreBacked'  BY <1>1, <1>3, <1>4, MarksStay
<1>6. ASSUME NEW u \in Loggers, Sees(u)'
      PROVE  Sees(u) /\ finding'[u] = finding[u] /\ stamp'[u] = stamp[u]
  BY <1>6 DEF Sees, LogIInv, LogTypeOK
<1>7. SeenMarksAreBacked'  BY <1>3, <1>6, NothingNewSeen
<1>. QED  BY <1>1, <1>2, <1>5, <1>7 DEF LogIInv

LEMMA MarkStep ==
  ASSUME LogIInv, NEW t \in Loggers, NEW n \in 1 .. 2, Mark(t, n)
  PROVE  LogIInv'
<1>0. PICK f \in Findings : f = finding[t]
  BY DEF Mark, LogIInv, Working
<1>1. /\ step[t] = "mark" /\ finding[t] = f /\ stamp[t] \in 0 .. Horizon
      /\ cache' = [cache EXCEPT ![f] = stamp[t]]
      /\ step' = [step EXCEPT ![t] = "insert"]
      /\ todo' = [todo EXCEPT ![t] = n]
      /\ UNCHANGED <<table, clock, finding, stamp, stale, spoiled, failures>>
  BY <1>0 DEF Mark, LogIInv, LogTypeOK
<1>2. LogTypeOK'  BY <1>1 DEF LogIInv, LogTypeOK, TableTypeOK, Steps
<1>3. Working'  BY <1>1 DEF LogIInv, LogTypeOK, Working
<1>4. KeepsAll  BY <1>1, QuietSteps DEF LogIInv, LogTypeOK
<1>5. Underway(f)'  BY <1>1 DEF Underway, LogIInv, LogTypeOK
<1>6. ASSUME NEW g \in Findings, cache'[g] # Unmarked
      PROVE  cache'[g] <= clock' /\ Kept(g, cache[g], 0)'
  <2>1. CASE g = f
    <3>1. cache'[g] = stamp[t] /\ stamp[t] <= clock /\ clock' = clock
      BY <2>1, <1>1 DEF LogIInv, LogTypeOK, Working
    <3>2. Kept(f, cache[f], 0)'  BY <1>5 DEF Kept
    <3>. QED  BY <3>1, <3>2, <2>1
  <2>2. CASE g # f
    <3>1. cache'[g] = cache[g] /\ clock' = clock /\ UNCHANGED <<table, spoiled>>
      BY <2>2, <1>1 DEF LogIInv, LogTypeOK
    <3>2. cache[g] <= clock /\ Kept(g, cache[g], 0)
      BY <1>6, <3>1 DEF LogIInv, MarksAreBacked
    <3>3. Underway(g) => Underway(g)'
      BY <1>1 DEF Underway, LogIInv, LogTypeOK
    <3>4. Kept(g, cache[g], 0)'
      <4>1. CASE g \in spoiled  BY <4>1, <3>1 DEF Kept
      <4>2. CASE Underway(g)  BY <4>2, <3>3 DEF Kept
      <4>3. CASE \E i \in DOMAIN table :
                   table[i].finding = g /\ cache[g] <= table[i].time + 0
        BY <4>3, <3>1 DEF Kept
      <4>. QED  BY <4>1, <4>2, <4>3, <3>2 DEF Kept
    <3>. QED  BY <3>1, <3>2, <3>4
  <2>. QED  BY <2>1, <2>2
<1>7. MarksAreBacked'  BY <1>6 DEF MarksAreBacked
<1>8. ASSUME NEW u \in Loggers, Sees(u)'
      PROVE  Kept(finding[u], stamp[u], TTL)'
  <2>1. finding'[u] = finding[u] /\ stamp'[u] = stamp[u]  BY <1>1
  <2>2. CASE finding[u] = f
    BY <2>1, <2>2, <1>1, <1>5 DEF Kept
  <2>3. CASE finding[u] # f
    <3>1. step[u] \in {"purge", "check"}
      BY <1>8, <1>1 DEF Sees, LogIInv, LogTypeOK
    <3>2. finding[u] \in Findings  BY <3>1 DEF LogIInv, Working
    <3>3. Sees(u)
      BY <1>8, <3>1, <3>2, <2>3, <1>1 DEF Sees, LogIInv, LogTypeOK
    <3>. QED  BY <3>3, <2>1, <1>4, <1>1, SeenStay
  <2>. QED  BY <2>2, <2>3
<1>9. SeenMarksAreBacked'  BY <1>8 DEF SeenMarksAreBacked
<1>. QED  BY <1>2, <1>3, <1>7, <1>9 DEF LogIInv

LEMMA MarkInVainStep ==
  ASSUME LogIInv, NEW t \in Loggers, MarkInVain(t)  PROVE LogIInv'
<1>0. PICK f \in Findings : f = finding[t]
  BY DEF MarkInVain, LogIInv, Working
<1>1. /\ step[t] = "mark" /\ stamp[t] \in 0 .. Horizon
      /\ cache' = [cache EXCEPT ![f] = stamp[t]]
      /\ spoiled' = spoiled \cup {f}
      /\ Leave(t) /\ UNCHANGED <<table, clock, failures>>
  BY <1>0 DEF MarkInVain, LogIInv, LogTypeOK
<1>2. LogTypeOK' /\ Working'
  BY <1>1, LeavesAlone DEF LogIInv, LogTypeOK, TableTypeOK
<1>3. KeepsAll
  <2>1. TableTypeOK' /\ RowsStay
    BY <1>1 DEF RowsStay, LogIInv, LogTypeOK, TableTypeOK
  <2>2. \A g \in Findings : Underway(g) => Underway(g)'
    BY <1>1, LeavesAlone DEF Underway
  <2>. QED  BY <1>1, <2>1, <2>2, KeptStays DEF LogIInv, LogTypeOK
<1>4. ASSUME NEW g \in Findings, cache'[g] # Unmarked
      PROVE  cache'[g] <= clock' /\ Kept(g, cache[g], 0)'
  <2>1. CASE g = f
    <3>1. cache'[g] = stamp[t] /\ stamp[t] <= clock /\ clock' = clock
      BY <2>1, <1>1 DEF LogIInv, LogTypeOK, Working
    <3>. QED  BY <3>1, <2>1, <1>1 DEF Kept
  <2>2. CASE g # f
    <3>1. cache'[g] = cache[g] /\ clock' = clock
      BY <2>2, <1>1 DEF LogIInv, LogTypeOK
    <3>2. cache[g] <= clock /\ Kept(g, cache[g], 0)
      BY <1>4, <3>1 DEF LogIInv, MarksAreBacked
    <3>3. cache[g] \in 0 .. clock
      BY <1>4, <3>1, <3>2 DEF LogIInv, LogTypeOK, TableTypeOK
    <3>4. PICK from \in 0 .. clock : from = cache[g]  BY <3>3
    <3>5. Kept(g, from, 0)'  BY <3>2, <3>4, <1>3 DEF KeepsAll, Kept
    <3>. QED  BY <3>1, <3>2, <3>4, <3>5 DEF Kept
  <2>. QED  BY <2>1, <2>2
<1>5. MarksAreBacked'  BY <1>4 DEF MarksAreBacked
<1>6. ASSUME NEW u \in Loggers, Sees(u)'
      PROVE  Kept(finding[u], stamp[u], TTL)'
  <2>1. u # t  BY <1>6, <1>1, LeavesAlone DEF Sees
  <2>2. /\ step[u] \in {"purge", "check"} /\ finding'[u] = finding[u]
        /\ stamp'[u] = stamp[u] /\ finding[u] \notin stale[u]
    BY <1>6, <2>1, <1>1, LeavesAlone DEF Sees
  <2>3. CASE finding[u] = f
    BY <2>2, <2>3, <1>1 DEF Kept
  <2>4. CASE finding[u] # f
    <3>1. finding[u] \in Findings  BY <2>2 DEF LogIInv, Working
    <3>2. Sees(u)
      BY <1>6, <2>2, <2>4, <3>1, <1>1 DEF Sees, LogIInv, LogTypeOK
    <3>. QED  BY <3>2, <2>2, <1>3, SeenStay
  <2>. QED  BY <2>3, <2>4
<1>7. SeenMarksAreBacked'  BY <1>6 DEF SeenMarksAreBacked
<1>. QED  BY <1>2, <1>5, <1>7 DEF LogIInv

(* After an insert, done or failed: the row is there, or the finding is     *)
(* spoiled, or a second row is on its way.                                  *)
LEMMA InsertedStep ==
  ASSUME LogIInv, NEW t \in Loggers, step[t] = "insert", Inserted(t),
         TableTypeOK', RowsStay, UNCHANGED <<cache, clock>>,
         spoiled \ {finding[t]} \subseteq spoiled', spoiled' \subseteq Findings,
         failures' \in 0 .. MaxFailures,
         \/ finding[t] \in spoiled'
         \/ \E i \in DOMAIN table' :
              table'[i].finding = finding[t] /\ table'[i].time = clock
  PROVE  LogIInv'
<1>1. /\ Working'
      /\ step' \in [Loggers -> Steps]
      /\ finding' \in [Loggers -> Findings \cup {NoFinding}]
      /\ stamp' \in [Loggers -> 0 .. Horizon]
      /\ stale' \in [Loggers -> SUBSET Findings]
      /\ todo' \in [Loggers -> 0 .. 2]
      /\ step'[t] \in {"insert", "idle"}
      /\ \A u \in Loggers \ {t} :
           /\ step'[u] = step[u] /\ finding'[u] = finding[u]
           /\ stamp'[u] = stamp[u] /\ stale'[u] = stale[u]
  <2>1. CASE todo[t] = 1
    <3>1. Leave(t)  BY <2>1 DEF Inserted
    <3>. QED  BY <3>1, LeavesAlone
  <2>2. CASE todo[t] # 1
    <3>1. /\ todo[t] = 2 /\ todo' = [todo EXCEPT ![t] = @ - 1]
          /\ UNCHANGED <<step, finding, stamp, stale>>
      BY <2>2 DEF Inserted, LogIInv, LogTypeOK, Working
    <3>2. todo'[t] = 1
      BY <3>1 DEF LogIInv, LogTypeOK
    <3>3. Working'
      BY <3>1, <3>2 DEF LogIInv, LogTypeOK, Working
    <3>. QED  BY <3>1, <3>2, <3>3 DEF LogIInv, LogTypeOK
  <2>. QED  BY <2>1, <2>2
<1>2. LogTypeOK'
  BY <1>1 DEF LogIInv, LogTypeOK
<1>3. KeepsAll
  <2>1. ASSUME NEW f \in Findings, f \in spoiled
        PROVE  \/ f \in spoiled'
               \/ \E i \in DOMAIN table' :
                    table'[i].finding = f /\ table'[i].time = clock
    BY <2>1
  <2>2. ASSUME NEW f \in Findings, Underway(f)
        PROVE  \/ Underway(f)' \/ f \in spoiled'
               \/ \E i \in DOMAIN table' :
                    table'[i].finding = f /\ table'[i].time = clock
    <3>1. PICK u \in Loggers : step[u] = "insert" /\ finding[u] = f
      BY <2>2 DEF Underway
    <3>2. CASE u = t  BY <3>1, <3>2
    <3>3. CASE u # t  BY <3>1, <3>3, <1>1 DEF Underway
    <3>. QED  BY <3>2, <3>3
  <2>. QED  BY <2>1, <2>2, KeptStays DEF LogIInv, LogTypeOK
<1>4. clock <= clock'
  BY BoundsAreNaturals DEF LogIInv, LogTypeOK, TableTypeOK
<1>5. MarksAreBacked'  BY <1>2, <1>3, <1>4, MarksStay
<1>6. ASSUME NEW u \in Loggers, Sees(u)'
      PROVE  Sees(u) /\ finding'[u] = finding[u] /\ stamp'[u] = stamp[u]
  BY <1>6, <1>1 DEF Sees
<1>7. SeenMarksAreBacked'  BY <1>3, <1>6, NothingNewSeen
<1>. QED  BY <1>1, <1>2, <1>5, <1>7 DEF LogIInv

LEMMA InsertStep ==
  ASSUME LogIInv, NEW t \in Loggers, Insert(t)  PROVE LogIInv'
<1>1. /\ step[t] = "insert" /\ Inserted(t) /\ UNCHANGED <<cache, failures>>
      /\ spoiled' = spoiled \ {finding[t]}
  BY DEF Insert
<1>2. PICK f \in Findings : f = finding[t]
  BY <1>1 DEF LogIInv, Working
<1>3. Record(f)  BY <1>2 DEF Insert
<1>4. /\ TableTypeOK' /\ clock' = clock /\ RowsStay
      /\ \E i \in DOMAIN table' :
           table'[i].finding = f /\ table'[i].time = clock
  BY <1>3, RecordStep DEF RowsStay, LogIInv, LogTypeOK
<1>5. /\ spoiled \ {finding[t]} \subseteq spoiled'
      /\ spoiled' \subseteq Findings /\ failures' \in 0 .. MaxFailures
  BY <1>1 DEF LogIInv, LogTypeOK
<1>. QED  BY <1>1, <1>2, <1>4, <1>5, InsertedStep

LEMMA InsertFailsStep ==
  ASSUME LogIInv, NEW t \in Loggers, InsertFails(t)  PROVE LogIInv'
<1>1. /\ step[t] = "insert" /\ Inserted(t) /\ UNCHANGED <<table, clock, cache>>
      /\ spoiled' = spoiled \cup {finding[t]}
      /\ failures < MaxFailures /\ failures' = failures + 1
  BY DEF InsertFails
<1>2. finding[t] \in Findings  BY <1>1 DEF LogIInv, Working
<1>3. TableTypeOK' /\ RowsStay
  BY <1>1 DEF RowsStay, LogIInv, LogTypeOK, TableTypeOK
<1>4. spoiled' \subseteq Findings /\ failures' \in 0 .. MaxFailures
  BY <1>1, <1>2, BoundsAreNaturals DEF LogIInv, LogTypeOK
<1>. QED  BY <1>1, <1>3, <1>4, InsertedStep

(* Rows logged by hand and the passing of time.                             *)
LEMMA TableSteps ==
  ASSUME LogIInv, TableTypeOK', RowsStay, clock <= clock',
         UNCHANGED <<cache, inspection, spoiled, failures>>
  PROVE  LogIInv'
<1>1. UNCHANGED <<step, finding, stamp, stale, todo>>  BY DEF inspection
<1>2. LogTypeOK'  BY <1>1 DEF LogIInv, LogTypeOK
<1>3. Working'
  <2>1. clock \in Nat /\ clock' \in Nat /\ \A u \in Loggers : stamp[u] \in Nat
    BY BoundsAreNaturals DEF LogIInv, LogTypeOK, TableTypeOK
  <2>2. \A u \in Loggers : stamp[u] <= clock'
    BY <2>1 DEF LogIInv, Working
  <2>. QED  BY <1>1, <2>2 DEF LogIInv, Working
<1>4. \A f \in Findings : Underway(f) => Underway(f)'
  BY <1>1 DEF Underway
<1>5. KeepsAll  BY <1>4, KeptStays DEF LogIInv, LogTypeOK
<1>6. MarksAreBacked'  BY <1>2, <1>5, MarksStay
<1>7. ASSUME NEW u \in Loggers, Sees(u)'
      PROVE  Sees(u) /\ finding'[u] = finding[u] /\ stamp'[u] = stamp[u]
  BY <1>7, <1>1 DEF Sees
<1>8. SeenMarksAreBacked'  BY <1>5, <1>7, NothingNewSeen
<1>. QED  BY <1>2, <1>3, <1>6, <1>8 DEF LogIInv

LEMMA LogByHandStep ==
  ASSUME LogIInv, NEW f \in Findings, LogByHand(f)  PROVE LogIInv'
<1>1. Record(f) /\ UNCHANGED <<cache, inspection, spoiled, failures>>
  BY DEF LogByHand
<1>2. TableTypeOK' /\ clock' = clock /\ RowsStay
  BY <1>1, RecordStep DEF RowsStay, LogIInv, LogTypeOK
<1>3. clock <= clock'
  BY <1>2, BoundsAreNaturals DEF LogIInv, LogTypeOK, TableTypeOK
<1>. QED  BY <1>1, <1>2, <1>3, TableSteps

LEMMA LogElapsesStep ==
  ASSUME LogIInv, LogElapse  PROVE LogIInv'
<1>1. Elapse /\ UNCHANGED <<cache, inspection, spoiled, failures>>
  BY DEF LogElapse
<1>2. TableTypeOK' /\ clock <= clock'  BY <1>1, ElapseStep DEF LogIInv, LogTypeOK
<1>3. RowsStay  BY <1>1 DEF Elapse, RowsStay
<1>. QED  BY <1>1, <1>2, <1>3, TableSteps

LEMMA LogStep ==
  ASSUME LogIInv, [LogNext]_logVars  PROVE LogIInv'
<1>1. CASE UNCHANGED logVars
  BY <1>1 DEF logVars, LogIInv, LogTypeOK, TableTypeOK, Working,
              MarksAreBacked, SeenMarksAreBacked, Sees, Kept, Underway
<1>2. ASSUME NEW t \in Loggers, NEW f \in Findings, Inspect(t, f)
      PROVE  LogIInv'
  BY <1>2, InspectStep
<1>3. ASSUME NEW t \in Loggers, NEW f \in Findings, Purge(t, f)
      PROVE  LogIInv'
  BY <1>3, PurgeStep
<1>4. ASSUME NEW t \in Loggers, Purged(t)  PROVE LogIInv'
  <2>1. /\ step[t] = "purge" /\ stale[t] = {}
        /\ step' = [step EXCEPT ![t] = "check"]
        /\ UNCHANGED <<table, clock, cache, finding, stamp, stale, todo,
                       spoiled, failures>>
    BY <1>4 DEF Purged
  <2>. QED  BY <2>1, MoveOn
<1>5. ASSUME NEW t \in Loggers, Unseen(t)  PROVE LogIInv'
  <2>1. /\ step[t] = "check"
        /\ step' = [step EXCEPT ![t] = "mark"]
        /\ UNCHANGED <<table, clock, cache, finding, stamp, stale, todo,
                       spoiled, failures>>
    BY <1>5 DEF Unseen
  <2>. QED  BY <2>1, MoveOn
<1>6. ASSUME NEW t \in Loggers,
             \/ IterationBreaks(t) \/ Skip(t) \/ MarkInVain(t)
             \/ \E n \in 1 .. 2 : Mark(t, n)
             \/ Insert(t) \/ InsertFails(t)
      PROVE  LogIInv'
  BY <1>6, IterationBreaksStep, SkipStep, MarkStep, MarkInVainStep, InsertStep,
     InsertFailsStep
<1>7. ASSUME NEW f \in Findings, LogByHand(f)  PROVE LogIInv'
  BY <1>7, LogByHandStep
<1>8. CASE LogElapse  BY <1>8, LogElapsesStep
<1>. QED
  BY <1>1, <1>2, <1>3, <1>4, <1>5, <1>6, <1>7, <1>8 DEF LogNext

(* The inductive invariant of the automatic log.                            *)
THEOREM LogInductive == LogSpec => []LogIInv
<1>1. LogInit => LogIInv  BY LogInitHolds
<1>2. LogIInv /\ [LogNext]_logVars => LogIInv'  BY LogStep
<1>. QED  BY <1>1, <1>2, PTL DEF LogSpec

(* The automatic log keeps its types.                                       *)
THEOREM LogTypeCorrect == LogSpec => []LogTypeOK
<1>1. LogIInv => LogTypeOK  BY DEF LogIInv
<1>. QED  BY <1>1, LogInductive, PTL

LEMMA SkipIsJustified ==
  ASSUME LogIInv, NEW t \in Loggers, Skip(t)
  PROVE  Fresh(t) \/ BeingLogged(t) \/ finding[t] \in spoiled
<1>1. step[t] = "check" /\ cache[finding[t]] # Unmarked  BY DEF Skip
<1>2. stale[t] = {}  BY <1>1 DEF LogIInv, Working
<1>3. Sees(t)  BY <1>1, <1>2 DEF Sees
<1>4. Kept(finding[t], stamp[t], TTL)
  BY <1>3 DEF LogIInv, SeenMarksAreBacked
<1>5. Underway(finding[t]) => BeingLogged(t)
  BY <1>1 DEF Underway, BeingLogged
<1>. QED  BY <1>4, <1>5 DEF Kept, Fresh

(* No finding is dropped but for one on record, on its way, or marked in    *)
(* vain since its last row (_auto_log_defect), for any number of threads    *)
(* that inspect.                                                            *)
THEOREM NoFindingIsLost == LogSpec => SkipsAreJustified
<1> DEFINE Justified ==
      \A t \in Loggers :
        Skip(t) => Fresh(t) \/ BeingLogged(t) \/ finding[t] \in spoiled
<1>1. LogIInv => Justified  BY SkipIsJustified
<1>2. LogIInv => [Justified]_logVars  BY <1>1
<1>3. []LogIInv => [][Justified]_logVars
  <2> HIDE DEF Justified
  <2>. QED  BY <1>2, PTL
<1>. QED  BY <1>3, LogInductive DEF SkipsAreJustified

(***************************************************************************)
(* Reports                                                                 *)
(***************************************************************************)
(* The queries a report may ask.                                            *)
CountQueries ==
  [name : Figures \ {"whole"}, hours : Nat, kind : {"count"},
   of : SUBSET Findings]
NewestQueries ==
  [name : {"list", "latest", "recent"}, hours : Nat, kind : {"newest"},
   limit : Nat]
WorstQueries == [name : {"worst"}, hours : Nat, kind : {"worst"}]
Queries ==
  {q \in CountQueries \cup NewestQueries \cup WorstQueries \cup {Whole} :
     q.name = "week" => q = Counted("week", Week)}

Named(p) == {p[i].name : i \in DOMAIN p}

(* The total of a breakdown comes right after its groups, and the week      *)
(* after the day.                                                           *)
PairsUp(p) ==
  \A i \in 1 .. Len(p) :
    /\ p[i].name = "types" => i < Len(p) /\ p[i + 1].name = "whole"
    /\ p[i].name = "whole" /\ 1 < i => p[i - 1].name = "types"

Ordered(p) ==
  \A i, j \in 1 .. Len(p) :
    i < j => ~ (p[i].name = "week" /\ p[j].name = "day")

Block(p) ==
  /\ p \in Seq(Queries) /\ 0 < Len(p) /\ p[1].name # "whole"
  /\ PairsUp(p) /\ Ordered(p)

(* What every report's queries have in common.                              *)
EndsInTotal(p) == p[Len(p)] = Counted("total", AllTime)

DueFits(names, hours) ==
  /\ "week" \in names => "day" \in names
  /\ {"sources", "total"} \subseteq names /\ hours = AllTime =>
       {"whole", "trend", "inWindow"} \subseteq names

PlanFits(p, hours) ==
  /\ Block(p) /\ DueFits(Named(p), hours)
  /\ {"sources", "total"} \subseteq Named(p) /\ hours = AllTime
       => EndsInTotal(p)

-----------------------------------------------------------------------------
LEMMA CountedIsAQuery ==
  ASSUME NEW n \in Figures \ {"whole", "week"}, NEW h \in Nat
  PROVE  /\ Counted(n, h) \in Queries /\ Counted(n, h).name = n
         /\ CountedHigh(n, h) \in Queries /\ CountedHigh(n, h).name = n
BY BoundsAreNaturals DEF Counted, CountedHigh, Queries, CountQueries

LEMMA WeekIsAQuery ==
  Counted("week", Week) \in Queries /\ Counted("week", Week).name = "week"
BY BoundsAreNaturals DEF Counted, Queries, CountQueries, Figures

LEMMA LowerIsAQuery ==
  ASSUME NEW h \in Nat, NEW q, q = [Counted("lower", h) EXCEPT !.of = Findings \ Severe]
  PROVE  q \in Queries /\ q.name = "lower"
BY BoundsAreNaturals DEF Counted, Queries, CountQueries, Figures

LEMMA ListedIsAQuery ==
  ASSUME NEW n \in {"list", "latest", "recent"}, NEW h \in Nat, NEW k \in Nat
  PROVE  Listed(n, h, k) \in Queries /\ Listed(n, h, k).name = n
BY DEF Listed, Queries, NewestQueries

LEMMA WorstIsAQuery ==
  ASSUME NEW h \in Nat
  PROVE  Worst(h) \in Queries /\ Worst(h).name = "worst"
BY DEF Worst, Queries, WorstQueries

LEMMA WholeIsAQuery == Whole \in Queries /\ Whole.name = "whole"
BY DEF Whole, Queries

LEMMA QueryFields ==
  ASSUME NEW q \in Queries
  PROVE  /\ q.name \in Figures /\ q.hours \in Nat
         /\ q.kind \in {"count", "again", "newest", "worst"}
         /\ q.name = "whole" => q.kind = "again"
         /\ q.name = "week" => q = Counted("week", Week)
BY BoundsAreNaturals
   DEF Queries, CountQueries, NewestQueries, WorstQueries, Whole, Figures

-----------------------------------------------------------------------------
(* Queries in a row.                                                        *)
Plain(q) == q.name \notin {"types", "whole", "week"}

LEMMA PlainBlock ==
  ASSUME NEW p \in Seq(Queries), 0 < Len(p),
         Named(p) \cap {"types", "whole", "week"} = {}
  PROVE  Block(p)
<1>1. DOMAIN p = 1 .. Len(p) /\ Len(p) \in Nat  BY LenProperties
<1>2. \A i \in 1 .. Len(p) : p[i].name \notin {"types", "whole", "week"}
  BY <1>1 DEF Named
<1>3. 1 \in 1 .. Len(p)  BY <1>1
<1>. QED  BY <1>1, <1>2, <1>3 DEF Block, PairsUp, Ordered

LEMMA BreakdownBlock ==
  ASSUME NEW h \in Nat
  PROVE  Block(Breakdown(h)) /\ Named(Breakdown(h)) = {"types", "whole"}
<1> DEFINE a == Counted("types", h)
           p == <<a, Whole>>
<1>1. a \in Queries /\ a.name = "types"
  BY CountedIsAQuery DEF Figures
<1>2. Breakdown(h) = p  BY DEF Breakdown
<1> HIDE DEF a
<1>3. p \in Seq(Queries) /\ Len(p) = 2 /\ DOMAIN p = 1 .. 2
      /\ p[1] = a /\ p[2] = Whole
  BY <1>1, WholeIsAQuery
<1> HIDE DEF p
<1>4. PairsUp(p)  BY <1>1, <1>3, WholeIsAQuery DEF PairsUp
<1>5. Ordered(p)  BY <1>1, <1>3, WholeIsAQuery DEF Ordered
<1>6. Named(p) = {"types", "whole"}
  BY <1>1, <1>3, WholeIsAQuery DEF Named
<1>. QED  BY <1>1, <1>2, <1>3, <1>4, <1>5, <1>6 DEF Block

LEMMA Joined ==
  ASSUME NEW p, NEW q, Block(p), Block(q),
         "week" \notin Named(p) \/ "day" \notin Named(q)
  PROVE  /\ Block(p \o q) /\ Named(p \o q) = Named(p) \cup Named(q)
         /\ EndsInTotal(q) => EndsInTotal(p \o q)
<1> DEFINE r == p \o q
<1>1. p \in Seq(Queries) /\ q \in Seq(Queries)  BY DEF Block
<1>2. /\ r \in Seq(Queries) /\ Len(r) = Len(p) + Len(q)
      /\ \A i \in 1 .. Len(p) : r[i] = p[i]
      /\ \A i \in 1 .. Len(q) : r[Len(p) + i] = q[i]
  BY <1>1, ConcatProperties
<1>3. Len(p) \in Nat /\ Len(q) \in Nat /\ 0 < Len(p) /\ 0 < Len(q)
      /\ DOMAIN p = 1 .. Len(p) /\ DOMAIN q = 1 .. Len(q)
  BY <1>1, LenProperties DEF Block
<1>4. DOMAIN r = 1 .. (Len(p) + Len(q))
  BY <1>2, LenProperties
<1> HIDE DEF r
<1>5. \A i \in 1 .. Len(r) :
        \/ i \in 1 .. Len(p) /\ r[i] = p[i]
        \/ i - Len(p) \in 1 .. Len(q) /\ r[i] = q[i - Len(p)]
  <2> SUFFICES ASSUME NEW i \in 1 .. Len(r), i \notin 1 .. Len(p)
               PROVE  i - Len(p) \in 1 .. Len(q) /\ r[i] = q[i - Len(p)]
    BY <1>2
  <2>1. i - Len(p) \in 1 .. Len(q) /\ Len(p) + (i - Len(p)) = i
    BY <1>2, <1>3
  <2>. QED  BY <2>1, <1>2
<1>6. Named(r) = Named(p) \cup Named(q)
  <2>1. Named(r) \subseteq Named(p) \cup Named(q)
    BY <1>2, <1>3, <1>4, <1>5 DEF Named
  <2>2. \A i \in 1 .. Len(p) : i \in 1 .. Len(r)  BY <1>2, <1>3
  <2>3. \A i \in 1 .. Len(q) : Len(p) + i \in 1 .. Len(r)  BY <1>2, <1>3
  <2>4. Named(p) \subseteq Named(r)
    BY <2>2, <1>2, <1>3, <1>4 DEF Named
  <2>5. Named(q) \subseteq Named(r)
    BY <2>3, <1>2, <1>3, <1>4 DEF Named
  <2>. QED  BY <2>1, <2>4, <2>5
<1>7. PairsUp(r)
  <2> SUFFICES ASSUME NEW i \in 1 .. Len(r)
               PROVE  /\ r[i].name = "types" =>
                           i < Len(r) /\ r[i + 1].name = "whole"
                      /\ r[i].name = "whole" /\ 1 < i => r[i - 1].name = "types"
    BY DEF PairsUp
  <2>1. CASE i \in 1 .. Len(p)
    <3>1. r[i] = p[i]  BY <2>1, <1>2
    <3>2. ASSUME r[i].name = "types"
          PROVE  i < Len(r) /\ r[i + 1].name = "whole"
      <4>1. i < Len(p) /\ p[i + 1].name = "whole"
        BY <3>1, <3>2, <2>1 DEF Block, PairsUp
      <4>2. i + 1 \in 1 .. Len(p) /\ i < Len(r)  BY <4>1, <1>2, <1>3, <2>1
      <4>. QED  BY <4>1, <4>2, <1>2
    <3>3. ASSUME r[i].name = "whole", 1 < i
          PROVE  r[i - 1].name = "types"
      <4>1. p[i - 1].name = "types"
        BY <3>1, <3>3, <2>1 DEF Block, PairsUp
      <4>2. i - 1 \in 1 .. Len(p)  BY <3>3, <1>3, <2>1
      <4>. QED  BY <4>1, <4>2, <1>2
    <3>. QED  BY <3>2, <3>3
  <2>2. CASE i \notin 1 .. Len(p)
    <3> DEFINE k == i - Len(p)
    <3>1. k \in 1 .. Len(q) /\ r[i] = q[k] /\ i = Len(p) + k
      BY <2>2, <1>5, <1>3
    <3> HIDE DEF k
    <3>2. ASSUME r[i].name = "types"
          PROVE  i < Len(r) /\ r[i + 1].name = "whole"
      <4>1. k < Len(q) /\ q[k + 1].name = "whole"
        BY <3>1, <3>2 DEF Block, PairsUp
      <4>2. k + 1 \in 1 .. Len(q) /\ i < Len(r) /\ i + 1 = Len(p) + (k + 1)
        BY <4>1, <3>1, <1>2, <1>3
      <4>. QED  BY <4>1, <4>2, <1>2
    <3>3. ASSUME r[i].name = "whole", 1 < i
          PROVE  r[i - 1].name = "types"
      <4>1. k # 1  BY <3>1, <3>3 DEF Block
      <4>2. q[k - 1].name = "types" /\ k - 1 \in 1 .. Len(q)
        BY <4>1, <3>1, <3>3, <1>3 DEF Block, PairsUp
      <4>3. i - 1 = Len(p) + (k - 1)  BY <3>1, <1>3
      <4>. QED  BY <4>2, <4>3, <1>2
    <3>. QED  BY <3>2, <3>3
  <2>. QED  BY <2>1, <2>2
<1>8. Ordered(r)
  <2> SUFFICES ASSUME NEW i \in 1 .. Len(r), NEW j \in 1 .. Len(r), i < j,
                      r[i].name = "week", r[j].name = "day"
               PROVE  FALSE
    BY DEF Ordered
  <2>1. CASE j \in 1 .. Len(p)
    <3>1. i \in 1 .. Len(p)  BY <2>1, <1>2, <1>3
    <3>. QED  BY <2>1, <3>1, <1>2 DEF Block, Ordered
  <2>2. CASE i \notin 1 .. Len(p)
    <3>1. /\ i - Len(p) \in 1 .. Len(q) /\ r[i] = q[i - Len(p)]
      BY <2>2, <1>5
    <3>2. j \notin 1 .. Len(p)  BY <2>2, <1>2, <1>3
    <3>3. j - Len(p) \in 1 .. Len(q) /\ r[j] = q[j - Len(p)]
      BY <3>2, <1>5
    <3>4. i - Len(p) < j - Len(p)  BY <1>2, <1>3
    <3>. QED  BY <3>1, <3>3, <3>4 DEF Block, Ordered
  <2>3. CASE i \in 1 .. Len(p) /\ j \notin 1 .. Len(p)
    <3>1. "week" \in Named(p)
      BY <2>3, <1>2, <1>3 DEF Named
    <3>2. j - Len(p) \in 1 .. Len(q) /\ r[j] = q[j - Len(p)]
      BY <2>3, <1>5
    <3>3. "day" \in Named(q)
      BY <3>2, <1>3 DEF Named
    <3>. QED  BY <3>1, <3>3
  <2>. QED  BY <2>1, <2>2, <2>3
<1>9. 1 \in 1 .. Len(p) /\ r[1] = p[1] /\ 0 < Len(r)
  BY <1>2, <1>3
<1>10. Block(r)  BY <1>2, <1>7, <1>8, <1>9 DEF Block
<1>11. Len(q) \in 1 .. Len(q) /\ r[Len(r)] = q[Len(q)]
  <2>1. Len(q) \in 1 .. Len(q)  BY <1>3
  <2>. QED  BY <2>1, <1>2
<1>. QED  BY <1>6, <1>10, <1>11 DEF r, EndsInTotal

-----------------------------------------------------------------------------
(* The reports.                                                             *)
LEMMA Row1 ==
  ASSUME NEW a \in Queries
  PROVE  /\ Named(<<a>>) = {a.name}
         /\ Plain(a) => Block(<<a>>)
         /\ a = Counted("total", AllTime) => EndsInTotal(<<a>>)
<1> DEFINE p == <<a>>
<1>1. p \in Seq(Queries) /\ Len(p) = 1 /\ DOMAIN p = 1 .. 1 /\ p[1] = a
  OBVIOUS
<1> HIDE DEF p
<1>2. Named(p) = {a.name}  BY <1>1 DEF Named
<1>3. ASSUME Plain(a)
      PROVE  Block(p)
  <2>1. Named(p) \cap {"types", "whole", "week"} = {}
    BY <1>2, <1>3 DEF Plain
  <2>2. p \in Seq(Queries) /\ 0 < Len(p)  BY <1>1
  <2>. QED  BY <2>1, <2>2, PlainBlock
<1>. QED  BY <1>1, <1>2, <1>3 DEF p, EndsInTotal

LEMMA Row2 ==
  ASSUME NEW a \in Queries, NEW b \in Queries
  PROVE  /\ <<a, b>> \in Seq(Queries) /\ Len(<<a, b>>) = 2
         /\ Named(<<a, b>>) = {a.name, b.name}
         /\ Plain(a) /\ Plain(b) =>
              Block(<<a, b>>)
<1> DEFINE p == <<a, b>>
<1>1. p \in Seq(Queries) /\ Len(p) = 2 /\ DOMAIN p = 1 .. 2
      /\ p[1] = a /\ p[2] = b
  OBVIOUS
<1> HIDE DEF p
<1>2. Named(p) = {a.name, b.name}
  BY <1>1 DEF Named
<1>3. ASSUME Plain(a), Plain(b)
      PROVE  Block(p)
  <2>1. Named(p) \cap {"types", "whole", "week"} = {}
    BY <1>2, <1>3 DEF Plain
  <2>2. p \in Seq(Queries) /\ 0 < Len(p)  BY <1>1
  <2>. QED  BY <2>1, <2>2, PlainBlock
<1>. QED  BY <1>1, <1>2, <1>3 DEF p

LEMMA Row3 ==
  ASSUME NEW a \in Queries, NEW b \in Queries, NEW c \in Queries
  PROVE  /\ <<a, b, c>> \in Seq(Queries) /\ Len(<<a, b, c>>) = 3
         /\ Named(<<a, b, c>>) = {a.name, b.name, c.name}
         /\ Plain(a) /\ Plain(b) /\ Plain(c) =>
              Block(<<a, b, c>>)
<1> DEFINE p == <<a, b, c>>
<1>1. p \in Seq(Queries) /\ Len(p) = 3 /\ DOMAIN p = 1 .. 3
      /\ p[1] = a /\ p[2] = b /\ p[3] = c
  OBVIOUS
<1> HIDE DEF p
<1>2. Named(p) = {a.name, b.name, c.name}
  BY <1>1 DEF Named
<1>3. ASSUME Plain(a), Plain(b), Plain(c)
      PROVE  Block(p)
  <2>1. Named(p) \cap {"types", "whole", "week"} = {}
    BY <1>2, <1>3 DEF Plain
  <2>2. p \in Seq(Queries) /\ 0 < Len(p)  BY <1>1
  <2>. QED  BY <2>1, <2>2, PlainBlock
<1>. QED  BY <1>1, <1>2, <1>3 DEF p

LEMMA Row4 ==
  ASSUME NEW a \in Queries, NEW b \in Queries, NEW c \in Queries,
         NEW d \in Queries
  PROVE  /\ <<a, b, c, d>> \in Seq(Queries) /\ Len(<<a, b, c, d>>) = 4
         /\ Named(<<a, b, c, d>>) = {a.name, b.name, c.name, d.name}
         /\ Plain(a) /\ Plain(b) /\ Plain(c) /\ Plain(d) =>
              Block(<<a, b, c, d>>)
<1> DEFINE p == <<a, b, c, d>>
<1>1. p \in Seq(Queries) /\ Len(p) = 4 /\ DOMAIN p = 1 .. 4
      /\ p[1] = a /\ p[2] = b /\ p[3] = c /\ p[4] = d
  OBVIOUS
<1> HIDE DEF p
<1>2. Named(p) = {a.name, b.name, c.name, d.name}
  BY <1>1 DEF Named
<1>3. ASSUME Plain(a), Plain(b), Plain(c), Plain(d)
      PROVE  Block(p)
  <2>1. Named(p) \cap {"types", "whole", "week"} = {}
    BY <1>2, <1>3 DEF Plain
  <2>2. p \in Seq(Queries) /\ 0 < Len(p)  BY <1>1
  <2>. QED  BY <2>1, <2>2, PlainBlock
<1>. QED  BY <1>1, <1>2, <1>3 DEF p

LEMMA Row5 ==
  ASSUME NEW a \in Queries, NEW b \in Queries, NEW c \in Queries,
         NEW d \in Queries, NEW e \in Queries
  PROVE  /\ <<a, b, c, d, e>> \in Seq(Queries) /\ Len(<<a, b, c, d, e>>) = 5
         /\ Named(<<a, b, c, d, e>>) = {a.name, b.name, c.name, d.name, e.name}
         /\ Plain(a) /\ Plain(b) /\ Plain(c) /\ Plain(d) /\ Plain(e) =>
              Block(<<a, b, c, d, e>>)
<1> DEFINE p == <<a, b, c, d, e>>
<1>1. p \in Seq(Queries) /\ Len(p) = 5 /\ DOMAIN p = 1 .. 5
      /\ p[1] = a /\ p[2] = b /\ p[3] = c /\ p[4] = d /\ p[5] = e
  OBVIOUS
<1> HIDE DEF p
<1>2. Named(p) = {a.name, b.name, c.name, d.name, e.name}
  BY <1>1 DEF Named
<1>3. ASSUME Plain(a), Plain(b), Plain(c), Plain(d), Plain(e)
      PROVE  Block(p)
  <2>1. Named(p) \cap {"types", "whole", "week"} = {}
    BY <1>2, <1>3 DEF Plain
  <2>2. p \in Seq(Queries) /\ 0 < Len(p)  BY <1>1
  <2>. QED  BY <2>1, <2>2, PlainBlock
<1>. QED  BY <1>1, <1>2, <1>3 DEF p

LEMMA TrendIsAQuery ==
  ASSUME NEW h \in Nat
  PROVE  Trend(h) \in Queries /\ Trend(h).name = "trend"
BY CountedIsAQuery, BoundsAreNaturals DEF Trend, Figures

LEMMA LatestIsAQuery == Latest \in Queries /\ Latest.name = "latest"
BY ListedIsAQuery, BoundsAreNaturals DEF Latest

LEMMA SourcesIsAQuery ==
  ASSUME NEW h \in Nat
  PROVE  Sources(h) \in Queries /\ Sources(h).name = "sources"
BY CountedIsAQuery DEF Sources, Figures

LEMMA ThresholdsBlock ==
  ASSUME NEW h \in Nat
  PROVE  /\ Block(Thresholds(h))
         /\ Named(Thresholds(h)) = {"inWindow", "highInWindow"}
<1> DEFINE w == IF h = AllTime THEN Day ELSE h
           a == Counted("inWindow", w)
           b == CountedHigh("highInWindow", w)
<1>1. w \in Nat  BY BoundsAreNaturals
<1>2. /\ a \in Queries /\ a.name = "inWindow"
      /\ b \in Queries /\ b.name = "highInWindow"
  <2> HIDE DEF w
  <2>. QED  BY <1>1, CountedIsAQuery DEF Figures
<1>3. Thresholds(h) = <<a, b>>  BY DEF Thresholds
<1> HIDE DEF a, b
<1>. QED  BY <1>2, <1>3, Row2 DEF Plain

LEMMA InsightsBlock ==
  ASSUME NEW h \in Nat
  PROVE  /\ Block(Insights(h))
         /\ h = AllTime => EndsInTotal(Insights(h))
         /\ Named(Insights(h)) = {"trend", "types", "whole", "sources",
                                  "inWindow", "highInWindow", "total"}
<1> DEFINE a == <<Trend(h)>>
           b == <<Sources(h)>>
           c == <<Counted("total", h)>>
           p == a \o Breakdown(h)
           q == p \o b
           r == q \o Thresholds(h)
<1>1. Block(a) /\ Named(a) = {"trend"}
  BY TrendIsAQuery, Row1 DEF Plain
<1>2. Block(b) /\ Named(b) = {"sources"}
  BY SourcesIsAQuery, Row1 DEF Plain
<1>3. Block(c) /\ Named(c) = {"total"} /\ (h = AllTime => EndsInTotal(c))
  <2>1. Counted("total", h) \in Queries /\ Counted("total", h).name = "total"
    BY CountedIsAQuery DEF Figures
  <2>. QED  BY <2>1, Row1 DEF Plain
<1>4. Insights(h) = r \o c  BY DEF Insights
<1> HIDE DEF a, b, c
<1>5. Block(p) /\ Named(p) = {"trend", "types", "whole"}
  BY <1>1, BreakdownBlock, Joined
<1> HIDE DEF p
<1>6. Block(q) /\ Named(q) = {"trend", "types", "whole", "sources"}
  BY <1>2, <1>5, Joined
<1> HIDE DEF q
<1>7. Block(r) /\ Named(r) = {"trend", "types", "whole", "sources",
                              "inWindow", "highInWindow"}
  BY <1>6, ThresholdsBlock, Joined
<1> HIDE DEF r
<1>. QED  BY <1>3, <1>4, <1>7, Joined

LEMMA CountReportBlock ==
  ASSUME NEW h \in Nat
  PROVE  /\ Block(CountReport(h))
         /\ Named(CountReport(h)) = {"total", "high", "lower"}
<1> DEFINE a == Counted("total", h)
           b == CountedHigh("high", h)
           c == [Counted("lower", h) EXCEPT !.of = Findings \ Severe]
<1>1. /\ a \in Queries /\ a.name = "total" /\ b \in Queries /\ b.name = "high"
  BY CountedIsAQuery DEF Figures
<1>2. c \in Queries /\ c.name = "lower"  BY LowerIsAQuery
<1>3. CountReport(h) = <<a, b, c>>  BY DEF CountReport
<1> HIDE DEF a, b, c
<1>. QED  BY <1>1, <1>2, <1>3, Row3 DEF Plain

LEMMA StatusBlock ==
  /\ Block(StatusReport)
  /\ Named(StatusReport) = {"total", "day", "hour", "latest", "trend",
                            "inWindow", "highInWindow"}
<1> DEFINE a == Counted("total", AllTime)
           b == Counted("day", Day)
           c == Counted("hour", Hour)
           p == <<a, b, c, Latest, Trend(Week)>>
<1>1. /\ a \in Queries /\ a.name = "total" /\ b \in Queries /\ b.name = "day"
      /\ c \in Queries /\ c.name = "hour"
  BY CountedIsAQuery, BoundsAreNaturals DEF Figures
<1>2. StatusReport = p \o Thresholds(Day)  BY DEF StatusReport
<1>3. Trend(Week) \in Queries /\ Trend(Week).name = "trend"
  BY TrendIsAQuery, BoundsAreNaturals
<1> HIDE DEF a, b, c
<1>4. Block(p) /\ Named(p) = {"total", "day", "hour", "latest", "trend"}
  BY <1>1, <1>3, LatestIsAQuery, Row5 DEF Plain
<1> HIDE DEF p
<1>. QED  BY <1>2, <1>4, ThresholdsBlock, Joined, BoundsAreNaturals

LEMMA OverviewBlock ==
  /\ Block(MonitoringOverview)
  /\ Named(MonitoringOverview) = {"day", "highDay", "inWindow",
                                  "highInWindow", "trend"}
<1> DEFINE a == Counted("day", Day)
           b == CountedHigh("highDay", Day)
           p == <<a, b>>
           q == p \o Thresholds(Day)
           c == <<Trend(Week)>>
<1>1. /\ a \in Queries /\ a.name = "day" /\ b \in Queries /\ b.name = "highDay"
  BY CountedIsAQuery, BoundsAreNaturals DEF Figures
<1>2. MonitoringOverview = q \o c  BY DEF MonitoringOverview
<1>3. Block(c) /\ Named(c) = {"trend"}
  BY TrendIsAQuery, BoundsAreNaturals, Row1 DEF Plain
<1> HIDE DEF a, b, c
<1>4. Block(p) /\ Named(p) = {"day", "highDay"}
  BY <1>1, Row2 DEF Plain
<1> HIDE DEF p
<1>5. Block(q) /\ Named(q) = {"day", "highDay", "inWindow", "highInWindow"}
  BY <1>4, ThresholdsBlock, Joined, BoundsAreNaturals
<1> HIDE DEF q
<1>. QED  BY <1>2, <1>3, <1>5, Joined

LEMMA SummaryToolBlock ==
  ASSUME NEW h \in Nat
  PROVE  /\ Block(SummaryTool(h))
         /\ Named(SummaryTool(h)) \subseteq {"list", "trend", "twice"}
<1> DEFINE a == Listed("list", h, ListLimit)
           b == Counted("twice", 2 * h)
           p == <<a, Trend(h)>>
<1>1. /\ a \in Queries /\ a.name = "list" /\ b \in Queries /\ b.name = "twice"
  <2>1. 2 * h \in Nat  OBVIOUS
  <2>. QED  BY <2>1, CountedIsAQuery, ListedIsAQuery, BoundsAreNaturals
            DEF Figures
<1>2. SummaryTool(h) = p \o (IF h = AllTime THEN <<>> ELSE <<b>>)
  BY DEF SummaryTool
<1> HIDE DEF a, b
<1>3. p \in Seq(Queries) /\ Block(p) /\ Named(p) = {"list", "trend"}
  BY <1>1, TrendIsAQuery, Row2 DEF Plain
<1>4. Block(<<b>>) /\ Named(<<b>>) = {"twice"}
  BY <1>1, Row1 DEF Plain
<1> HIDE DEF p
<1>5. CASE h = AllTime
  <2>1. p \o <<>> = p  BY <1>3, ConcatEmptySeq
  <2>. QED  BY <1>2, <1>3, <1>5, <2>1
<1>6. CASE h # AllTime
  BY <1>2, <1>3, <1>4, <1>6, Joined
<1>. QED  BY <1>5, <1>6

LEMMA EndpointBlock ==
  ASSUME NEW h \in Nat
  PROVE  /\ Block(SummaryEndpoint(h))
         /\ Named(SummaryEndpoint(h)) = {"list", "total"}
<1> DEFINE a == Listed("list", h, ListLimit)
           b == Counted("total", h)
<1>1. /\ a \in Queries /\ a.name = "list" /\ b \in Queries /\ b.name = "total"
  BY CountedIsAQuery, ListedIsAQuery, BoundsAreNaturals DEF Figures
<1>2. SummaryEndpoint(h) = <<a, b>>  BY DEF SummaryEndpoint
<1> HIDE DEF a, b
<1>. QED  BY <1>1, <1>2, Row2 DEF Plain

LEMMA PeriodBlock ==
  ASSUME NEW h \in Nat
  PROVE  /\ Block(PeriodReport(h))
         /\ Named(PeriodReport(h)) = {"list", "types", "whole", "sources",
              "trend", "inWindow", "highInWindow", "worst"}
<1> DEFINE l == Listed("list", h, ListLimit)
           a == <<l>>
           b == <<Sources(h), Trend(h)>>
           c == <<Worst(h)>>
           p == a \o Breakdown(h)
           q == p \o b
           r == q \o Thresholds(h)
<1>1. Block(a) /\ Named(a) = {"list"}
  <2>1. l \in Queries /\ l.name = "list"
    BY ListedIsAQuery, BoundsAreNaturals
  <2> HIDE DEF l
  <2>. QED  BY <2>1, Row1 DEF Plain
<1>2. Block(b) /\ Named(b) = {"sources", "trend"}
  BY SourcesIsAQuery, TrendIsAQuery, Row2 DEF Plain
<1>3. Block(c) /\ Named(c) = {"worst"}
  BY WorstIsAQuery, Row1 DEF Plain
<1>4. PeriodReport(h) = r \o c  BY DEF PeriodReport
<1> HIDE DEF a, b, c
<1>5. Block(p) /\ Named(p) = {"list", "types", "whole"}
  BY <1>1, BreakdownBlock, Joined
<1> HIDE DEF p
<1>6. Block(q) /\ Named(q) = {"list", "types", "whole", "sources", "trend"}
  BY <1>2, <1>5, Joined
<1> HIDE DEF q
<1>7. Block(r) /\ Named(r) = {"list", "types", "whole", "sources", "trend",
                              "inWindow", "highInWindow"}
  BY <1>6, ThresholdsBlock, Joined
<1> HIDE DEF r
<1>. QED  BY <1>3, <1>4, <1>7, Joined

LEMMA BoardReportBlock ==
  /\ Block(BoardReport)
  /\ Named(BoardReport) = {"all", "bySeverity", "byBoard", "byType",
                           "everything", "recent"}
<1> DEFINE a == Counted("all", AllTime)
           b == CountedHigh("bySeverity", AllTime)
           c == Counted("byBoard", AllTime)
           d == Counted("byType", AllTime)
           e == Counted("everything", AllTime)
           l == Listed("recent", AllTime, ListLimit)
           p == <<a, b, c, d>>
           q == <<e, l>>
<1>1. /\ a \in Queries /\ a.name = "all"
      /\ b \in Queries /\ b.name = "bySeverity"
      /\ c \in Queries /\ c.name = "byBoard"
      /\ d \in Queries /\ d.name = "byType"
      /\ e \in Queries /\ e.name = "everything"
  BY CountedIsAQuery, BoundsAreNaturals DEF Figures
<1>2. l \in Queries /\ l.name = "recent"
  BY ListedIsAQuery, BoundsAreNaturals
<1>3. BoardReport = p \o q  BY DEF BoardReport, TableSummary
<1> HIDE DEF a, b, c, d, e, l
<1>4. Block(p) /\ Named(p) = {"all", "bySeverity", "byBoard", "byType"}
  BY <1>1, Row4 DEF Plain
<1>5. Block(q) /\ Named(q) = {"everything", "recent"}
  BY <1>1, <1>2, Row2 DEF Plain
<1> HIDE DEF p, q
<1>. QED  BY <1>3, <1>4, <1>5, Joined

LEMMA DefectReportBlock ==
  /\ Block(DefectReport) /\ EndsInTotal(DefectReport)
  /\ Named(DefectReport) =
       {"all", "bySeverity", "byBoard", "byType", "everything", "recent"}
       \cup {"allTime", "day", "week", "trend", "types", "whole"}
       \cup {"sources", "inWindow", "highInWindow", "total"}
<1> DEFINE a == Counted("allTime", AllTime)
           b == Counted("day", Day)
           c == Counted("week", Week)
           d == Trend(Week)
           m == <<a, b, c, d>>
           p == BoardReport \o m
           q == p \o Breakdown(AllTime)
<1>1. /\ a \in Queries /\ a.name = "allTime" /\ b \in Queries /\ b.name = "day"
  BY CountedIsAQuery, BoundsAreNaturals DEF Figures
<1>2. c \in Queries /\ c.name = "week"  BY WeekIsAQuery
<1>3. d \in Queries /\ d.name = "trend"
  BY TrendIsAQuery, BoundsAreNaturals
<1>4. DefectReport = q \o Insights(AllTime)  BY DEF DefectReport
<1> HIDE DEF a, b, c, d
<1>5. m \in Seq(Queries) /\ Len(m) = 4 /\ m[1] = a /\ m[2] = b /\ m[3] = c
      /\ m[4] = d /\ Named(m) = {"allTime", "day", "week", "trend"}
  BY <1>1, <1>2, <1>3, Row4
<1> HIDE DEF m
<1>6. Block(m)
  BY <1>1, <1>2, <1>3, <1>5 DEF Block, PairsUp, Ordered
<1>7. Block(p) /\ Named(p) = Named(BoardReport) \cup Named(m)
  BY <1>6, BoardReportBlock, Joined
<1> HIDE DEF p
<1>8. Block(q) /\ Named(q) = Named(p) \cup {"types", "whole"}
  BY <1>7, BreakdownBlock, Joined, BoundsAreNaturals
<1> HIDE DEF q
<1>9. /\ Block(q \o Insights(AllTime)) /\ EndsInTotal(q \o Insights(AllTime))
      /\ Named(q \o Insights(AllTime)) = Named(q) \cup Named(Insights(AllTime))
  BY <1>8, InsightsBlock, Joined, BoundsAreNaturals
<1>. QED
  BY <1>4, <1>5, <1>7, <1>8, <1>9, BoardReportBlock, InsightsBlock,
     BoundsAreNaturals

LEMMA LogQueryBlock ==
  ASSUME NEW h \in Nat
  PROVE  /\ Block(LogQuery(h))
         /\ Named(LogQuery(h)) = {"list", "total", "latest", "types", "whole"}
<1> DEFINE a == Listed("list", h, ListLimit)
           b == Counted("total", h)
           p == <<a, b, Latest>>
<1>1. /\ a \in Queries /\ a.name = "list" /\ b \in Queries /\ b.name = "total"
  BY CountedIsAQuery, ListedIsAQuery, BoundsAreNaturals DEF Figures
<1>2. LogQuery(h) = p \o Breakdown(h)  BY DEF LogQuery
<1> HIDE DEF a, b
<1>3. Block(p) /\ Named(p) = {"list", "total", "latest"}
  BY <1>1, LatestIsAQuery, Row3 DEF Plain
<1> HIDE DEF p
<1>. QED  BY <1>2, <1>3, BreakdownBlock, Joined

LEMMA HistoryBlock ==
  /\ Block(HistoryQuery)
  /\ Named(HistoryQuery) = {"list", "total", "latest", "day"}
<1> DEFINE a == Listed("list", AllTime, ListLimit)
           b == Counted("total", AllTime)
           c == Counted("day", Day)
<1>1. /\ a \in Queries /\ a.name = "list" /\ b \in Queries /\ b.name = "total"
      /\ c \in Queries /\ c.name = "day"
  BY CountedIsAQuery, ListedIsAQuery, BoundsAreNaturals DEF Figures
<1>2. HistoryQuery = <<a, b, Latest, c>>  BY DEF HistoryQuery
<1> HIDE DEF a, b, c
<1>. QED  BY <1>1, <1>2, LatestIsAQuery, Row4 DEF Plain

LEMMA SingleReportBlock ==
  ASSUME NEW h \in Nat
  PROVE  /\ Block(<<Trend(h), Sources(h), Worst(h)>>)
         /\ Named(<<Trend(h), Sources(h), Worst(h)>>)
              = {"trend", "sources", "worst"}
BY TrendIsAQuery, SourcesIsAQuery, WorstIsAQuery, Row3 DEF Plain

(* The queries of a report that is asked for.                               *)
LEMMA WindowedFits ==
  ASSUME NEW name \in WindowedReports, NEW h \in Nat
  PROVE  PlanFits(Windowed(name, h), h)
<1> DEFINE p == Windowed(name, h)
<1> USE DEF PlanFits, DueFits
<1>1. CASE name = "count"
  <2>1. p = CountReport(h)  BY <1>1 DEF Windowed
  <2>. QED  BY <2>1, CountReportBlock
<1>2. CASE name = "summary"
  <2>1. p = SummaryTool(h)  BY <1>2 DEF Windowed
  <2>. QED  BY <2>1, SummaryToolBlock
<1>3. CASE name = "endpoint"
  <2>1. p = SummaryEndpoint(h)  BY <1>3 DEF Windowed
  <2>. QED  BY <2>1, EndpointBlock
<1>4. CASE name = "period"
  <2>1. p = PeriodReport(h)  BY <1>4 DEF Windowed
  <2>. QED  BY <2>1, PeriodBlock
<1>5. CASE name = "insights"
  <2>1. p = Insights(h)  BY <1>5 DEF Windowed
  <2>. QED  BY <2>1, InsightsBlock
<1>6. CASE name = "logs"
  <2>1. p = LogQuery(h)  BY <1>6 DEF Windowed
  <2>. QED  BY <2>1, LogQueryBlock
<1>7. CASE name = "types"
  <2>1. p = Breakdown(h)  BY <1>7 DEF Windowed
  <2>. QED  BY <2>1, BreakdownBlock
<1>8. CASE name = "single"
  <2>1. p = <<Trend(h), Sources(h), Worst(h)>>  BY <1>8 DEF Windowed
  <2>. QED  BY <2>1, SingleReportBlock
<1>. QED
  BY <1>1, <1>2, <1>3, <1>4, <1>5, <1>6, <1>7, <1>8 DEF WindowedReports

LEMMA FixedFits ==
  ASSUME NEW name \in FixedReports
  PROVE  PlanFits(Fixed(name), AllTime)
<1> DEFINE p == Fixed(name)
<1> USE DEF PlanFits, DueFits
<1>1. CASE name = "status"
  <2>1. p = StatusReport  BY <1>1 DEF Fixed
  <2>. QED  BY <2>1, StatusBlock
<1>2. CASE name = "overview"
  <2>1. p = MonitoringOverview  BY <1>2 DEF Fixed
  <2>. QED  BY <2>1, OverviewBlock
<1>3. CASE name = "defects"
  <2>1. p = DefectReport  BY <1>3 DEF Fixed
  <2>. QED  BY <2>1, DefectReportBlock
<1>4. CASE name = "history"
  <2>1. p = HistoryQuery  BY <1>4 DEF Fixed
  <2>. QED  BY <2>1, HistoryBlock
<1>. QED  BY <1>1, <1>2, <1>3, <1>4 DEF FixedReports

-----------------------------------------------------------------------------
(* The figures of a report under way, and what it has still to ask.         *)
Due == DOMAIN figures \cup Named(queries)

AskedFits == queries \in Seq(Queries) /\ PairsUp(queries) /\ Ordered(queries)

(* Only between the groups of a breakdown and their total may the total be  *)
(* missing or old.                                                          *)
WholeIsNext == queries # <<>> /\ queries[1].name = "whole"

SharesSoFar ==
  "types" \in DOMAIN figures =>
    \/ WholeIsNext /\ figures["types"] \subseteq Since(start)
    \/ /\ ~ WholeIsNext /\ "whole" \in DOMAIN figures
       /\ figures["types"] \subseteq figures["whole"]

SeveritiesSoFar ==
  report # NoReport /\ report.name = "count" /\ report.hours = AllTime =>
    \/ queries = CountReport(AllTime)
    \/ queries = Tail(CountReport(AllTime)) /\ Has({"total"})
    \/ /\ queries = Tail(Tail(CountReport(AllTime))) /\ Has({"total", "high"})
       /\ \A i \in figures["total"] :
            table[i].finding \in Severe => i \in figures["high"]
    \/ queries = <<>> /\ figures["total"] \subseteq
                           figures["high"] \cup figures["lower"]

InsightsSoFar ==
  /\ DueFits(Due, report.hours)
  /\ {"sources", "total"} \subseteq Due /\ report.hours = AllTime =>
       IF queries = <<>>
       THEN figures["sources"] \cup figures["whole"] \cup figures["trend"]
              \cup figures["inWindow"] \subseteq figures["total"]
       ELSE EndsInTotal(queries)

WeekSoFar ==
  "week" \in DOMAIN figures =>
    /\ "day" \in DOMAIN figures \ Named(queries)
    /\ figures["day"] \subseteq figures["week"]

ReportIInv ==
  /\ ReportTypeOK /\ AskedFits
  /\ SharesSoFar /\ SeveritiesSoFar /\ InsightsSoFar
  /\ Horizon <= Week => WeekSoFar

LEMMA NothingNamed == Named(<<>>) = {}
BY DEF Named

LEMMA ReportInitHolds == ReportInit => ReportIInv
<1> SUFFICES ASSUME ReportInit PROVE ReportIInv  OBVIOUS
<1>1. table = <<>> /\ clock = 0 /\ report = NoReport /\ queries = <<>>
      /\ start = 0 /\ figures = <<>> /\ DOMAIN figures = {}
  BY DEF ReportInit, TableInit
<1>2. ReportTypeOK
  BY <1>1, BoundsAreNaturals, EmptySeq DEF ReportTypeOK, TableTypeOK
<1>3. AskedFits
  <2>1. queries \in Seq(Queries) /\ Len(queries) = 0
    BY <1>1, EmptySeq
  <2>. QED  BY <2>1 DEF AskedFits, PairsUp, Ordered
<1>4. Due = {}  BY <1>1, NothingNamed DEF Due
<1>5. SharesSoFar /\ SeveritiesSoFar /\ WeekSoFar
  BY <1>1 DEF SharesSoFar, SeveritiesSoFar, WeekSoFar
<1>6. InsightsSoFar  BY <1>4 DEF InsightsSoFar, DueFits
<1>. QED  BY <1>2, <1>3, <1>5, <1>6 DEF ReportIInv

-----------------------------------------------------------------------------
(* Rows and answers.                                                        *)
LEMMA AnswersAreRows ==
  ASSUME NEW q \in Queries, NEW from \in Nat, NEW S \in Answers(q, from)
  PROVE  S \subseteq Since(from) /\ S \subseteq DOMAIN table
<1>1. Since(from) \subseteq DOMAIN table  BY DEF Since
<1>2. CASE q.kind = "count"
  <2>1. S = Count(from, q.of)  BY <1>2 DEF Answers
  <2>. QED  BY <2>1, <1>1 DEF Count
<1>3. CASE q.kind = "again"
  <2>1. S = Since(from)  BY <1>3 DEF Answers
  <2>. QED  BY <2>1, <1>1
<1>4. CASE q.kind = "newest"
  <2>1. S \in Newest(Since(from), q.limit)  BY <1>4 DEF Answers
  <2>. QED  BY <2>1, <1>1 DEF Newest
<1>5. CASE q.kind = "worst"
  <2>1. S \in MostSevere(from)  BY <1>5 DEF Answers
  <2>2. S \subseteq Count(from, Severe) \/ S \subseteq Since(from)
    BY <2>1 DEF MostSevere
  <2>. QED  BY <2>2, <1>1 DEF Count
<1>. QED  BY <1>2, <1>3, <1>4, <1>5, QueryFields

LEMMA AllRows ==
  ASSUME TableTypeOK
  PROVE  Count(0, Findings) = DOMAIN table /\ Since(0) = DOMAIN table
BY RowTypes DEF Count, Since

(* The table and the clock move on under a report.                          *)
LEMMA TableGrows ==
  ASSUME ReportIInv, TableTypeOK', UNCHANGED <<report, queries, start, figures>>,
         \A i \in DOMAIN table : i \in DOMAIN table' /\ table'[i] = table[i]
  PROVE  ReportIInv'
<1>1. ReportTypeOK'
  BY DEF ReportIInv, ReportTypeOK
<1>2. AskedFits' /\ InsightsSoFar' /\ (Horizon <= Week => WeekSoFar')
  BY DEF ReportIInv, AskedFits, InsightsSoFar, WeekSoFar, Due
<1>3. SharesSoFar'
  <2>1. \A i \in Since(start) : i \in Since(start)'
    BY DEF Since
  <2>. QED  BY <2>1 DEF ReportIInv, SharesSoFar, WholeIsNext
<1>4. SeveritiesSoFar'
  <2>1. "total" \in DOMAIN figures => figures["total"] \subseteq DOMAIN table
    BY DEF ReportIInv, ReportTypeOK
  <2>. QED
    BY <2>1 DEF ReportIInv, SeveritiesSoFar, Has
<1>. QED  BY <1>1, <1>2, <1>3, <1>4 DEF ReportIInv

LEMMA RowLoggedStep == ReportIInv /\ RowLogged => ReportIInv'
<1> SUFFICES ASSUME ReportIInv, RowLogged PROVE ReportIInv'  OBVIOUS
<1>1. PICK f \in Findings : Record(f)  BY DEF RowLogged
<1>2. TableTypeOK' /\ \A i \in DOMAIN table :
                        i \in DOMAIN table' /\ table'[i] = table[i]
  BY <1>1, RecordStep DEF ReportIInv, ReportTypeOK
<1>. QED  BY <1>2, TableGrows DEF RowLogged

LEMMA ReportElapseStep == ReportIInv /\ ReportElapse => ReportIInv'
<1> SUFFICES ASSUME ReportIInv, ReportElapse PROVE ReportIInv'  OBVIOUS
<1>1. TableTypeOK' /\ table' = table
  BY BoundsAreNaturals
     DEF ReportElapse, Elapse, ReportIInv, ReportTypeOK, TableTypeOK
<1>. QED  BY <1>1, TableGrows DEF ReportElapse

(* A report is asked for.                                                   *)
LEMMA AskStep ==
  ASSUME ReportIInv, NEW name, NEW h, Ask(name, h),
         \/ name \in WindowedReports /\ h \in Nat
         \/ name \in FixedReports /\ h = AllTime
  PROVE  ReportIInv'
<1> DEFINE p == IF name \in WindowedReports THEN Windowed(name, h)
                ELSE Fixed(name)
<1>1. /\ report' = [name |-> name, hours |-> h] /\ queries' = p
      /\ figures' = <<>> /\ UNCHANGED <<table, clock, start>>
  BY DEF Ask
<1>2. PlanFits(p, h)
  <2>1. CASE name \in WindowedReports
    <3>1. h \in Nat  BY BoundsAreNaturals
    <3>. QED  BY <2>1, <3>1, WindowedFits
  <2>2. CASE name \notin WindowedReports
    <3>. QED  BY <2>2, FixedFits
  <2>. QED  BY <2>1, <2>2
<1>3. name = "count" => p = CountReport(h)
  BY DEF WindowedReports, FixedReports, Windowed
<1> HIDE DEF p
<1>4. Block(p) /\ p # <<>>
  BY <1>2, EmptySeq DEF PlanFits, Block
<1>5. DOMAIN figures' = {} /\ report'.name = name /\ report'.hours = h
  BY <1>1
<1>6. ReportTypeOK'
  BY <1>1, <1>5 DEF ReportIInv, ReportTypeOK, TableTypeOK
<1>7. AskedFits'  BY <1>1, <1>4 DEF AskedFits, Block
<1>8. SharesSoFar' /\ WeekSoFar'
  BY <1>5 DEF SharesSoFar, WeekSoFar
<1>9. SeveritiesSoFar'
  BY <1>1, <1>3, <1>5 DEF SeveritiesSoFar
<1>10. Due' = Named(p)  BY <1>1, <1>5 DEF Due
<1>11. InsightsSoFar'
  BY <1>1, <1>2, <1>4, <1>5, <1>10 DEF InsightsSoFar, PlanFits
<1>. QED  BY <1>6, <1>7, <1>8, <1>9, <1>11 DEF ReportIInv

-----------------------------------------------------------------------------
(* A query is answered.                                                     *)
LEMMA TailNames ==
  ASSUME NEW p \in Seq(Queries), p # <<>>
  PROVE  /\ p[1] \in Queries /\ Head(p) = p[1] /\ Len(p) \in Nat /\ 0 < Len(p)
         /\ Tail(p) \in Seq(Queries) /\ Len(Tail(p)) = Len(p) - 1
         /\ \A i \in 1 .. Len(Tail(p)) : Tail(p)[i] = p[i + 1]
         /\ Named(p) = {p[1].name} \cup Named(Tail(p))
         /\ EndsInTotal(p) =>
              IF Tail(p) = <<>> THEN p[1] = Counted("total", AllTime)
              ELSE EndsInTotal(Tail(p))
<1> DEFINE t == Tail(p)
<1>1. Head(p) = p[1]  OBVIOUS
<1>2. /\ Head(p) \in Queries /\ t \in Seq(Queries) /\ Len(t) = Len(p) - 1
      /\ \A i \in 1 .. Len(t) : t[i] = p[i + 1]
  BY HeadTailProperties
<1>3. Len(p) \in Nat /\ 0 < Len(p) /\ DOMAIN p = 1 .. Len(p)
  BY EmptySeq, LenProperties
<1>4. DOMAIN t = 1 .. Len(t) /\ Len(t) \in Nat /\ (t = <<>> <=> Len(t) = 0)
  BY <1>2, LenProperties, EmptySeq
<1> HIDE DEF t
<1>5. Named(p) = {p[1].name} \cup Named(t)
  <2>1. \A i \in 1 .. Len(t) : i + 1 \in 1 .. Len(p)  BY <1>2, <1>3, <1>4
  <2>2. Named(t) \subseteq Named(p)
    BY <2>1, <1>2, <1>3, <1>4 DEF Named
  <2>3. 1 \in 1 .. Len(p)  BY <1>3
  <2>4. p[1].name \in Named(p)  BY <2>3, <1>3 DEF Named
  <2>5. ASSUME NEW i \in 1 .. Len(p), i # 1
        PROVE  p[i].name \in Named(t)
    <3>1. i - 1 \in 1 .. Len(t) /\ t[i - 1] = p[(i - 1) + 1] /\ (i - 1) + 1 = i
      BY <2>5, <1>2, <1>3
    <3>. QED  BY <3>1, <1>4 DEF Named
  <2>6. Named(p) \subseteq {p[1].name} \cup Named(t)
    BY <2>5, <1>3 DEF Named
  <2>. QED  BY <2>2, <2>4, <2>6
<1>6. ASSUME EndsInTotal(p)
      PROVE  IF t = <<>> THEN p[1] = Counted("total", AllTime)
             ELSE EndsInTotal(t)
  <2>1. CASE t = <<>>
    <3>1. Len(p) = 1  BY <2>1, <1>2, <1>3, <1>4
    <3>. QED  BY <3>1, <1>6, <2>1 DEF EndsInTotal
  <2>2. CASE t # <<>>
    <3>1. Len(t) \in 1 .. Len(t) /\ Len(t) + 1 = Len(p)
      BY <2>2, <1>2, <1>3, <1>4
    <3>2. t[Len(t)] = p[Len(p)]  BY <3>1, <1>2
    <3>. QED  BY <3>2, <1>6, <2>2 DEF EndsInTotal
  <2>. QED  BY <2>1, <2>2
<1>. QED  BY <1>1, <1>2, <1>3, <1>5, <1>6 DEF t

LEMMA TailFits ==
  ASSUME NEW p \in Seq(Queries), p # <<>>, PairsUp(p), Ordered(p)
  PROVE  /\ PairsUp(Tail(p)) /\ Ordered(Tail(p))
         /\ p[1].name = "types" => Tail(p) # <<>> /\ Tail(p)[1].name = "whole"
         /\ p[1].name # "types" =>
              ~ (Tail(p) # <<>> /\ Tail(p)[1].name = "whole")
         /\ p[1].name = "week" => "day" \notin Named(Tail(p))
<1> DEFINE t == Tail(p)
<1>1. /\ t \in Seq(Queries) /\ Len(t) = Len(p) - 1
      /\ Len(p) \in Nat /\ 0 < Len(p)
      /\ \A i \in 1 .. Len(t) : t[i] = p[i + 1]
  BY TailNames
<1>2. DOMAIN t = 1 .. Len(t) /\ Len(t) \in Nat /\ (t = <<>> <=> Len(t) = 0)
  BY <1>1, LenProperties, EmptySeq
<1> HIDE DEF t
<1>3. \A i \in 1 .. Len(t) : i + 1 \in 1 .. Len(p)  BY <1>1, <1>2
<1>4. PairsUp(t)
  <2> SUFFICES ASSUME NEW i \in 1 .. Len(t)
               PROVE  /\ t[i].name = "types" =>
                           i < Len(t) /\ t[i + 1].name = "whole"
                      /\ t[i].name = "whole" /\ 1 < i => t[i - 1].name = "types"
    BY DEF PairsUp
  <2>1. ASSUME t[i].name = "types"
        PROVE  i < Len(t) /\ t[i + 1].name = "whole"
    <3>1. i + 1 < Len(p) /\ p[(i + 1) + 1].name = "whole"
      BY <2>1, <1>1, <1>3 DEF PairsUp
    <3>2. i + 1 \in 1 .. Len(t)  BY <3>1, <1>1
    <3>. QED  BY <3>1, <3>2, <1>1
  <2>2. ASSUME t[i].name = "whole", 1 < i
        PROVE  t[i - 1].name = "types"
    <3>1. p[(i + 1) - 1].name = "types"
      <4>1. 1 < i + 1 /\ p[i + 1].name = "whole"  BY <2>2, <1>1
      <4>. QED  BY <4>1, <1>3 DEF PairsUp
    <3>2. i - 1 \in 1 .. Len(t) /\ (i - 1) + 1 = i /\ (i + 1) - 1 = i
      BY <2>2, <1>2
    <3>. QED  BY <3>1, <3>2, <1>1
  <2>. QED  BY <2>1, <2>2
<1>5. Ordered(t)
  <2> SUFFICES ASSUME NEW i \in 1 .. Len(t), NEW j \in 1 .. Len(t), i < j,
                      t[i].name = "week", t[j].name = "day"
               PROVE  FALSE
    BY DEF Ordered
  <2>1. i + 1 < j + 1  OBVIOUS
  <2>. QED  BY <2>1, <1>1, <1>3 DEF Ordered
<1>6. 1 \in 1 .. Len(p)  BY <1>1
<1>7. ASSUME p[1].name = "types"
      PROVE  t # <<>> /\ t[1].name = "whole"
  <2>1. 1 < Len(p) /\ p[1 + 1].name = "whole"
    BY <1>6, <1>7 DEF PairsUp
  <2>2. 1 \in 1 .. Len(t)  BY <2>1, <1>1
  <2>. QED  BY <2>1, <2>2, <1>1, <1>2
<1>8. ASSUME t # <<>>, t[1].name = "whole"
      PROVE  p[1].name = "types"
  <2>1. 1 \in 1 .. Len(t)  BY <1>8, <1>2
  <2>2. 2 \in 1 .. Len(p) /\ p[2].name = "whole"
    BY <2>1, <1>1, <1>3, <1>8
  <2>3. p[2 - 1].name = "types"
    BY <2>2 DEF PairsUp
  <2>. QED  BY <2>3
<1>9. ASSUME p[1].name = "week", "day" \in Named(t)
      PROVE  FALSE
  <2>1. PICK i \in 1 .. Len(t) : t[i].name = "day"
    BY <1>9, <1>2 DEF Named
  <2>2. i + 1 \in 1 .. Len(p) /\ p[i + 1].name = "day" /\ 1 < i + 1
    BY <2>1, <1>1, <1>3
  <2>. QED  BY <2>2, <1>6, <1>9 DEF Ordered
<1>. QED  BY <1>4, <1>5, <1>7, <1>8, <1>9 DEF t

(* What the answer to one query does to the figures.                        *)
LEMMA QueryStep ==
  ASSUME ReportIInv, Query
  PROVE  ReportIInv'
<1> DEFINE q == Head(queries)
           from == IF q.kind = "again" THEN start ELSE Start(q.hours)
<1>1. PICK S \in Answers(q, from) :
             figures' = [n \in DOMAIN figures \cup {q.name} |->
                           IF n = q.name THEN S ELSE figures[n]]
  BY DEF Query
<1>2. /\ queries # <<>> /\ queries' = Tail(queries) /\ start' = from
      /\ UNCHANGED <<table, clock, report>>
  BY DEF Query
<1>3. queries \in Seq(Queries) /\ PairsUp(queries) /\ Ordered(queries)
  BY DEF ReportIInv, AskedFits
<1>4. PICK a \in Queries : a = queries[1]
  BY <1>2, <1>3, TailNames
<1>5. q = a  BY <1>2, <1>3, <1>4, TailNames
<1>6. TableTypeOK /\ ReportTypeOK  BY DEF ReportIInv, ReportTypeOK
<1>7. PICK b \in 0 .. Horizon : b = from
  <2>1. start \in 0 .. Horizon /\ clock \in 0 .. Horizon
    BY <1>6 DEF ReportTypeOK, TableTypeOK
  <2>2. a.hours \in Nat  BY QueryFields
  <2>3. Start(a.hours) \in 0 .. Horizon
    BY <2>1, <2>2, BoundsAreNaturals DEF Start
  <2>. QED  BY <2>1, <2>3, <1>5
<1>8. S \in Answers(a, b) /\ start' = b /\ b \in Nat
  BY <1>1, <1>2, <1>5, <1>7, BoundsAreNaturals
<1>9. S \subseteq Since(b) /\ S \subseteq DOMAIN table
  BY <1>8, AnswersAreRows
<1>10. /\ DOMAIN figures' = DOMAIN figures \cup {a.name}
       /\ figures'[a.name] = S
       /\ \A n \in DOMAIN figures \ {a.name} : figures'[n] = figures[n]
  BY <1>1, <1>5
<1>11. a.kind = "again" => b = start /\ S = Since(b)
  BY <1>5, <1>7, <1>8 DEF Answers
<1>12. a.kind = "count" /\ a.hours = AllTime /\ a.of = Findings
         => S = DOMAIN table
  <2> SUFFICES ASSUME a.kind = "count", a.hours = AllTime, a.of = Findings
               PROVE  S = DOMAIN table
    OBVIOUS
  <2>1. b = 0  BY <1>5, <1>7 DEF Start
  <2>2. S = Count(b, a.of)  BY <1>8 DEF Answers
  <2>. QED  BY <2>1, <2>2, <1>6, AllRows
<1> HIDE DEF q, from
<1> DEFINE t == Tail(queries)
<1>13. queries' = t /\ Named(queries) = {a.name} \cup Named(t)
  BY <1>2, <1>3, <1>4, TailNames
<1>14. ReportTypeOK'
  <2>1. a.name \in Figures  BY QueryFields
  <2>2. TableTypeOK'  BY <1>2, <1>6 DEF TableTypeOK
  <2>3. \A n \in DOMAIN figures' : figures'[n] \subseteq DOMAIN table'
    BY <1>2, <1>6, <1>9, <1>10 DEF ReportTypeOK
  <2>. QED
    BY <1>2, <1>6, <1>8, <1>10, <2>1, <2>2, <2>3 DEF ReportTypeOK
<1>15. /\ PairsUp(t) /\ Ordered(t) /\ t \in Seq(Queries)
       /\ a.name = "types" => t # <<>> /\ t[1].name = "whole"
       /\ a.name # "types" => ~ (t # <<>> /\ t[1].name = "whole")
       /\ a.name = "week" => "day" \notin Named(t)
  BY <1>2, <1>3, <1>4, TailFits, TailNames
<1>16. AskedFits'  BY <1>13, <1>15 DEF AskedFits
<1>17. Due' = Due
  BY <1>10, <1>13 DEF Due
<1> HIDE DEF t
<1>18. SharesSoFar'
  <2>0. Since(b)' = Since(b)  BY <1>2 DEF Since
  <2>1. CASE a.name = "types"
    <3>1. WholeIsNext'  BY <2>1, <1>13, <1>15 DEF WholeIsNext
    <3>2. Since(start)' = Since(b)  BY <1>2, <1>8 DEF Since
    <3>. QED  BY <2>1, <3>1, <3>2, <1>9, <1>10 DEF SharesSoFar
  <2>2. CASE a.name = "whole"
    <3>1. ~ WholeIsNext'  BY <2>2, <1>13, <1>15 DEF WholeIsNext
    <3>2. S = Since(start)  BY <2>2, <1>11, QueryFields
    <3>3. WholeIsNext  BY <2>2, <1>2, <1>4 DEF WholeIsNext
    <3>4. "types" \in DOMAIN figures => figures["types"] \subseteq S
      BY <3>2, <3>3 DEF ReportIInv, SharesSoFar
    <3>. QED  BY <2>2, <3>1, <3>4, <1>10 DEF SharesSoFar
  <2>3. CASE a.name \notin {"types", "whole"}
    <3>1. ~ WholeIsNext'  BY <2>3, <1>13, <1>15 DEF WholeIsNext
    <3>2. ~ WholeIsNext  BY <2>3, <1>4 DEF WholeIsNext
    <3>. QED  BY <2>3, <3>1, <3>2, <1>10 DEF ReportIInv, SharesSoFar
  <2>. QED  BY <2>1, <2>2, <2>3
<1>19. SeveritiesSoFar'
  <2> SUFFICES ASSUME report # NoReport, report.name = "count",
                      report.hours = AllTime
               PROVE  SeveritiesSoFar'
    BY <1>2 DEF SeveritiesSoFar
  <2> DEFINE c == Counted("total", AllTime)
             d == CountedHigh("high", AllTime)
             e == [Counted("lower", AllTime) EXCEPT !.of = Findings \ Severe]
             p == CountReport(AllTime)
  <2>1. /\ p = <<c, d, e>> /\ Tail(p) = <<d, e>> /\ Tail(Tail(p)) = <<e>>
        /\ Tail(Tail(Tail(p))) = <<>>
        /\ p[1] = c /\ Tail(p)[1] = d /\ Tail(Tail(p))[1] = e
    BY DEF CountReport
  <2>2. /\ c.name = "total"
        /\ d.name = "high" /\ d.kind = "count" /\ d.hours = AllTime
        /\ d.of = Severe
        /\ e.name = "lower" /\ e.kind = "count" /\ e.hours = AllTime
        /\ e.of = Findings \ Severe
    BY DEF Counted, CountedHigh
  <2> HIDE DEF c, d, e, p
  <2>3. CASE queries = p
    <3>1. a.name = "total"  BY <2>3, <2>1, <2>2, <1>4
    <3>2. queries' = Tail(p) /\ Has({"total"})'
      BY <2>3, <3>1, <1>2, <1>10 DEF Has
    <3>. QED  BY <3>2 DEF SeveritiesSoFar, p
  <2>4. CASE queries = Tail(p) /\ Has({"total"})
    <3>1. a = d  BY <2>4, <2>1, <1>4
    <3>2. queries' = Tail(Tail(p)) /\ Has({"total", "high"})'
      BY <2>4, <3>1, <2>2, <1>2, <1>10 DEF Has
    <3>3. S = Count(0, Severe)
      BY <3>1, <2>2, <1>5, <1>7, <1>8 DEF Answers, Start, from, q
    <3>4. figures'["total"] = figures["total"] /\ figures'["high"] = S
      BY <2>4, <3>1, <2>2, <1>10 DEF Has
    <3>5. figures["total"] \subseteq DOMAIN table
      BY <2>4, <1>6 DEF ReportTypeOK, Has
    <3>6. \A i \in DOMAIN table : table[i].time >= 0
      BY <1>6, RowTypes
    <3>7. \A i \in figures'["total"] :
            table'[i].finding \in Severe => i \in figures'["high"]
      BY <3>3, <3>4, <3>5, <3>6, <1>2 DEF Count, Since
    <3>. QED  BY <3>2, <3>7 DEF SeveritiesSoFar, p
  <2>5. CASE /\ queries = Tail(Tail(p)) /\ Has({"total", "high"})
             /\ \A i \in figures["total"] :
                  table[i].finding \in Severe => i \in figures["high"]
    <3>1. a = e  BY <2>5, <2>1, <1>4
    <3>2. queries' = <<>>  BY <2>5, <2>1, <1>2
    <3>3. S = Count(0, Findings \ Severe)
      BY <3>1, <2>2, <1>5, <1>7, <1>8 DEF Answers, Start, from, q
    <3>4. /\ figures'["total"] = figures["total"] /\ figures'["lower"] = S
          /\ figures'["high"] = figures["high"]
      BY <2>5, <3>1, <2>2, <1>10 DEF Has
    <3>5. figures["total"] \subseteq DOMAIN table
      BY <2>5, <1>6 DEF ReportTypeOK, Has
    <3>6. \A i \in DOMAIN table :
            table[i].time >= 0 /\ table[i].finding \in Findings
      BY <1>6, RowTypes
    <3>7. \A i \in figures["total"] : i \in figures["high"] \cup S
      BY <2>5, <3>3, <3>5, <3>6 DEF Count, Since
    <3>. QED  BY <3>2, <3>4, <3>7 DEF SeveritiesSoFar
  <2>. QED  BY <2>3, <2>4, <2>5, <1>2 DEF ReportIInv, SeveritiesSoFar, p
<1>20. InsightsSoFar'
  <2>1. DueFits(Due', report'.hours)
    BY <1>2, <1>17 DEF ReportIInv, InsightsSoFar
  <2> SUFFICES ASSUME {"sources", "total"} \subseteq Due, report.hours = AllTime
               PROVE  InsightsSoFar'
    BY <1>2, <1>17, <2>1 DEF InsightsSoFar
  <2>2. EndsInTotal(queries)
    BY <1>2 DEF ReportIInv, InsightsSoFar
  <2>3. IF t = <<>> THEN a = Counted("total", AllTime) ELSE EndsInTotal(t)
    BY <2>2, <1>2, <1>3, <1>4, TailNames DEF t
  <2>4. CASE t # <<>>
    BY <2>1, <2>3, <2>4, <1>13 DEF InsightsSoFar
  <2>5. CASE t = <<>>
    <3>1. a.name = "total" /\ S = DOMAIN table
      BY <2>3, <2>5, <1>12 DEF Counted
    <3>2. figures'["total"] = DOMAIN table  BY <3>1, <1>10
    <3>3. {"whole", "trend", "inWindow", "sources"} \subseteq DOMAIN figures'
      <4>1. {"whole", "trend", "inWindow", "sources"} \subseteq Due'
        BY <2>1, <1>2, <1>17 DEF DueFits
      <4>2. Due' = DOMAIN figures'  BY <2>5, <1>13, NothingNamed DEF Due
      <4>. QED  BY <4>1, <4>2
    <3>4. \A n \in DOMAIN figures' : figures'[n] \subseteq DOMAIN table
      BY <1>2, <1>14 DEF ReportTypeOK
    <3>. QED  BY <2>1, <2>5, <3>2, <3>3, <3>4, <1>13 DEF InsightsSoFar
  <2>. QED  BY <2>4, <2>5
<1>21. ASSUME Horizon <= Week  PROVE WeekSoFar'
  <2>1. CASE a.name = "week"
    <3>1. a = Counted("week", Week)  BY <2>1, QueryFields
    <3>2. b = 0
      <4>1. clock \in 0 .. Horizon /\ Week \in Nat /\ Horizon \in Nat
        BY <1>6, BoundsAreNaturals DEF TableTypeOK
      <4>2. Start(Week) = 0
        BY <4>1, <1>21 DEF Start
      <4>. QED  BY <3>1, <4>2, <1>5, <1>7 DEF Counted, from, q
    <3>3. S = DOMAIN table
      <4>1. S = Count(0, Findings)
        BY <3>1, <3>2, <1>8 DEF Answers, Counted
      <4>. QED  BY <4>1, <1>6, AllRows
    <3>4. "day" \in DOMAIN figures' \ Named(t)
      <4>1. "day" \in Due /\ "day" \notin Named(t)
        BY <2>1, <1>15, <1>13 DEF ReportIInv, InsightsSoFar, DueFits, Due
      <4>. QED  BY <4>1, <1>10, <1>13 DEF Due
    <3>5. figures'["day"] \subseteq DOMAIN table
      BY <3>4, <1>2, <1>14 DEF ReportTypeOK
    <3>. QED  BY <2>1, <3>3, <3>4, <3>5, <1>10, <1>13 DEF WeekSoFar
  <2>2. CASE a.name # "week"
    <3>1. "week" \in DOMAIN figures => a.name # "day"
      BY <1>13, <1>21 DEF ReportIInv, WeekSoFar
    <3>. QED
      BY <2>2, <3>1, <1>10, <1>13, <1>21 DEF ReportIInv, WeekSoFar
  <2>. QED  BY <2>1, <2>2
<1>. QED
  BY <1>14, <1>16, <1>18, <1>19, <1>20, <1>21 DEF ReportIInv

LEMMA ReportStep == ReportIInv /\ [ReportNext]_reportVars => ReportIInv'
<1> SUFFICES ASSUME ReportIInv, [ReportNext]_reportVars PROVE ReportIInv'
  OBVIOUS
<1>1. CASE UNCHANGED reportVars
  <2>1. TableTypeOK' /\ UNCHANGED <<table, report, queries, start, figures>>
    BY <1>1 DEF reportVars, ReportIInv, ReportTypeOK, TableTypeOK
  <2>. QED  BY <2>1, TableGrows
<1>2. ASSUME NEW name \in WindowedReports, NEW h \in {AllTime, Day},
             Ask(name, h)
      PROVE  ReportIInv'
  <2>1. h \in Nat  BY BoundsAreNaturals
  <2>. QED  BY <1>2, <2>1, AskStep
<1>3. ASSUME NEW name \in FixedReports, Ask(name, AllTime)
      PROVE  ReportIInv'
  BY <1>3, AskStep
<1>. QED
  BY <1>1, <1>2, <1>3, QueryStep, RowLoggedStep, ReportElapseStep DEF ReportNext

(* The inductive invariant of the reports.                                  *)
THEOREM ReportInductive == ReportSpec => []ReportIInv
<1>. QED  BY ReportInitHolds, ReportStep, PTL DEF ReportSpec

(* The reports keep their types.                                            *)
THEOREM ReportTypeCorrect == ReportSpec => []ReportTypeOK
<1>1. ReportIInv => ReportTypeOK  BY DEF ReportIInv
<1>. QED  BY <1>1, ReportInductive, PTL

LEMMA MostFit ==
  ReportIInv /\ queries = <<>> /\ report # NoReport =>
    SharesFit /\ SeveritiesFit /\ InsightsFit /\ (Horizon <= Week => WeekFits)
<1> SUFFICES ASSUME ReportIInv, queries = <<>>, report # NoReport
             PROVE  SharesFit /\ SeveritiesFit /\ InsightsFit
                    /\ (Horizon <= Week => WeekFits)
  OBVIOUS
<1>1. SharesFit
  BY DEF ReportIInv, SharesSoFar, SharesFit, Has, WholeIsNext
<1>2. SeveritiesFit
  <2>1. CountReport(AllTime) # <<>>  BY DEF CountReport
  <2>2. Tail(CountReport(AllTime)) # <<>>  BY DEF CountReport
  <2>3. Tail(Tail(CountReport(AllTime))) # <<>>  BY DEF CountReport
  <2>. QED
    BY <2>1, <2>2, <2>3 DEF ReportIInv, SeveritiesSoFar, SeveritiesFit
<1>3. InsightsFit
  <2>1. Due = DOMAIN figures  BY NothingNamed DEF Due
  <2>. QED  BY <2>1 DEF ReportIInv, InsightsSoFar, InsightsFit, Has
<1>4. Horizon <= Week => WeekFits
  BY DEF ReportIInv, WeekSoFar, WeekFits, Has
<1>. QED  BY <1>1, <1>2, <1>3, <1>4

(* The shares, the severities and the insights of a report fit together     *)
(* however long its queries take (analytics.py, defect_store.py).           *)
THEOREM MostFiguresFit ==
  ReportSpec => [](queries = <<>> /\ report # NoReport =>
                     SharesFit /\ SeveritiesFit /\ InsightsFit)
<1>1. ReportIInv => (queries = <<>> /\ report # NoReport =>
                       SharesFit /\ SeveritiesFit /\ InsightsFit)
  BY MostFit
<1>. QED  BY <1>1, ReportInductive, PTL

(* All figures fit together as long as the clock does not outrun the week:  *)
(* a report whose queries take longer may lose rows of its day again.       *)
THEOREM FiguresFitTogether ==
  ASSUME Horizon <= Week
  PROVE  ReportSpec => []FiguresFit
<1>1. ReportIInv => FiguresFit  BY MostFit DEF FiguresFit
<1>. QED  BY <1>1, ReportInductive, PTL

(***************************************************************************)
(* The parts together                                                      *)
(***************************************************************************)
(* Rows that one part logs, and the passing of time, are a step of the      *)
(* other part that shares the table; everything else leaves it alone.       *)
LEMMA PartsStep ==
  ASSUME [MCNext]_<<allVars, part>>
  PROVE  [EvidenceNext]_evidenceVars /\ [LogNext]_logVars /\ [DedupNext]_dedupVars
<1>0. UNCHANGED <<tableVars, restOfLog>> => UNCHANGED logVars
  BY DEF tableVars, restOfLog, logVars, inspection
<1>1. CASE MCImages \/ MCDedup
  BY <1>0, <1>1 DEF MCImages, MCDedup
<1>2. CASE MCLog
  BY <1>2 DEF MCLog
<1>3. CASE MCReports
  <2>1. ReportNext /\ UNCHANGED <<cache, inspection, spoiled, failures>>
        /\ UNCHANGED evidenceVars /\ UNCHANGED dedupVars
    BY <1>3 DEF MCReports, restOfLog
  <2>2. CASE RowLogged
    BY <2>1, <2>2 DEF RowLogged, LogNext, LogByHand
  <2>3. CASE ReportElapse
    BY <2>1, <2>3 DEF ReportElapse, LogNext, LogElapse
  <2>4. CASE UNCHANGED <<table, clock>>
    BY <2>1, <2>4 DEF logVars, inspection
  <2>5. \/ RowLogged \/ ReportElapse \/ UNCHANGED <<table, clock>>
    BY <2>1 DEF ReportNext, Ask, Query
  <2>. QED  BY <2>1, <2>2, <2>3, <2>4, <2>5
<1>4. CASE UNCHANGED <<allVars, part>>
  BY <1>0, <1>4 DEF allVars
<1>. QED  BY <1>1, <1>2, <1>3, <1>4 DEF MCNext

LEMMA ReportsSeeRows ==
  ASSUME LogIInv, [MCNext]_<<allVars, part>>
  PROVE  [ReportNext]_reportVars
<1>0. UNCHANGED <<tableVars, restOfReports>> => UNCHANGED reportVars
  BY DEF tableVars, restOfReports, reportVars
<1>1. CASE MCImages \/ MCDedup \/ MCReports
  BY <1>0, <1>1 DEF MCImages, MCDedup, MCReports
<1>2. CASE MCLog
  <2>1. LogNext /\ UNCHANGED <<report, queries, start, figures>>
    BY <1>2 DEF MCLog, restOfReports
  <2>2. ASSUME NEW t \in Loggers, Insert(t)
        PROVE  \E f \in Findings : Record(f)
    <3>1. finding[t] \in Findings  BY <2>2 DEF Insert, LogIInv, Working
    <3>. QED  BY <2>2, <3>1 DEF Insert
  <2>3. \/ UNCHANGED <<table, clock>> \/ Elapse \/ \E f \in Findings : Record(f)
    BY <2>1, <2>2
       DEF LogNext, Inspect, IterationBreaks, Purge, Purged, Skip, Unseen,
           Mark, MarkInVain, InsertFails, LogByHand, LogElapse
  <2>. QED
    BY <2>1, <2>3 DEF ReportNext, RowLogged, ReportElapse, reportVars
<1>3. CASE UNCHANGED <<allVars, part>>
  BY <1>0, <1>3 DEF allVars
<1>. QED  BY <1>1, <1>2, <1>3 DEF MCNext

(* A behaviour of the parts together is one of each part: what is proved of *)
(* a part holds of them together.                                           *)
THEOREM PartsKeepTheirPromise ==
  MCSpec => EvidenceSpec /\ LogSpec /\ ReportSpec /\ DedupSpec
<1>1. MCInit => EvidenceInit /\ LogInit /\ ReportInit /\ DedupInit
  BY DEF MCInit
<1>2. [MCNext]_<<allVars, part>> =>
        [EvidenceNext]_evidenceVars /\ [LogNext]_logVars /\ [DedupNext]_dedupVars
  BY PartsStep
<1>3. LogIInv /\ [MCNext]_<<allVars, part>> => [ReportNext]_reportVars
  BY ReportsSeeRows
<1>4. MCSpec => EvidenceSpec /\ LogSpec /\ DedupSpec
  BY <1>1, <1>2, PTL DEF MCSpec, EvidenceSpec, LogSpec, DedupSpec
<1>5. MCSpec => []LogIInv
  BY <1>4, LogInductive, PTL
<1>6. MCSpec => ReportSpec
  BY <1>1, <1>3, <1>5, PTL DEF MCSpec, ReportSpec
<1>. QED  BY <1>4, <1>6

(* Whichever part moves, every variable of the four keeps its type.         *)
THEOREM RecordsTypeCorrect == MCSpec => []MCTypeOK
<1>1. EvidenceTypeOK /\ LogTypeOK /\ ReportTypeOK /\ DedupTypeOK => MCTypeOK
  BY DEF MCTypeOK
<1>. QED
  BY <1>1, PartsKeepTheirPromise, EvidenceTypeCorrect, LogTypeCorrect,
     ReportTypeCorrect, DedupTypeCorrect, PTL

=============================================================================
