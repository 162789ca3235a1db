----------------------------- MODULE MCRecords ------------------------------
(* What is kept of inspections, explored one part at a time: images and the *)
(* rows that name them, the defects an inspection logs, the reports on      *)
(* them, and the removal of similar frames.                                 *)
EXTENDS EvidenceStore, DefectLog, DefectReports, FrameDedup, TLC

VARIABLE part

restOfLog == <<cache, inspection, spoiled, failures>>
restOfReports == <<report, queries, start, figures>>

MCInit ==
  /\ EvidenceInit /\ LogInit /\ ReportInit /\ DedupInit
  /\ part \in {"images", "log", "reports", "dedup"}
  /\ days = 0 \/ part = "images"
  /\ part = "dedup" \/ \A i \in Stored : ~ similar[i] /\ score[i] = 0

MCImages ==
  /\ part = "images" /\ EvidenceNext
  /\ UNCHANGED <<tableVars, restOfLog, restOfReports, dedupVars, part>>

MCLog ==
  /\ part = "log" /\ LogNext
  /\ UNCHANGED <<evidenceVars, restOfReports, dedupVars, part>>

MCReports ==
  /\ part = "reports" /\ ReportNext
  /\ UNCHANGED <<evidenceVars, restOfLog, dedupVars, part>>

MCDedup ==
  /\ part = "dedup" /\ DedupNext
  /\ UNCHANGED <<evidenceVars, tableVars, restOfLog, restOfReports, part>>

MCNext == MCImages \/ MCLog \/ MCReports \/ MCDedup

allVars == <<evidenceVars, tableVars, restOfLog, restOfReports, dedupVars>>

MCSpec == MCInit /\ [][MCNext]_<<allVars, part>>

(* Images are alike, and so are the threads that inspect.                   *)
MCSymmetry ==
  Permutations(Frames) \union Permutations(Logs) \union Permutations(Loggers)

MCTypeOK == EvidenceTypeOK /\ LogTypeOK /\ ReportTypeOK /\ DedupTypeOK
=============================================================================
