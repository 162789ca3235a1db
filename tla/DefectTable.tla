----------------------------- MODULE DefectTable -----------------------------
(* The table pcb_defects and the queries asked of it (PCBDefectRepository   *)
(* and services/domains/pcb/defect_store.py).  Rows are only ever added; a  *)
(* row carries the second it was written in and the finding it records.     *)
(*                                                                          *)
(* A query's answer is the set of rows it counts or returns.  Grouping and  *)
(* averaging rows further is left out.                                      *)
EXTENDS Naturals, Sequences, FiniteSets

CONSTANTS
  Findings,         \* what an inspection can find: the fingerprint of a finding
  Severe,           \* the findings of severity "high"
  MaxDefects,       \* bound: rows in the table
  Horizon,          \* bound: seconds on the clock
  Hour, Day, Week,  \* windows reports look through, in clock ticks
  ListLimit         \* rows a report lists: 200 in the code

ASSUME TableAssumption ==
  /\ Severe \subseteq Findings
  /\ {Hour, Day, Week, ListLimit} \subseteq Nat \ {0}
  /\ {MaxDefects, Horizon} \subseteq Nat

VARIABLES
  table,   \* the table, oldest row first
  clock    \* the clock: CURRENT_TIMESTAMP, time.monotonic and _utcnow

tableVars == <<table, clock>>

TableTypeOK ==
  /\ table \in Seq([finding : Findings, time : 0 .. Horizon])
  /\ Len(table) <= MaxDefects
  /\ clock \in 0 .. Horizon

TableInit == table = <<>> /\ clock = 0

(* record_defect: one INSERT, committed.                                    *)
Record(f) ==
  /\ Len(table) < MaxDefects
  /\ table' = Append(table, [finding |-> f, time |-> clock])
  /\ UNCHANGED clock

Elapse ==
  /\ clock < Horizon
  /\ clock' = clock + 1
  /\ UNCHANGED table

-----------------------------------------------------------------------------
(* Queries.  A window of 0 hours is no window: `if hours`.                  *)
AllTime == 0

Start(hours) == IF hours = AllTime \/ hours > clock THEN 0 ELSE clock - hours

Since(start) == {i \in DOMAIN table : table[i].time >= start}

(* count_defects, and the rows grouped by type, by board or by bucket.      *)
Count(start, of) == {i \in Since(start) : table[i].finding \in of}

(* ORDER BY timestamp DESC LIMIT n: which of the rows of one second come    *)
(* first is SQLite's choice.                                                *)
Newest(from, n) ==
  {S \in SUBSET from :
     /\ Cardinality(S) = IF Cardinality(from) < n THEN Cardinality(from) ELSE n
     /\ \A i \in S, j \in from \ S : table[i].time >= table[j].time}

(* get_most_severe_defect: severity first, then the confidence of the       *)
(* model, which may favour any row of that severity.                        *)
MostSevere(start) ==
  LET high == Count(start, Severe)
      from == IF high # {} THEN high ELSE Since(start)
  IN  IF from = {} THEN {{}} ELSE {{i} : i \in from}
=============================================================================
