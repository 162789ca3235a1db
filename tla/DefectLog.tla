------------------------------ MODULE DefectLog ------------------------------
(* The automatic log of an inspection's defects (_auto_log_defect in        *)
(* agents/tools/pcb/_helpers.py).  Tools run it on the executor's pool      *)
(* threads, and what keeps one finding from being logged every few seconds  *)
(* is a dictionary of fingerprints that no lock protects.                   *)
EXTENDS DefectTable

CONSTANTS
  Loggers,      \* threads that inspect
  TTL,          \* _DEDUP_TTL_SECONDS
  MaxFailures,  \* bound: inserts that fail
  NoFinding

ASSUME LogAssumption ==
  {TTL, MaxFailures} \subseteq Nat /\ NoFinding \notin Findings

VARIABLES
  cache,     \* _DEFECT_FINGERPRINT_CACHE: fingerprint to time, or Unmarked
  step,      \* where each inspection is
  finding,   \* what it found
  stamp,     \* its _now
  stale,     \* fingerprints it has still to delete
  todo,      \* items of its list still to insert
  spoiled,   \* fingerprints kept in vain, an insert having failed or the list
             \* having held nothing to insert, since the last row logged here
  failures

inspection == <<step, finding, stamp, stale, todo>>
logVars == <<table, clock, cache, step, finding, stamp, stale, todo, spoiled,
             failures>>

Unmarked == Horizon + 1
Steps == {"idle", "purge", "check", "mark", "insert"}

LogTypeOK ==
  /\ TableTypeOK
  /\ cache \in [Findings -> 0 .. Horizon \cup {Unmarked}]
  /\ step \in [Loggers -> Steps]
  /\ finding \in [Loggers -> Findings \cup {NoFinding}]
  /\ stamp \in [Loggers -> 0 .. Horizon]
  /\ stale \in [Loggers -> SUBSET Findings]
  /\ todo \in [Loggers -> 0 .. 2]
  /\ spoiled \subseteq Findings
  /\ failures \in 0 .. MaxFailures

LogInit ==
  /\ TableInit
  /\ cache = [f \in Findings |-> Unmarked]
  /\ step = [t \in Loggers |-> "idle"]
  /\ finding = [t \in Loggers |-> NoFinding]
  /\ stamp = [t \in Loggers |-> 0]
  /\ stale = [t \in Loggers |-> {}]
  /\ todo = [t \in Loggers |-> 0]
  /\ spoiled = {}
  /\ failures = 0

(* An inspection that returned or raised is over; its variables go back to  *)
(* their defaults.                                                          *)
Leave(t) ==
  /\ step' = [step EXCEPT ![t] = "idle"]
  /\ finding' = [finding EXCEPT ![t] = NoFinding]
  /\ stamp' = [stamp EXCEPT ![t] = 0]
  /\ stale' = [stale EXCEPT ![t] = {}]
  /\ todo' = [todo EXCEPT ![t] = 0]

\* Mutant: nothing is ever too old.
Lapsed_never(t) == {}

(* Fingerprints more than the time to live behind this inspection's clock.  *)
Lapsed(t) ==
  {f \in Findings : cache[f] # Unmarked /\ clock > cache[f] + TTL}

(* An inspection found something.                                           *)
Inspect(t, f) ==
  /\ step[t] = "idle"
  /\ step' = [step EXCEPT ![t] = "purge"]
  /\ finding' = [finding EXCEPT ![t] = f]
  /\ stamp' = [stamp EXCEPT ![t] = clock]
  /\ stale' = [stale EXCEPT ![t] = Lapsed(t)]
  /\ UNCHANGED <<table, clock, cache, todo, spoiled, failures>>

(* The dictionary grew or shrank under the comprehension of another thread, *)
(* whose iteration raises: the inspection's tool fails.                     *)
IterationBreaks(t) ==
  /\ step[t] = "purge"
  /\ \E u \in Loggers \ {t} : step[u] \in {"purge", "mark", "insert"}
  /\ Leave(t)
  /\ UNCHANGED <<table, clock, cache, spoiled, failures>>

Purge(t, f) ==
  /\ step[t] = "purge" /\ f \in stale[t]
  /\ \/ /\ cache[f] # Unmarked
        /\ cache' = [cache EXCEPT ![f] = Unmarked]
        /\ stale' = [stale EXCEPT ![t] = @ \ {f}]
        /\ UNCHANGED <<step, finding, stamp, todo>>
     \/ \* KeyError: another inspection deleted it first
        /\ cache[f] = Unmarked
        /\ Leave(t)
        /\ UNCHANGED cache
  /\ UNCHANGED <<table, clock, spoiled, failures>>

Purged(t) ==
  /\ step[t] = "purge" /\ stale[t] = {}
  /\ step' = [step EXCEPT ![t] = "check"]
  /\ UNCHANGED <<table, clock, cache, finding, stamp, stale, todo, spoiled,
                 failures>>

(* if fp in _DEFECT_FINGERPRINT_CACHE: return                               *)
Skip(t) ==
  /\ step[t] = "check" /\ cache[finding[t]] # Unmarked
  /\ Leave(t)
  /\ UNCHANGED <<table, clock, cache, spoiled, failures>>

Unseen(t) ==
  /\ step[t] = "check" /\ cache[finding[t]] = Unmarked
  /\ step' = [step EXCEPT ![t] = "mark"]
  /\ UNCHANGED <<table, clock, cache, finding, stamp, stale, todo, spoiled,
                 failures>>

(* The fingerprint is kept before anything is inserted.  It stands for the  *)
(* n items of the model's list, or for the finding where there is no list.  *)
Mark(t, n) ==
  /\ step[t] = "mark"
  /\ cache' = [cache EXCEPT ![finding[t]] = stamp[t]]
  /\ step' = [step EXCEPT ![t] = "insert"]
  /\ todo' = [todo EXCEPT ![t] = n]
  /\ UNCHANGED <<table, clock, finding, stamp, stale, spoiled, failures>>

(* Items that are not dicts are skipped: there may be none to insert.       *)
MarkInVain(t) ==
  /\ step[t] = "mark"
  /\ cache' = [cache EXCEPT ![finding[t]] = stamp[t]]
  /\ spoiled' = spoiled \cup {finding[t]}
  /\ Leave(t)
  /\ UNCHANGED <<table, clock, failures>>

(* The loop ends with the list, or with an item whose severity is None,     *)
(* which raises past the try.  Such an item comes after one that was        *)
(* inserted: without a severe item before it, the same call has raised      *)
(* before the fingerprint was looked up.                                    *)
Inserted(t) ==
  IF todo[t] = 1
  THEN Leave(t)
  ELSE /\ todo' = [todo EXCEPT ![t] = @ - 1]
       /\ UNCHANGED <<step, finding, stamp, stale>>

Insert(t) ==
  /\ step[t] = "insert"
  /\ Record(finding[t])
  /\ spoiled' = spoiled \ {finding[t]}
  /\ Inserted(t)
  /\ UNCHANGED <<cache, failures>>

(* record_defect swallows its exception and returns success False, which    *)
(* the loop does not look at.                                               *)
InsertFails(t) ==
  /\ step[t] = "insert"
  /\ failures < MaxFailures
  /\ failures' = failures + 1
  /\ spoiled' = spoiled \cup {finding[t]}
  /\ Inserted(t)
  /\ UNCHANGED <<table, clock, cache>>

(* tool_log_defect: the model logs a defect itself, past the fingerprints.  *)
LogByHand(f) ==
  /\ Record(f)
  /\ UNCHANGED <<cache, inspection, spoiled, failures>>

LogElapse == Elapse /\ UNCHANGED <<cache, inspection, spoiled, failures>>

LogNext ==
  \/ \E t \in Loggers :
       \/ \E f \in Findings : Inspect(t, f) \/ Purge(t, f)
       \/ IterationBreaks(t) \/ Purged(t) \/ Skip(t) \/ Unseen(t)
       \/ \E n \in 1 .. 2 : Mark(t, n)
       \/ MarkInVain(t) \/ Insert(t) \/ InsertFails(t)
  \/ \E f \in Findings : LogByHand(f)
  \/ LogElapse

LogSpec == LogInit /\ [][LogNext]_logVars

-----------------------------------------------------------------------------
Fresh(t) ==
  \E i \in DOMAIN table :
    table[i].finding = finding[t] /\ stamp[t] <= table[i].time + TTL

BeingLogged(t) ==
  \E u \in Loggers \ {t} : step[u] = "insert" /\ finding[u] = finding[t]

(* A finding is dropped only for one already on record: a row of it that is *)
(* no older than the time to live, or one another inspection is about to    *)
(* write.  The exception is a finding that was marked in vain since this    *)
(* log wrote its last row: an insert failed, or the list held nothing to    *)
(* insert (_helpers.py lines 204 to 233).                                   *)
SkipsAreJustified ==
  [][\A t \in Loggers :
       Skip(t) => Fresh(t) \/ BeingLogged(t) \/ finding[t] \in spoiled]_logVars

=============================================================================
