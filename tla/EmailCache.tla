----------------------------- MODULE EmailCache -----------------------------
(***************************************************************************)
(* The cached list of active users' addresses                              *)
(* (UserRepository in src/app/database/repositories.py): a reader that     *)
(* misses the cache reads the clock, then the table, then stores what it   *)
(* read under the time it began; the user pages write the table and then   *)
(* empty the cache.  Each of these is a step of its own.                   *)
(***************************************************************************)
EXTENDS Integers

CONSTANTS Users, Readers,
          TTL,        \* _email_cache_ttl
          MaxTime     \* bound on the clock

ASSUME EmailAssumption == TTL \in Nat \ {0} /\ MaxTime \in Nat

VARIABLES
  time,
  activeUsers,     \* users whose row has active = 1
  left,       \* per user: when it was last deactivated, -1 if never
  emails,     \* _email_cache
  emailsAt,   \* _email_cache_time
  dirty,      \* a write to the table is not yet followed by its invalidation
  reader,     \* per reader: what it is doing
  began,      \* per reader: now
  result      \* per reader: the addresses it read or returns

emailVars == <<time, activeUsers, left, emails, emailsAt, dirty, reader, began,
               result>>

EmailTypeOK ==
  /\ time \in 0..MaxTime
  /\ activeUsers \subseteq Users /\ left \in [Users -> -1..MaxTime]
  /\ emails \subseteq Users /\ emailsAt \in 0..MaxTime
  /\ dirty \in BOOLEAN
  /\ reader \in [Readers -> {"idle", "check", "query", "store", "returned"}]
  /\ began \in [Readers -> 0..MaxTime]
  /\ result \in [Readers -> SUBSET Users]

EmailInit ==
  /\ time = 0 /\ activeUsers \in SUBSET Users /\ left = [u \in Users |-> -1]
  /\ emails = {} /\ emailsAt = 0 /\ dirty = FALSE
  /\ reader = [r \in Readers |-> "idle"]
  /\ began = [r \in Readers |-> 0]
  /\ result = [r \in Readers |-> {}]

Proceed(r, from, to) ==
  reader[r] = from /\ reader' = [reader EXCEPT ![r] = to]

TimePasses ==
  /\ time < MaxTime /\ time' = time + 1
  /\ UNCHANGED <<activeUsers, left, emails, emailsAt, dirty, reader, began,
                 result>>

\* now = time.time()
ReadClock(r) ==
  /\ Proceed(r, "idle", "check")
  /\ began' = [began EXCEPT ![r] = time]
  /\ UNCHANGED <<time, activeUsers, left, emails, emailsAt, dirty, result>>

\* Under _cache_lock: an empty list is never served from the cache.
Hit(r) == emails # {} /\ began[r] - emailsAt < TTL

CheckCache(r) ==
  /\ Proceed(r, "check", IF Hit(r) THEN "returned" ELSE "query")
  /\ result' = [result EXCEPT ![r] = IF Hit(r) THEN emails ELSE {}]
  /\ UNCHANGED <<time, activeUsers, left, emails, emailsAt, dirty, began>>

Query(r) ==
  /\ Proceed(r, "query", "store")
  /\ result' = [result EXCEPT ![r] = activeUsers]
  /\ UNCHANGED <<time, activeUsers, left, emails, emailsAt, dirty, began>>

\* Mutant: the list is stored under the time of the store.
Store_late(r) ==
  /\ Proceed(r, "store", "returned")
  /\ emails' = result[r] /\ emailsAt' = time
  /\ UNCHANGED <<time, activeUsers, left, dirty, began, result>>

Store(r) ==
  /\ Proceed(r, "store", "returned")
  /\ emails' = result[r] /\ emailsAt' = began[r]
  /\ UNCHANGED <<time, activeUsers, left, dirty, began, result>>

\* The caller has used the list.
Used(r) ==
  /\ Proceed(r, "returned", "idle")
  /\ began' = [began EXCEPT ![r] = 0]
  /\ result' = [result EXCEPT ![r] = {}]
  /\ UNCHANGED <<time, activeUsers, left, emails, emailsAt, dirty>>

\* UserRepository.create, and the commit of update.
Activate(u) ==
  /\ ~dirty /\ u \notin activeUsers
  /\ activeUsers' = activeUsers \union {u}
  /\ dirty' = TRUE
  /\ UNCHANGED <<time, left, emails, emailsAt, reader, began, result>>

\* UserRepository.deactivate, up to its commit.
Deactivate(u) ==
  /\ ~dirty /\ u \in activeUsers
  /\ activeUsers' = activeUsers \ {u}
  /\ left' = [left EXCEPT ![u] = time]
  /\ dirty' = TRUE
  /\ UNCHANGED <<time, emails, emailsAt, reader, began, result>>

\* _invalidate_email_cache
Invalidate ==
  /\ dirty /\ dirty' = FALSE
  /\ emails' = {} /\ emailsAt' = 0
  /\ UNCHANGED <<time, activeUsers, left, reader, began, result>>

EmailNext ==
  \/ TimePasses \/ Invalidate
  \/ \E u \in Users : Activate(u) \/ Deactivate(u)
  \/ \E r \in Readers :
       ReadClock(r) \/ CheckCache(r) \/ Query(r) \/ Store(r) \/ Used(r)

EmailSpec == EmailInit /\ [][EmailNext]_emailVars

-----------------------------------------------------------------------------
\* An address list never names a user who was deactivated TTL or longer before
\* the call began, although a slow reader may store its list after the
\* invalidation that should have emptied the cache (get_active_emails,
\* deactivate).
StaleAtMostTTL ==
  \A r \in Readers : reader[r] = "returned" =>
    \A u \in result[r] \ activeUsers : left[u] > began[r] - TTL

=============================================================================
