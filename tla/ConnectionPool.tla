--------------------------- MODULE ConnectionPool ---------------------------
(***************************************************************************)
(* The pool of SQLite connections (src/app/database/connection.py) and the *)
(* transactions that travel with a connection.                             *)
(*                                                                         *)
(* A borrower initializes the pool if nobody has, takes a connection or    *)
(* after ten seconds opens a temporary one, executes a statement, commits, *)
(* and gives the connection back.  Nothing in the code rolls back: a       *)
(* statement or a commit that raises leaves the transaction Python opened  *)
(* for it, and with it SQLite's write lock, on the connection that is      *)
(* given back.  Whoever writes on that connection next commits what the    *)
(* transaction still holds together with its own write.                    *)
(***************************************************************************)
EXTENDS Naturals, Sequences, SequencesExt, FiniteSets

CONSTANTS Clients,      \* threads that use the database
          Conns,        \* identities of connections
          PoolSize,     \* pool_size
          MaxOpenErrors,\* bound: how often filling the pool fails
          NoClient, NoConn

ASSUME PoolAssumption ==
  /\ IsFiniteSet(Clients) /\ IsFiniteSet(Conns)
  /\ PoolSize \in Nat \ {0} /\ MaxOpenErrors \in Nat
  /\ Cardinality(Conns) >= 2 * PoolSize + Cardinality(Clients)
  /\ NoClient \notin Clients /\ NoConn \notin Conns

VARIABLES
  pool,         \* Queue(maxsize=PoolSize)
  initialized,  \* _initialized
  lock,         \* holder of _lock
  created,      \* connections the holder of _lock has put so far
  opened,       \* open SQLite connections
  writer,       \* connection whose transaction has the write lock
  pc, conn,     \* per client: place in get_connection, connection in use
  temporary,    \* clients whose connection is not the pool's
  writes,       \* per client: the body writes (and does not only read)
  answer,       \* per client: how the last with-block ended
  uncommitted,  \* clients whose last write is in the writer's transaction
  committer,    \* per client: whose commit put its last write in the file
  openErrors

ledger == <<uncommitted, committer>>
vars == <<pool, initialized, lock, created, opened, writer, pc, conn,
          temporary, writes, answer, ledger, openErrors>>

Pooled == Range(pool)
InUse == {conn[c] : c \in Clients} \ {NoConn}
Fresh == CHOOSE x \in Conns : x \notin opened

TypeOK ==
  /\ pool \in BoundedSeq(Conns, PoolSize)
  /\ initialized \in BOOLEAN
  /\ lock \in Clients \union {NoClient}
  /\ created \in 0..PoolSize
  /\ opened \subseteq Conns
  /\ writer \in opened \union {NoConn}
  /\ pc \in [Clients -> {"idle", "init", "filling", "getting", "body",
                         "written", "leaving"}]
  /\ conn \in [Clients -> opened \union {NoConn}]
  /\ temporary \subseteq Clients
  /\ writes \in [Clients -> BOOLEAN]
  /\ answer \in [Clients -> {"none", "ok", "error"}]
  /\ uncommitted \subseteq Clients
  /\ committer \in [Clients -> Clients \union {NoClient}]
  /\ openErrors \in 0..MaxOpenErrors

Init ==
  /\ pool = <<>> /\ initialized = FALSE
  /\ lock = NoClient /\ created = 0
  /\ opened = {} /\ writer = NoConn
  /\ pc = [c \in Clients |-> "idle"]
  /\ conn = [c \in Clients |-> NoConn] /\ temporary = {}
  /\ writes = [c \in Clients |-> FALSE]
  /\ answer = [c \in Clients |-> "none"]
  /\ uncommitted = {} /\ committer = [c \in Clients |-> NoClient]
  /\ openErrors = 0

Goto(c, from, to) == pc[c] = from /\ pc' = [pc EXCEPT ![c] = to]
Answer(c, a) == answer' = [answer EXCEPT ![c] = a]

(***************************************************************************)
(* Initializing the pool                                                   *)
(***************************************************************************)

\* with get_db_connection(): the first, unlocked test of _initialized.
Enter(c) ==
  /\ Goto(c, "idle", IF initialized THEN "getting" ELSE "init")
  /\ \E w \in BOOLEAN : writes' = [writes EXCEPT ![c] = w]
  /\ Answer(c, "none")
  /\ committer' = [committer EXCEPT ![c] = NoClient]
  /\ uncommitted' = uncommitted \ {c}
  /\ UNCHANGED <<pool, initialized, lock, created, opened, writer, conn,
                 openErrors, temporary>>

\* _lock is free; the second test of _initialized under it.
Lock(c) ==
  /\ lock = NoClient
  /\ IF initialized
       THEN Goto(c, "init", "getting") /\ UNCHANGED <<lock, created>>
       ELSE Goto(c, "init", "filling") /\ lock' = c /\ created' = 0
  /\ UNCHANGED <<pool, initialized, opened, writer, conn, temporary, writes,
                 answer, ledger, openErrors>>

\* One turn of the loop: connect, and a put that waits while the queue is full.
Fill(c) ==
  /\ pc[c] = "filling" /\ created < PoolSize
  /\ Len(pool) < PoolSize
  /\ pool' = Append(pool, Fresh)
  /\ opened' = opened \union {Fresh}
  /\ created' = created + 1
  /\ UNCHANGED <<initialized, lock, writer, pc, conn, temporary, writes,
                 answer, ledger, openErrors>>

\* connect or a PRAGMA raises: the lock is released, the part stays queued.
FillFails(c) ==
  /\ Goto(c, "filling", "idle") /\ created < PoolSize
  /\ openErrors < MaxOpenErrors
  /\ openErrors' = openErrors + 1
  /\ lock' = NoClient
  /\ Answer(c, "error")
  /\ UNCHANGED <<pool, initialized, created, opened, writer, conn, temporary,
                 writes, ledger>>

Filled(c) ==
  /\ Goto(c, "filling", "getting") /\ created = PoolSize
  /\ initialized' = TRUE
  /\ lock' = NoClient
  /\ UNCHANGED <<pool, created, opened, writer, conn, temporary, writes,
                 answer, ledger, openErrors>>

(***************************************************************************)
(* Borrowing, using and giving back                                        *)
(***************************************************************************)

Get(c) ==
  /\ Goto(c, "getting", "body") /\ pool # <<>>
  /\ conn' = [conn EXCEPT ![c] = Head(pool)]
  /\ pool' = Tail(pool)
  /\ UNCHANGED <<initialized, lock, created, opened, writer, temporary,
                 writes, answer, ledger, openErrors>>

\* Mutant: pool.get() without a timeout.
Expires_never(c) == FALSE

\* pool.get(timeout=10.0) raises Empty, unless a connection comes back before.
Expires(c) == pool = <<>>

\* A temporary connection.
GetTimesOut(c) ==
  /\ Goto(c, "getting", "body") /\ Expires(c)
  /\ conn' = [conn EXCEPT ![c] = Fresh]
  /\ opened' = opened \union {Fresh}
  /\ temporary' = temporary \union {c}
  /\ UNCHANGED <<pool, initialized, lock, created, writer, writes, answer,
                 ledger, openErrors>>

\* Opening the temporary connection or its PRAGMA raises; what was opened is
\* closed with the object that nobody refers to.
TemporaryFails(c) ==
  /\ Goto(c, "getting", "idle") /\ Expires(c)
  /\ Answer(c, "error")
  /\ UNCHANGED <<pool, initialized, lock, created, opened, writer, conn,
                 temporary, writes, ledger, openErrors>>

Read(c) ==
  /\ ~writes[c] /\ Goto(c, "body", "leaving")
  /\ Answer(c, "ok")
  /\ UNCHANGED <<pool, initialized, lock, created, opened, writer, conn,
                 temporary, writes, ledger, openErrors>>

\* SQLite admits one writer: the connection's own transaction or nobody's.
MayWrite(c) == writer \in {NoConn, conn[c]}

Execute(c) ==
  /\ writes[c] /\ MayWrite(c) /\ Goto(c, "body", "written")
  /\ writer' = conn[c]
  /\ uncommitted' = uncommitted \union {c}
  /\ UNCHANGED <<pool, initialized, lock, created, opened, conn, temporary,
                 writes, answer, committer, openErrors>>

\* A UNIQUE constraint: the statement raises, the transaction stays open.
ConstraintFails(c) ==
  /\ writes[c] /\ MayWrite(c) /\ Goto(c, "body", "leaving")
  /\ writer' = conn[c]
  /\ Answer(c, "error")
  /\ UNCHANGED <<pool, initialized, lock, created, opened, conn, temporary,
                 writes, ledger, openErrors>>

\* busy_timeout passes: "database is locked".
LockTimesOut(c) ==
  /\ writes[c] /\ ~MayWrite(c) /\ Goto(c, "body", "leaving")
  /\ Answer(c, "error")
  /\ UNCHANGED <<pool, initialized, lock, created, opened, writer, conn,
                 temporary, writes, ledger, openErrors>>

\* Mutant: a repository body without conn.commit().
Commit_forgotten(c) ==
  /\ Goto(c, "written", "leaving")
  /\ Answer(c, "ok")
  /\ UNCHANGED <<pool, initialized, lock, created, opened, writer, conn,
                 temporary, writes, ledger, openErrors>>

\* The transaction ends, with whatever earlier borrowers left in it.
Commit(c) ==
  /\ Goto(c, "written", "leaving")
  /\ committer' =
       [d \in Clients |-> IF d \in uncommitted THEN c ELSE committer[d]]
  /\ uncommitted' = {}
  /\ writer' = NoConn
  /\ Answer(c, "ok")
  /\ UNCHANGED <<pool, initialized, lock, created, opened, conn, temporary,
                 writes, openErrors>>

\* A later statement or the commit raises: the write stays in the open
\* transaction, or SQLite rolls the transaction back by itself.
CommitFails(c) ==
  /\ Goto(c, "written", "leaving")
  /\ \/ UNCHANGED <<writer, uncommitted>>
     \/ writer' = NoConn /\ uncommitted' = {}
  /\ Answer(c, "error")
  /\ UNCHANGED <<pool, initialized, lock, created, opened, conn, temporary,
                 writes, committer, openErrors>>

\* Mutant: the write lock is not released with the connection.
Close_locked(x) == opened' = opened \ {x} /\ UNCHANGED <<writer, uncommitted>>

\* close() ends the connection's transaction without committing it.
Close(x) ==
  /\ opened' = opened \ {x}
  /\ IF writer = x THEN writer' = NoConn /\ uncommitted' = {}
                   ELSE UNCHANGED <<writer, uncommitted>>

\* Mutant: a temporary connection is not closed.
PutBack_leaks(c) ==
  /\ Goto(c, "leaving", "idle")
  /\ conn' = [conn EXCEPT ![c] = NoConn]
  /\ temporary' = temporary \ {c}
  /\ pool' = IF c \in temporary THEN pool ELSE Append(pool, conn[c])
  /\ UNCHANGED <<opened, writer, initialized, lock, created, writes, answer,
                 ledger, openErrors>>

\* The finally clauses: a pooled connection goes back as it is, whatever its
\* transaction; a temporary one, and one the queue has no room for, is closed.
PutBack(c) ==
  /\ Goto(c, "leaving", "idle")
  /\ conn' = [conn EXCEPT ![c] = NoConn]
  /\ temporary' = temporary \ {c}
  /\ IF c \in temporary \/ Len(pool) = PoolSize
       THEN Close(conn[c]) /\ UNCHANGED pool
       ELSE pool' = Append(pool, conn[c]) /\ UNCHANGED <<opened, writer, uncommitted>>
  /\ UNCHANGED <<initialized, lock, created, writes, answer, committer,
                 openErrors>>

Step(c) ==
  \/ Lock(c) \/ Fill(c) \/ FillFails(c) \/ Filled(c)
  \/ Get(c) \/ GetTimesOut(c) \/ TemporaryFails(c)
  \/ Read(c) \/ Execute(c) \/ ConstraintFails(c) \/ LockTimesOut(c)
  \/ Commit(c) \/ CommitFails(c) \/ PutBack(c)

Next == \E c \in Clients : Enter(c) \/ Step(c)

\* A thread inside the with-statement runs on; nobody has to enter it.
Fairness == \A c \in Clients : WF_vars(Step(c))

Spec == Init /\ [][Next]_vars /\ Fairness

-----------------------------------------------------------------------------
(***************************************************************************)
(* Properties                                                              *)
(***************************************************************************)

\* The pool's own connections, queued or lent, are never more than its size,
\* and once it is initialized never fewer (get_connection, put_nowait).
PoolKeepsItsSize ==
  LET lent == {c \in Clients : conn[c] # NoConn} \ temporary
      own == Len(pool) + Cardinality(lent)
  IN own <= PoolSize /\ (initialized => own = PoolSize)

\* No two threads share a connection, no connection in use or closed is in
\* the queue, and every open one is in the queue or in a thread's hands, so
\* put-backs, temporary connections and failed initializations leak nothing
\* (get_connection, _initialize_pool).
Accounted ==
  /\ \A c, d \in Clients : c # d /\ conn[c] # NoConn => conn[c] # conn[d]
  /\ IsInjective(pool)
  /\ Pooled \intersect InUse = {}
  /\ Pooled \union InUse = opened
  /\ PoolKeepsItsSize

\* A with-block that returned put its own write into the database, and one
\* that raised did not, though a later block that gets its connection may.  A
\* write that is left open was never answered as done, and it keeps everybody
\* else's writes out until that block or a close
\* (the bodies of app/database/repositories.py, get_connection).
AnswersAreTrue ==
  /\ \A c \in Clients : answer[c] # "none" /\ writes[c] =>
       (answer[c] = "ok" <=> committer[c] = c)
  /\ \A c \in uncommitted :
       answer[c] # "ok" /\ committer[c] = NoClient /\ writer # NoConn

\* Unless filling the pool failed, every thread that asks for a connection is
\* answered: an empty pool, a held write lock and a transaction left open only
\* delay it (get_connection, busy_timeout).
EveryRequestAnswered ==
  [](openErrors = 0) => \A c \in Clients : pc[c] # "idle" ~> pc[c] = "idle"

=============================================================================
