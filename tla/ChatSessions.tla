---------------------------- MODULE ChatSessions ----------------------------
(***************************************************************************)
(* The chat sessions (agents/conversation/session.py) and the Socket.IO    *)
(* handlers that use them (app/websocket): sockets are bound to session    *)
(* objects, objects belong to durable client ids, idle or surplus objects  *)
(* are evicted from memory, and the transcript stays in SQLite.            *)
(*                                                                         *)
(* Several sockets may show one client: the tabs of a browser share the id *)
(* in its local storage.  Binding, removing and evicting run under the     *)
(* manager's lock.  A handler gets its object and works on it later        *)
(* without that lock.  Any query of SQLite may fail; the code goes on.     *)
(***************************************************************************)
EXTENDS Naturals, Sequences, FiniteSets

CONSTANTS
  Sockets,       \* socket ids; Socket.IO never uses one twice
  Claimed,       \* client ids browsers keep in their local storage
  Minted,        \* client ids the server can mint
  Objects,       \* ChatSession objects
  Cap,           \* max_client_sessions
  MaxMessages,   \* max_messages_in_memory
  MaxAdded,      \* bound of the model: messages ever added
  MaxFaults,     \* bound of the model: steps in which SQLite fails
  None

ASSUME ChatAssumption ==
  /\ Cap \in Nat \ {0} /\ MaxMessages \in Nat \ {0}
  /\ MaxAdded \in Nat /\ MaxFaults \in Nat
  /\ Claimed \cap Minted = {}
  /\ None \notin Sockets \cup Claimed \cup Minted \cup Objects
  /\ IsFiniteSet(Sockets) /\ IsFiniteSet(Claimed \cup Minted)

\* There is always an object to create: each socket uses at most one and each
\* client has at most one, and the socket or the client it is for has none.
ASSUME ObjectsSuffice ==
  IsFiniteSet(Objects) =>
    Cardinality(Objects) >= Cardinality(Sockets) + Cardinality(Claimed \cup Minted)

VARIABLES
  connected,   \* sockets whose connect event was handled
  sessions,    \* _sessions: socket id to object
  clients,     \* _client_sessions: client id to object
  obj,         \* ChatSession: socket_session_id, client_session_id, messages
  older,       \* pairs of registered objects, by last_active
  idle,        \* those idle for more than idle_ttl_seconds
  stored,      \* the transcripts in SQLite
  issued,      \* client ids a token was issued for
  doing,       \* what the handler of each socket does next
  held,        \* the object it works on
  added,       \* messages added so far
  faults,      \* steps in which SQLite failed so far
  unsaved,     \* history: messages whose write to SQLite failed
  beside       \* history: objects in use while another one of their client was

objVars == <<obj, older, idle, beside>>
vars ==
  <<connected, sessions, clients, objVars, stored, issued, doing, held, added,
    faults, unsaved>>

Ids  == Claimed \cup Minted
Jobs == {"none", "greet", "welcome", "user", "answer", "clear"}

Blank == [socket |-> None, client |-> None, messages |-> <<>>]

Init ==
  /\ connected = {}
  /\ sessions = [s \in Sockets |-> None]
  /\ clients  = [c \in Ids |-> None]
  /\ obj = [o \in Objects |-> Blank]
  /\ older = {}
  /\ idle = {}
  /\ stored = [c \in Ids |-> <<>>]
  /\ issued = {}
  /\ doing = [s \in Sockets |-> "none"]
  /\ held  = [s \in Sockets |-> None]
  /\ added = 0
  /\ faults = 0
  /\ unsaved = {}
  /\ beside = {}

\* The queries of a step, if it makes any, fail or do not.
Fails(broken, queries) ==
  /\ broken => queries /\ faults < MaxFaults
  /\ faults' = IF broken THEN faults + 1 ELSE faults

-----------------------------------------------------------------------------
(* Session objects *)

InUse ==
  ({sessions[s] : s \in Sockets} \cup {clients[c] : c \in Ids}
     \cup {held[s] : s \in Sockets}) \ {None}

\* The objects the client map leads to: the only ones whose last_active is read.
Listed == {clients[c] : c \in Ids} \ {None}

\* A new object; which one does not matter.
NewObject == CHOOSE o \in Objects : o \notin InUse

\* Another object of o's client is in use.
HasTwin(o, objects, used) ==
  /\ objects[o].client # None
  /\ \E p \in used \ {o} : objects[p].client = objects[o].client

\* The objects after a step; those nobody refers to any more are collected.
Collect(objects, activity, old) ==
  LET used == InUse'
  IN  /\ obj' = [o \in Objects |-> IF o \in used THEN objects[o] ELSE Blank]
      /\ older' = activity \cap (Listed' \X Listed')
      /\ idle' = old \cap Listed'
      /\ beside' = {o \in used : o \in beside \/ HasTwin(o, objects, used)}

\* ChatSession.touch.
Touched(o) == {p \in older : o # p[1] /\ o # p[2]} \cup ((Listed \ {o}) \X {o})

\* What memory keeps of a list of messages.
Latest(messages) ==
  LET n == Len(messages)
  IN  SubSeq(messages, IF n > MaxMessages THEN n - MaxMessages + 1 ELSE 1, n)

-----------------------------------------------------------------------------
(* ChatSessionManager *)

\* Mutant: an idle session counts as disconnected.
IsLive_unlessIdle(o, ss, objects) == o \notin idle /\ ss[objects[o].socket] # None

\* _is_live: the socket that bound the object last is still in the map.
IsLive(o, ss, objects) == ss[objects[o].socket] # None

Registered(cs) == {c \in Ids : cs[c] # None}

\* Mutant: the cap evicts one session less.
Surplus_short(cs) == Cardinality(Registered(cs)) - (Cap + 1)

Surplus(cs) == Cardinality(Registered(cs)) - Cap

\* _evict_locked: the idle ones, then the longest unused over the cap; never
\* one that is live.
Evicted(ss, cs, objects, activity, old) ==
  LET stays(c) == cs[c] \notin old \/ IsLive(cs[c], ss, objects)
      rest == [c \in Ids |-> IF stays(c) THEN cs[c] ELSE None]
      candidates == {o \in Objects : /\ \E c \in Ids : rest[c] = o
                                     /\ ~ IsLive(o, ss, objects)}
      earlier(o) == {p \in candidates : <<p, o>> \in activity}
      gone == {o \in candidates : Cardinality(earlier(o)) < Surplus(rest)}
  IN  [c \in Ids |-> IF rest[c] \in gone THEN None ELSE rest[c]]

\* Register object o for socket s and client c, touch it and sweep.
BindTo(s, c, o, messages) ==
  LET objects == [obj EXCEPT ![o] =
                   [socket |-> s, client |-> c, messages |-> messages]]
      old == idle \ {o}
  IN  /\ sessions' = [sessions EXCEPT ![s] = o]
      /\ clients' = Evicted(sessions', [clients EXCEPT ![c] = o], objects,
                            Touched(o), old)
      /\ held' = [held EXCEPT ![s] = o]
      /\ Collect(objects, Touched(o), old)
      /\ issued' = issued \cup {c}

\* A client id with a session or a transcript is bound only with its token;
\* a transcript that cannot be looked up counts as one.
NeedsToken(c, broken) == clients[c] # None \/ stored[c] # <<>> \/ broken

\* get_or_bind_client_session: the claimed id is bound if it is free or the
\* token is valid, else the server mints one.  A transcript that cannot be
\* read leaves the new session empty.
Bind(s, claim, valid, broken) ==
  IF NeedsToken(claim, broken) /\ ~ valid
  THEN \E c \in Minted \ issued : BindTo(s, c, NewObject, <<>>)
  ELSE IF clients[claim] # None
  THEN BindTo(s, claim, clients[claim], obj[clients[claim]].messages)
  ELSE BindTo(s, claim, NewObject, IF broken THEN <<>> ELSE Latest(stored[claim]))

\* get_session: the socket's object, or a new one without a client.
GetSession(s) ==
  LET known == sessions[s] # None
      o == IF known THEN sessions[s] ELSE NewObject
  IN  /\ sessions' = [sessions EXCEPT ![s] = o]
      /\ held' = [held EXCEPT ![s] = o]
      /\ UNCHANGED <<clients, issued>>
      /\ Collect(IF known THEN obj ELSE [obj EXCEPT ![o].socket = s],
                 Touched(o), idle \ {o})

-----------------------------------------------------------------------------
(* The handlers.  When a connection is lost, handle_disconnect writes a line *)
(* in the log and nothing else: its socket is one that asks no more.         *)

Start(s, job) == doing' = [doing EXCEPT ![s] = job]

Finish(s) ==
  /\ doing' = [doing EXCEPT ![s] = "none"]
  /\ held' = [held EXCEPT ![s] = None]

\* connect (a new socket) or chat_connect (again on a connected one): a browser
\* claims the id it made up or one it was given.
ConnectClient(s, claim, valid, broken) ==
  /\ doing[s] = "none"
  /\ claim \in Claimed \cup issued
  /\ valid => claim \in issued
  /\ connected' = connected \cup {s}
  /\ Bind(s, claim, valid, broken)
  /\ Fails(broken, clients[claim] = None)
  /\ Start(s, "greet")
  /\ UNCHANGED <<stored, added, unsaved>>

ConnectAnonymously(s) ==
  /\ doing[s] = "none"
  /\ connected' = connected \cup {s}
  /\ GetSession(s)
  /\ Start(s, "greet")
  /\ UNCHANGED <<stored, added, faults, unsaved>>

\* A session without history gets the welcome message.
ReadHistory(s) ==
  /\ doing[s] = "greet"
  /\ IF obj[held[s]].messages = <<>>
     THEN Start(s, "welcome") /\ UNCHANGED held
     ELSE Finish(s)
  /\ UNCHANGED <<sessions, clients>>
  /\ Collect(obj, older, idle)
  /\ UNCHANGED <<connected, stored, issued, added, faults, unsaved>>

\* chat_message, clear_conversation: find the session, then work on it.
HandleEvent(s, job) ==
  /\ s \in connected /\ doing[s] = "none"
  /\ GetSession(s)
  /\ Start(s, job)
  /\ UNCHANGED <<connected, stored, added, faults, unsaved>>

\* Mutant: a message that makes the list overflow is not written.
Persisted_unlessFull(o, m) ==
  IF Len(obj[o].messages) < MaxMessages
  THEN Append(stored[obj[o].client], m) ELSE stored[obj[o].client]

Persisted(o, m) == Append(stored[obj[o].client], m)

\* ChatSession.add_message: append, persist, trim, touch.  A failed write is
\* logged and the message stays in memory.  After the user's message the turn
\* adds its answer.
AddMessage(s, broken) ==
  LET o == held[s]
      c == obj[o].client
      m == added + 1
  IN  /\ doing[s] \in {"welcome", "user", "answer"}
      /\ m <= MaxAdded
      /\ added' = m
      /\ Fails(broken, c # None)
      /\ stored' = IF c = None \/ broken THEN stored
                   ELSE [stored EXCEPT ![c] = Persisted(o, m)]
      /\ unsaved' = IF broken THEN unsaved \cup {m} ELSE unsaved
      /\ IF doing[s] = "user" THEN Start(s, "answer") /\ UNCHANGED held
                              ELSE Finish(s)
      /\ UNCHANGED <<sessions, clients>>
      /\ Collect([obj EXCEPT ![o].messages = Latest(Append(@, m))],
                 Touched(o), idle \ {o})
      /\ UNCHANGED <<connected, issued>>

\* ChatSession.clear: a failed delete leaves the transcript.
Clear(s, broken) ==
  LET o == held[s]
      c == obj[o].client
  IN  /\ doing[s] = "clear"
      /\ stored' = IF c = None \/ broken THEN stored
                   ELSE [stored EXCEPT ![c] = <<>>]
      /\ Finish(s)
      /\ UNCHANGED <<sessions, clients>>
      /\ Collect([obj EXCEPT ![o].messages = <<>>], older, idle)
      /\ Fails(broken, c # None)
      /\ UNCHANGED <<connected, issued, added, unsaved>>

\* The chat_disconnect event: remove_session.
ChatDisconnect(s) ==
  /\ s \in connected
  /\ sessions' = [sessions EXCEPT ![s] = None]
  /\ clients' = Evicted(sessions', clients, obj, older, idle)
  /\ UNCHANGED held
  /\ Collect(obj, older, idle)
  /\ UNCHANGED <<connected, stored, issued, doing, added, faults,
                 unsaved>>

\* evict_idle: a sweep on its own.
Sweep ==
  /\ clients' = Evicted(sessions, clients, obj, older, idle)
  /\ UNCHANGED <<sessions, held>>
  /\ Collect(obj, older, idle)
  /\ UNCHANGED <<connected, stored, issued, doing, added, faults,
                 unsaved>>

\* Time passes: the longest unused objects become idle.
TimePasses ==
  /\ \E o \in Listed \ idle : idle' = {o} \cup {p \in Listed : <<p, o>> \in older}
  /\ UNCHANGED <<connected, sessions, clients, obj, older, beside, stored, issued,
                 doing, held, added, faults, unsaved>>

Next ==
  \/ \E s \in Sockets :
       \/ \E claim \in Ids, valid, broken \in BOOLEAN :
            ConnectClient(s, claim, valid, broken)
       \/ ConnectAnonymously(s)
       \/ ReadHistory(s)
       \/ \E job \in {"user", "clear"} : HandleEvent(s, job)
       \/ \E broken \in BOOLEAN : AddMessage(s, broken) \/ Clear(s, broken)
       \/ ChatDisconnect(s)
  \/ Sweep \/ TimePasses

Spec == Init /\ [][Next]_vars

-----------------------------------------------------------------------------
(* Properties *)

\* The client map is bounded: at most the cap, or else nothing but sessions
\* whose last socket is still in the socket map.
Bounded ==
  \/ Cardinality(Registered(clients)) <= Cap
  \/ \A c \in Registered(clients) : IsLive(clients[c], sessions, obj)

\* A strict total order of the objects of a set.
Ordered(r, objects) ==
  /\ r \subseteq objects \X objects
  /\ \A o \in objects : <<o, o>> \notin r
  /\ \A o, p \in objects : o # p => <<o, p>> \in r \/ <<p, o>> \in r
  /\ \A o, p, q \in objects : <<o, p>> \in r /\ <<p, q>> \in r => <<o, q>> \in r

TypeOK ==
  /\ connected \subseteq Sockets
  /\ sessions \in [Sockets -> Objects \cup {None}]
  /\ clients \in [Ids -> Objects \cup {None}]
  /\ \A o \in Objects : /\ obj[o].socket \in Sockets \cup {None}
                        /\ obj[o].client \in Ids \cup {None}
                        /\ Len(obj[o].messages) <= MaxMessages
  /\ Ordered(older, Listed) /\ idle \subseteq Listed
  /\ issued \subseteq Ids
  /\ doing \in [Sockets -> Jobs]
  /\ \A s \in Sockets : (held[s] = None) = (doing[s] = "none")
  /\ added \in 0..MaxAdded
  /\ faults \in 0..MaxFaults
  /\ unsaved \subseteq 1..added /\ beside \subseteq InUse
  /\ Bounded

\* As long as the socket that bound a session last is in the socket map and has
\* not been bound elsewhere, its client's entry leads to that session, however
\* idle it is and however many clients there are: its tabs, and the next one to
\* connect, show one conversation (_evict_locked, _is_live).
LastBoundKeepsSession ==
  \A o \in InUse :
    LET c == obj[o].client
        last == obj[o].socket
    IN  c # None /\ last # None /\ sessions[last] = o => clients[c] = o

\* What the documentation of _evict_locked says of every socket, not only of the
\* one that bound last: "A session with a live socket is never evicted ... the
\* socket map is the authority on who is still connected."
LiveIsNeverEvicted ==
  \A s \in Sockets :
    sessions[s] # None =>
      LET c == obj[sessions[s]].client IN c # None => clients[c] = sessions[s]

Elements(q) == {q[i] : i \in 1..Len(q)}

\* The messages in memory are a cache of the transcript, through trims, clears,
\* evictions, reloads and handlers that finish late: memory holds nothing that
\* is not in SQLite but messages whose write failed, and what it lacks is older
\* than all it holds, so it has no gap.  It is said of a session that never
\* shared its client with another one still in use.
MemoryIsCache ==
  \A o \in InUse \ beside :
    LET c == obj[o].client
        inMemory == Elements(obj[o].messages)
        inSQLite == Elements(stored[c])
    IN  c # None => /\ inMemory \subseteq inSQLite \cup unsaved
                    /\ \A m \in inSQLite \ inMemory, k \in inMemory : m < k

=============================================================================
