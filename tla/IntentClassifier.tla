-------------------------- MODULE IntentClassifier --------------------------
(***************************************************************************)
(* LLMIntentClassifier.classify (src/agents/classifiers/llm_classifier.py):*)
(* the TTL cache shared by the chat threads, the circuit breaker whose     *)
(* fields are read without its lock, the router call and the direct        *)
(* completion it falls back to.                                            *)
(***************************************************************************)
EXTENDS Naturals, FiniteSets

CONSTANTS Threads, Messages,
          MaxSize,     \* entries of the cache
          CacheTTL,    \* how old a served entry may be
          MaxFailures, \* consecutive failures that open the circuit
          BackoffTime, \* how long it stays open
          NoMessage, NoAnswer

ASSUME ClassifierAssumption ==
  /\ MaxFailures \in Nat \ {0} /\ MaxSize \in Nat \ {0}
  /\ CacheTTL \in Nat /\ BackoffTime \in Nat \ {0}
  /\ NoMessage \notin Messages

\* What a classification says: the LLM's choice of domain, or the
\* low-confidence general result with its source.
Verdicts == {"pcb", "general"}
Fallbacks == {"circuit_breaker", "llm_error"}

ASSUME NoAnswerAssumption == NoAnswer \notin Verdicts \union Fallbacks

VARIABLES
  store,    \* _ClassificationCache: message -> verdict and its age
  failures, \* _consecutive_failures, counted up to MaxFailures
  openFor,  \* what is left until _circuit_open_until
  doing,    \* per thread: where its classify call is
  message,  \* per thread: what it classifies
  answer,   \* per thread: what the call is about to return
  spoken    \* per message: what the LLM has said about it

classifierVars == <<store, failures, openFor, doing, message, answer, spoken>>

CallStages == {"idle", "lookup", "count", "until", "router", "direct", "reset",
               "put", "fail", "return"}

ClassifierTypeOK ==
  /\ DOMAIN store \subseteq Messages /\ Cardinality(DOMAIN store) <= MaxSize
  /\ \A m \in DOMAIN store :
       store[m] \in [verdict : Verdicts, age : 0..CacheTTL + 1]
  /\ failures \in 0..MaxFailures /\ openFor \in 0..BackoffTime
  /\ doing \in [Threads -> CallStages]
  /\ message \in [Threads -> Messages \union {NoMessage}]
  /\ answer \in [Threads -> Verdicts \union Fallbacks \union {NoAnswer}]
  /\ spoken \in [Messages -> SUBSET Verdicts]

ClassifierInit ==
  /\ store = [m \in {} |-> NoAnswer]
  /\ failures = 0 /\ openFor = 0
  /\ doing = [t \in Threads |-> "idle"]
  /\ message = [t \in Threads |-> NoMessage]
  /\ answer = [t \in Threads |-> NoAnswer]
  /\ spoken = [m \in Messages |-> {}]

To(t, from, next) == doing[t] = from /\ doing' = [doing EXCEPT ![t] = next]
Say(t, a) == answer' = [answer EXCEPT ![t] = a]

\* Time passes for the entries and for an open circuit.
Tick ==
  /\ store' = [m \in DOMAIN store |->
       [store[m] EXCEPT !.age = IF @ > CacheTTL THEN @ ELSE @ + 1]]
  /\ openFor' = IF openFor > 0 THEN openFor - 1 ELSE 0
  /\ UNCHANGED <<failures, doing, message, answer, spoken>>

Classify(t, m) ==
  /\ To(t, "idle", "lookup")
  /\ message' = [message EXCEPT ![t] = m]
  /\ UNCHANGED <<store, failures, openFor, answer, spoken>>

(***************************************************************************)
(* The cache                                                               *)
(***************************************************************************)

Without(m) == [n \in DOMAIN store \ {m} |-> store[n]]

\* An entry is served, or dropped when its time is over.
Lookup(t) ==
  LET m == message[t] IN
  /\ \/ /\ m \in DOMAIN store /\ store[m].age <= CacheTTL
        /\ Say(t, store[m].verdict) /\ To(t, "lookup", "return")
        /\ UNCHANGED store
     \/ /\ m \in DOMAIN store /\ store[m].age > CacheTTL
        /\ store' = Without(m)
        /\ To(t, "lookup", "count") /\ UNCHANGED answer
     \/ /\ m \notin DOMAIN store
        /\ To(t, "lookup", "count") /\ UNCHANGED <<answer, store>>
  /\ UNCHANGED <<failures, openFor, message, spoken>>

Oldest(n) == \A k \in DOMAIN store : store[n].age >= store[k].age

\* Mutant: a full cache grows.
Put_grows(t) ==
  /\ To(t, "put", "return")
  /\ LET e == [verdict |-> answer[t], age |-> 0]
     IN store' = [k \in DOMAIN store \union {message[t]} |->
                   IF k = message[t] THEN e ELSE store[k]]
  /\ UNCHANGED <<failures, openFor, message, answer, spoken>>

\* A full cache gives up its oldest entry, also when it holds this message.
Put(t) ==
  /\ To(t, "put", "return")
  /\ LET e == [verdict |-> answer[t], age |-> 0]
         m == message[t]
     IN \E kept \in IF Cardinality(DOMAIN store) >= MaxSize
                      THEN {Without(n) : n \in {k \in DOMAIN store : Oldest(k)}}
                      ELSE {store} :
          store' = [k \in DOMAIN kept \union {m} |-> IF k = m THEN e ELSE kept[k]]
  /\ UNCHANGED <<failures, openFor, message, answer, spoken>>

(***************************************************************************)
(* The circuit                                                             *)
(***************************************************************************)

\* _is_circuit_open reads the two fields without the lock.
ReadCount(t) ==
  /\ To(t, "count", IF failures < MaxFailures THEN "router" ELSE "until")
  /\ UNCHANGED <<store, failures, openFor, message, answer,
                 spoken>>

ReadUntil(t) ==
  /\ IF openFor = 0
       THEN To(t, "until", "router") /\ UNCHANGED answer
       ELSE To(t, "until", "return") /\ Say(t, "circuit_breaker")
  /\ UNCHANGED <<store, failures, openFor, message, spoken>>

RecordSuccess(t) ==
  /\ To(t, "reset", "put")
  /\ failures' = 0
  /\ UNCHANGED <<store, openFor, message, answer, spoken>>

\* Mutant: the fallback result is cached as a verdict is.
RecordFailure_cached(t) ==
  /\ To(t, "fail", "return")
  /\ failures' = IF failures < MaxFailures THEN failures + 1 ELSE failures
  /\ openFor' = IF failures' >= MaxFailures THEN BackoffTime ELSE openFor
  /\ Say(t, "llm_error")
  /\ store' = [k \in {message[t]} |-> [verdict |-> "general", age |-> 0]]
  /\ UNCHANGED <<message, spoken>>

RecordFailure(t) ==
  /\ To(t, "fail", "return")
  /\ failures' = IF failures < MaxFailures THEN failures + 1 ELSE failures
  /\ openFor' = IF failures' >= MaxFailures THEN BackoffTime ELSE openFor
  /\ Say(t, "llm_error")
  /\ UNCHANGED <<store, message, spoken>>

(***************************************************************************)
(* _call_llm: the router, then vLLM directly                               *)
(***************************************************************************)

\* A completion that parses; an unknown domain counts as general.
Completes(t) ==
  /\ doing[t] \in {"router", "direct"}
  /\ doing' = [doing EXCEPT ![t] = "reset"]
  /\ \E v \in Verdicts :
       /\ Say(t, v)
       /\ spoken' = [spoken EXCEPT ![message[t]] = @ \union {v}]
  /\ UNCHANGED <<store, failures, openFor, message>>

RouterFails(t) ==
  /\ To(t, "router", "direct")
  /\ UNCHANGED <<store, failures, openFor, message, answer,
                 spoken>>

\* Both attempts fail, or a completion came and does not parse.
CallFails(t) ==
  /\ doing[t] \in {"router", "direct"}
  /\ doing' = [doing EXCEPT ![t] = "fail"]
  /\ UNCHANGED <<store, failures, openFor, message, answer,
                 spoken>>

Return(t) ==
  /\ To(t, "return", "idle")
  /\ message' = [message EXCEPT ![t] = NoMessage]
  /\ answer' = [answer EXCEPT ![t] = NoAnswer]
  /\ UNCHANGED <<store, failures, openFor, spoken>>

CallStep(t) ==
  \/ Lookup(t) \/ ReadCount(t) \/ ReadUntil(t)
  \/ Completes(t) \/ RouterFails(t) \/ CallFails(t)
  \/ RecordSuccess(t) \/ RecordFailure(t) \/ Put(t) \/ Return(t)

ClassifierNext ==
  \/ Tick
  \/ \E t \in Threads : CallStep(t) \/ \E m \in Messages : Classify(t, m)

ClassifierSpec == ClassifierInit /\ [][ClassifierNext]_classifierVars

-----------------------------------------------------------------------------
\* A call that answers with a verdict has it from the LLM, about this very
\* message, however calls share the cache: what was made up while the LLM was
\* down is never served as its opinion (_ClassificationCache, classify).
VerdictIsReal ==
  \A t \in Threads :
    doing[t] = "return" /\ answer[t] \in Verdicts
      => answer[t] \in spoken[message[t]]

=============================================================================
