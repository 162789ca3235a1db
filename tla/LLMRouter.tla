------------------------------ MODULE LLMRouter ------------------------------
(***************************************************************************)
(* Requests to the vLLM pods: AgentLLMRouter.chat and VLLMAdapter.chat     *)
(* (src/router/llm_router.py, src/router/adapters/vllm.py), one            *)
(* ConcurrencyLimiter per role (src/router/resilience.py), and the retry   *)
(* policy of src/router/rate_limit_config.py.  A request keeps its slot    *)
(* through every attempt and the sleeps between them.                      *)
(*                                                                         *)
(* An error is the set of those words the policy looks for that its text   *)
(* has: the errors raised here carry no status_code attribute, so the two  *)
(* sets of status codes are consulted through the text alone.              *)
(***************************************************************************)
EXTENDS Naturals, FiniteSets

CONSTANTS Callers,        \* threads that send requests
          MaxConcurrency, \* LLM_MAX_CONCURRENCY, per role
          MaxRetries      \* LLM_MAX_RETRIES

ASSUME RouterAssumption ==
  /\ IsFiniteSet(Callers)
  /\ MaxConcurrency \in Nat \ {0} /\ MaxRetries \in Nat \ {0}

Roles == {"vision", "agent"}

VARIABLES
  permits,  \* per role: free slots of the semaphore
  active,   \* per role: _active_count
  waiting,  \* per role: _waiting_count
  at,       \* per caller: where its request is
  role,     \* per caller: the role of its request
  attempt,  \* per caller: attempts made
  error     \* per caller: the error it is to decide about

routerVars == <<permits, active, waiting, at, role, attempt, error>>

(***************************************************************************)
(* What a POST to /v1/chat/completions comes back with                     *)
(***************************************************************************)

RejectWords == {"invalid request", "not found"}
RetryWords == {"500", "503", "connection", "timeout"}

NoError == [code |-> 0, words |-> {}]
Rejections == [code : {400}, words : {{}, {"invalid request"}, {"500"}}]

\* After the retries of the HTTP session: refused, timed out or "too many 503
\* error responses"; and the 200 answers the adapter cannot use.
Failures ==
  [code : {0}, words : {{"connection"}, {"connection", "timeout"},
                        {"connection", "503"}}]
UnusableAnswers == {[code |-> 200, words |-> {}]}

Errors == Rejections \union Failures \union UnusableAnswers

\* is_retryable_error
IsRetryable(e) ==
  e.words \cap RejectWords = {} /\ e.words \cap RetryWords # {}

Stages == {"idle", "semaphore", "granted", "refused", "post", "failed",
           "sleep", "release", "permit"}

RouterTypeOK ==
  /\ permits \in [Roles -> 0..MaxConcurrency]
  /\ active \in [Roles -> 0..MaxConcurrency]
  /\ waiting \in [Roles -> 0..Cardinality(Callers)]
  /\ at \in [Callers -> Stages] /\ role \in [Callers -> Roles]
  /\ attempt \in [Callers -> 0..MaxRetries]
  /\ error \in [Callers -> Errors \union {NoError}]

RouterInit ==
  /\ permits = [r \in Roles |-> MaxConcurrency]
  /\ active = [r \in Roles |-> 0] /\ waiting = [r \in Roles |-> 0]
  /\ at = [c \in Callers |-> "idle"] /\ role = [c \in Callers |-> "vision"]
  /\ attempt = [c \in Callers |-> 0] /\ error = [c \in Callers |-> NoError]

Forget(c) ==
  /\ attempt' = [attempt EXCEPT ![c] = 0]
  /\ error' = [error EXCEPT ![c] = NoError]

Go(c, from, to) == at[c] = from /\ at' = [at EXCEPT ![c] = to]

(***************************************************************************)
(* ConcurrencyLimiter.acquire                                              *)
(***************************************************************************)

\* The provider name "vllm-<role>" is the limiter's key.
Chat(c, r) ==
  /\ Go(c, "idle", "semaphore")
  /\ role' = [role EXCEPT ![c] = r]
  /\ waiting' = [waiting EXCEPT ![r] = @ + 1]
  /\ UNCHANGED <<permits, active, attempt, error>>

TakePermit(c) ==
  /\ Go(c, "semaphore", "granted")
  /\ permits[role[c]] > 0
  /\ permits' = [permits EXCEPT ![role[c]] = @ - 1]
  /\ UNCHANGED <<active, waiting, role, attempt, error>>

\* request_timeout passes with no slot free.
WaitTimesOut(c) ==
  /\ Go(c, "semaphore", "refused")
  /\ permits[role[c]] = 0
  /\ UNCHANGED <<permits, active, waiting, role, attempt, error>>

\* The counters are kept under a lock of their own, after the semaphore.
CountWait(c) ==
  /\ \/ /\ Go(c, "granted", "post")
        /\ active' = [active EXCEPT ![role[c]] = @ + 1]
     \/ Go(c, "refused", "idle") /\ UNCHANGED active
  /\ waiting' = [waiting EXCEPT ![role[c]] = @ - 1]
  /\ UNCHANGED <<permits, role, attempt, error>>

(***************************************************************************)
(* The attempts                                                            *)
(***************************************************************************)

Answered(c) ==
  /\ Go(c, "post", "release")
  /\ attempt' = [attempt EXCEPT ![c] = 0]
  /\ UNCHANGED <<permits, active, waiting, role, error>>

Fails(c) ==
  /\ Go(c, "post", "failed")
  /\ attempt' = [attempt EXCEPT ![c] = @ + 1]
  /\ \E e \in Errors : error' = [error EXCEPT ![c] = e]
  /\ UNCHANGED <<permits, active, waiting, role>>

\* Mutant: an error that is not retried leaves without the finally block.
Decide_leak(c) ==
  /\ IF IsRetryable(error[c]) /\ attempt[c] < MaxRetries
       THEN Go(c, "failed", "sleep") /\ UNCHANGED <<attempt, error>>
       ELSE Forget(c) /\ Go(c, "failed", IF IsRetryable(error[c])
                                          THEN "release" ELSE "idle")
  /\ UNCHANGED <<permits, active, waiting, role>>

\* Another attempt, or the error is raised and the slot released.
Decide(c) ==
  /\ IF IsRetryable(error[c]) /\ attempt[c] < MaxRetries
       THEN Go(c, "failed", "sleep") /\ UNCHANGED <<attempt, error>>
       ELSE Go(c, "failed", "release") /\ Forget(c)
  /\ UNCHANGED <<permits, active, waiting, role>>

\* calculate_backoff: the sleep is at most backoff_max, whatever the hint.
Backoff(c) ==
  /\ Go(c, "sleep", "post")
  /\ error' = [error EXCEPT ![c] = NoError]
  /\ UNCHANGED <<permits, active, waiting, role, attempt>>

\* ConcurrencyLimiter.release: the counter first, then the semaphore.
CountRelease(c) ==
  /\ Go(c, "release", "permit")
  /\ active' = [active EXCEPT ![role[c]] = IF @ > 0 THEN @ - 1 ELSE 0]
  /\ UNCHANGED <<permits, waiting, role, attempt, error>>

GivePermit(c) ==
  /\ Go(c, "permit", "idle")
  /\ permits' = [permits EXCEPT ![role[c]] = @ + 1]
  /\ UNCHANGED <<active, waiting, role, attempt, error>>

RouterStep(c) ==
  \/ TakePermit(c) \/ WaitTimesOut(c) \/ CountWait(c)
  \/ Answered(c) \/ Fails(c) \/ Decide(c) \/ Backoff(c)
  \/ CountRelease(c) \/ GivePermit(c)

RouterNext ==
  \E c \in Callers : RouterStep(c) \/ \E r \in Roles : Chat(c, r)

RouterSpec == RouterInit /\ [][RouterNext]_routerVars

-----------------------------------------------------------------------------
InRole(r, stages) == {c \in Callers : role[c] = r /\ at[c] \in stages}

\* Slots are neither lost nor invented, whatever way a request ends: those of
\* a role that are not free are held by requests of that role alone, so a slow
\* vision inference cannot starve the agent model; and the statistics agree
\* (ConcurrencyLimiter, VLLMAdapter.chat).
SlotsAccounted ==
  \A r \in Roles :
    /\ permits[r] + Cardinality(InRole(r, Stages \ {"idle", "semaphore",
                                                    "refused"}))
         = MaxConcurrency
    /\ active[r] = Cardinality(InRole(r, {"post", "failed", "sleep",
                                          "release"}))
    /\ waiting[r] = Cardinality(InRole(r, {"semaphore", "granted", "refused"}))

=============================================================================
