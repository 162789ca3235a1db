--------------------------- MODULE ServicesProofs ---------------------------
(***************************************************************************)
(* Proofs about the services of MCServices, each for any number of threads *)
(* and with its own inductive invariant:                                   *)
(*                                                                         *)
(*   LLMRouter         no way out of a request loses a slot or gives one   *)
(*                     back twice;                                         *)
(*   CircuitBreaker    from CircuitBreakerProofs;                          *)
(*   IntentClassifier  no verdict is made up;                              *)
(*   FramePublisher    a subscriber's frames come in order;                *)
(*   CameraSwitch      the global publisher feeds nobody who has left;     *)
(*   Preferences, EmailCache   what is served from memory is fresh.        *)
(*                                                                         *)
(* At the end, what the composition promises about all of them.            *)
(***************************************************************************)
EXTENDS MCServices, CircuitBreakerProofs, FiniteSetTheorems, SequenceTheorems, TLAPS

(***************************************************************************)
(* The model router                                                        *)
(*                                                                         *)
(* The books are inductive as they stand: each step moves one caller, from *)
(* or to the stages that hold a slot, and the counters by as much.  The    *)
(* bounds of the counters follow from the books.                           *)
(***************************************************************************)

Held    == Stages \ {"idle", "semaphore", "refused"}
Active  == {"post", "failed", "sleep", "release"}
Waiting == {"semaphore", "granted", "refused"}

RolesTyped ==
  /\ permits \in [Roles -> Nat] /\ active \in [Roles -> Nat]
  /\ waiting \in [Roles -> Nat]
  /\ at \in [Callers -> Stages] /\ role \in [Callers -> Roles]
  /\ attempt \in [Callers -> 0..MaxRetries]
  /\ error \in [Callers -> Errors \union {NoError}]
  /\ \A c \in Callers :
       /\ at[c] \in {"post", "sleep"} => attempt[c] < MaxRetries
       /\ at[c] \notin {"post", "failed", "sleep"} => attempt[c] = 0

RouterIInv == RolesTyped /\ SlotsAccounted

-----------------------------------------------------------------------------
(* Counting *)

LEMMA InRoleFinite ==
  ASSUME NEW r, NEW S
  PROVE  /\ IsFiniteSet(InRole(r, S)) /\ Cardinality(InRole(r, S)) \in Nat
         /\ Cardinality(InRole(r, S)) <= Cardinality(Callers)
<1>1. InRole(r, S) \subseteq Callers
  BY DEF InRole
<1>2. QED
  BY <1>1, RouterAssumption, FS_Subset, FS_CardinalityType

\* One caller moves, in its role or out of idleness.
CallerMoves(c, to) ==
  /\ at' = [at EXCEPT ![c] = to]
  /\ \/ role' = role
     \/ at[c] = "idle" /\ \E r \in Roles : role' = [role EXCEPT ![c] = r]

\* What a caller adds to the count of a role.
Share(q, S, itsRole, stage) == IF itsRole = q /\ stage \in S THEN 1 ELSE 0

LEMMA CountMoves ==
  ASSUME RolesTyped, NEW c \in Callers, NEW to \in Stages, CallerMoves(c, to),
         NEW q \in Roles, NEW S \in SUBSET (Stages \ {"idle"})
  PROVE  Cardinality(InRole(q, S))' =
           Cardinality(InRole(q, S))
             + Share(q, S, role'[c], to) - Share(q, S, role[c], at[c])
<1> USE DEF Share
<1> DEFINE old == InRole(q, S)
           new == {d \in Callers : role'[d] = q /\ at'[d] \in S}
<1>1. InRole(q, S)' = new
  BY DEF InRole
<1>2. IsFiniteSet(old) /\ Cardinality(old) \in Nat
  BY InRoleFinite
<1>3. /\ at'[c] = to /\ \A d \in Callers \ {c} : at'[d] = at[d] /\ role'[d] = role[d]
      /\ at[c] \in S => role'[c] = role[c]
  BY DEF CallerMoves, RolesTyped
<1>4. /\ c \in old <=> role[c] = q /\ at[c] \in S
      /\ c \in new <=> role'[c] = q /\ to \in S
      /\ \A d : d # c => (d \in new <=> d \in old)
  BY <1>3 DEF InRole
<1>5. CASE c \in old /\ c \in new
  <2>1. new = old
    BY <1>4, <1>5
  <2>2. QED
    BY <1>1, <1>2, <1>4, <1>5, <2>1
<1>6. CASE c \in old /\ c \notin new
  <2>1. new = old \ {c}
    BY <1>4, <1>6
  <2>2. Cardinality(new) = Cardinality(old) - 1
    BY <1>2, <1>6, <2>1, FS_RemoveElement
  <2>3. QED
    BY <1>1, <1>2, <1>4, <1>6, <2>2
<1>7. CASE c \notin old /\ c \in new
  <2>1. new = old \union {c}
    BY <1>4, <1>7
  <2>2. Cardinality(new) = Cardinality(old) + 1
    BY <1>2, <1>7, <2>1, FS_AddElement
  <2>3. QED
    BY <1>1, <1>2, <1>4, <1>7, <2>2
<1>8. CASE c \notin old /\ c \notin new
  <2>1. new = old
    BY <1>4, <1>8
  <2>2. ~ (role'[c] = q /\ to \in S) /\ ~ (role[c] = q /\ at[c] \in S)
    BY <1>4, <1>8
  <2>3. Share(q, S, role'[c], to) = 0 /\ Share(q, S, role[c], at[c]) = 0
    BY <2>2
  <2>4. Cardinality(new) = Cardinality(old)
    BY <2>1
  <2>5. QED
    BY <1>1, <1>2, <2>3, <2>4
<1>9. QED
  BY <1>5, <1>6, <1>7, <1>8

\* Who is in the stages is counted.
LEMMA CountOfOne ==
  ASSUME NEW c \in Callers, NEW S, at[c] \in S
  PROVE  Cardinality(InRole(role[c], S)) > 0
<1>1. c \in InRole(role[c], S)
  BY DEF InRole
<1>2. QED
  BY <1>1, InRoleFinite, FS_EmptySet

-----------------------------------------------------------------------------
(* The steps *)

\* The books are kept if each step writes what the caller's move is worth.
LEMMA BooksMove ==
  ASSUME RolesTyped, SlotsAccounted, NEW c \in Callers, NEW to \in Stages,
         CallerMoves(c, to), RolesTyped',
         \A q \in Roles :
           /\ permits'[q] + Share(q, Held, role'[c], to)
                = permits[q] + Share(q, Held, role[c], at[c])
           /\ active'[q] - Share(q, Active, role'[c], to)
                = active[q] - Share(q, Active, role[c], at[c])
           /\ waiting'[q] - Share(q, Waiting, role'[c], to)
                = waiting[q] - Share(q, Waiting, role[c], at[c])
  PROVE  SlotsAccounted'
<1>1. SUFFICES ASSUME NEW q \in Roles
               PROVE  /\ permits'[q] + Cardinality(InRole(q, Held))' = MaxConcurrency
                      /\ active'[q] = Cardinality(InRole(q, Active))'
                      /\ waiting'[q] = Cardinality(InRole(q, Waiting))'
  BY DEF SlotsAccounted, Held, Active, Waiting
<1>2. /\ Held \in SUBSET (Stages \ {"idle"}) /\ Active \in SUBSET (Stages \ {"idle"})
      /\ Waiting \in SUBSET (Stages \ {"idle"})
  BY DEF Held, Active, Waiting, Stages
<1>3. /\ permits[q] + Cardinality(InRole(q, Held)) = MaxConcurrency
      /\ active[q] = Cardinality(InRole(q, Active))
      /\ waiting[q] = Cardinality(InRole(q, Waiting))
  BY DEF SlotsAccounted, Held, Active, Waiting
<1>4. /\ Cardinality(InRole(q, Held)) \in Nat /\ Cardinality(InRole(q, Active)) \in Nat
      /\ Cardinality(InRole(q, Waiting)) \in Nat
  BY InRoleFinite
<1>5. \A S \in SUBSET (Stages \ {"idle"}) :
        Cardinality(InRole(q, S))' =
          Cardinality(InRole(q, S))
            + Share(q, S, role'[c], to) - Share(q, S, role[c], at[c])
  BY CountMoves
<1>6. /\ permits[q] \in Nat /\ active[q] \in Nat /\ waiting[q] \in Nat
      /\ permits'[q] \in Nat /\ active'[q] \in Nat /\ waiting'[q] \in Nat
  BY DEF RolesTyped
<1>7. \A S, ro, st : Share(q, S, ro, st) \in {0, 1}
  BY DEF Share
<1>8. permits'[q] + Cardinality(InRole(q, Held))' = MaxConcurrency
  BY <1>1, <1>2, <1>3, <1>4, <1>5, <1>6, <1>7
<1>9. active'[q] = Cardinality(InRole(q, Active))'
  BY <1>1, <1>2, <1>3, <1>4, <1>5, <1>6, <1>7
<1>10. waiting'[q] = Cardinality(InRole(q, Waiting))'
  BY <1>1, <1>2, <1>3, <1>4, <1>5, <1>6, <1>7
<1>11. QED
  BY <1>8, <1>9, <1>10

\* A caller counted in a stage finds its counter above zero.
LEMMA CounterIsPositive ==
  ASSUME RouterIInv, NEW c \in Callers
  PROVE  /\ at[c] \in Active => active[role[c]] > 0
         /\ at[c] \in Waiting => waiting[role[c]] > 0
<1>1. role[c] \in Roles
  BY DEF RouterIInv, RolesTyped
<1>2. QED
  BY <1>1, CountOfOne DEF RouterIInv, SlotsAccounted, Active, Waiting

(* How a step moves its caller, and what it leaves well-typed. *)

\* What the books need of a step of caller c to the stage `to'.
Books(c, to) ==
  \A q \in Roles :
    /\ permits'[q] + Share(q, Held, role'[c], to)
         = permits[q] + Share(q, Held, role[c], at[c])
    /\ active'[q] - Share(q, Active, role'[c], to)
         = active[q] - Share(q, Active, role[c], at[c])
    /\ waiting'[q] - Share(q, Waiting, role'[c], to)
         = waiting[q] - Share(q, Waiting, role[c], at[c])

LEMMA ChatKeeps ==
  ASSUME RouterIInv, NEW c \in Callers, NEW r \in Roles, Chat(c, r)
  PROVE  RouterIInv'
<1> USE DEF RouterIInv
<1>1. RolesTyped'
  BY RouterAssumption DEF RolesTyped, Chat, Go, Stages
<1>2. CallerMoves(c, "semaphore") /\ "semaphore" \in Stages
  BY DEF CallerMoves, Chat, Go, Stages
<1>3. Books(c, "semaphore")
  BY DEF Books, Chat, Go, RolesTyped, Share, Held, Active, Waiting, Stages
<1>4. QED
  BY <1>1, <1>2, <1>3, BooksMove DEF Books

LEMMA TakePermitKeeps ==
  ASSUME RouterIInv, NEW c \in Callers, TakePermit(c)
  PROVE  RouterIInv'
<1> USE DEF RouterIInv
<1>1. RolesTyped'
  BY RouterAssumption DEF RolesTyped, TakePermit, Go, Stages
<1>2. CallerMoves(c, "granted") /\ "granted" \in Stages
  BY DEF CallerMoves, TakePermit, Go, Stages
<1>3. Books(c, "granted")
  BY DEF Books, TakePermit, Go, RolesTyped, Share, Held, Active, Waiting, Stages
<1>4. QED
  BY <1>1, <1>2, <1>3, BooksMove DEF Books

LEMMA WaitTimesOutKeeps ==
  ASSUME RouterIInv, NEW c \in Callers, WaitTimesOut(c)
  PROVE  RouterIInv'
<1> USE DEF RouterIInv
<1>1. RolesTyped'
  BY RouterAssumption DEF RolesTyped, WaitTimesOut, Go, Stages
<1>2. CallerMoves(c, "refused") /\ "refused" \in Stages
  BY DEF CallerMoves, WaitTimesOut, Go, Stages
<1>3. Books(c, "refused")
  BY DEF Books, WaitTimesOut, Go, RolesTyped, Share, Held, Active, Waiting, Stages
<1>4. QED
  BY <1>1, <1>2, <1>3, BooksMove DEF Books

LEMMA AnsweredKeeps ==
  ASSUME RouterIInv, NEW c \in Callers, Answered(c)
  PROVE  RouterIInv'
<1> USE DEF RouterIInv
<1>1. RolesTyped'
  BY RouterAssumption DEF RolesTyped, Answered, Go, Stages
<1>2. CallerMoves(c, "release") /\ "release" \in Stages
  BY DEF CallerMoves, Answered, Go, Stages
<1>3. Books(c, "release")
  BY DEF Books, Answered, Go, RolesTyped, Share, Held, Active, Waiting, Stages
<1>4. QED
  BY <1>1, <1>2, <1>3, BooksMove DEF Books

LEMMA FailsKeeps ==
  ASSUME RouterIInv, NEW c \in Callers, Fails(c)
  PROVE  RouterIInv'
<1> USE DEF RouterIInv
<1>1. RolesTyped'
  BY RouterAssumption DEF RolesTyped, Fails, Go, Stages
<1>2. CallerMoves(c, "failed") /\ "failed" \in Stages
  BY DEF CallerMoves, Fails, Go, Stages
<1>3. Books(c, "failed")
  BY DEF Books, Fails, Go, RolesTyped, Share, Held, Active, Waiting, Stages
<1>4. QED
  BY <1>1, <1>2, <1>3, BooksMove DEF Books

LEMMA BackoffKeeps ==
  ASSUME RouterIInv, NEW c \in Callers, Backoff(c)
  PROVE  RouterIInv'
<1> USE DEF RouterIInv
<1>1. RolesTyped'
  BY RouterAssumption DEF RolesTyped, Backoff, Go, Stages
<1>2. CallerMoves(c, "post") /\ "post" \in Stages
  BY DEF CallerMoves, Backoff, Go, Stages
<1>3. Books(c, "post")
  BY DEF Books, Backoff, Go, RolesTyped, Share, Held, Active, Waiting, Stages
<1>4. QED
  BY <1>1, <1>2, <1>3, BooksMove DEF Books

LEMMA CountReleaseKeeps ==
  ASSUME RouterIInv, NEW c \in Callers, CountRelease(c)
  PROVE  RouterIInv'
<1> USE DEF RouterIInv
<1>0. active[role[c]] > 0
  BY CounterIsPositive DEF CountRelease, Go, Active
<1>1. RolesTyped'
  BY RouterAssumption, <1>0 DEF RolesTyped, CountRelease, Go, Stages
<1>2. CallerMoves(c, "permit") /\ "permit" \in Stages
  BY DEF CallerMoves, CountRelease, Go, Stages
<1>3. Books(c, "permit")
  BY <1>0 DEF Books, CountRelease, Go, RolesTyped, Share, Held, Active, Waiting, Stages
<1>4. QED
  BY <1>1, <1>2, <1>3, BooksMove DEF Books

LEMMA GivePermitKeeps ==
  ASSUME RouterIInv, NEW c \in Callers, GivePermit(c)
  PROVE  RouterIInv'
<1> USE DEF RouterIInv
<1>1. RolesTyped'
  BY RouterAssumption DEF RolesTyped, GivePermit, Go, Stages
<1>2. CallerMoves(c, "idle") /\ "idle" \in Stages
  BY DEF CallerMoves, GivePermit, Go, Stages
<1>3. Books(c, "idle")
  BY DEF Books, GivePermit, Go, RolesTyped, Share, Held, Active, Waiting, Stages
<1>4. QED
  BY <1>1, <1>2, <1>3, BooksMove DEF Books

LEMMA CountWaitKeeps ==
  ASSUME RouterIInv, NEW c \in Callers, CountWait(c)
  PROVE  RouterIInv'
<1> USE DEF RouterIInv
<1>1. waiting[role[c]] > 0
  BY CounterIsPositive DEF CountWait, Go, Waiting
<1>2. CASE at[c] = "granted"
  <2>1. RolesTyped'
    BY <1>1, <1>2, RouterAssumption DEF RolesTyped, CountWait, Go, Stages
  <2>2. CallerMoves(c, "post") /\ "post" \in Stages
    BY <1>2 DEF CallerMoves, CountWait, Go, Stages
  <2>3. Books(c, "post")
    BY <1>2 DEF Books, CountWait, Go, RolesTyped, Share, Held, Active, Waiting, Stages
  <2>4. QED
    BY <2>1, <2>2, <2>3, BooksMove DEF Books
<1>3. CASE at[c] = "refused"
  <2>1. RolesTyped'
    BY <1>1, <1>3, RouterAssumption DEF RolesTyped, CountWait, Go, Stages
  <2>2. CallerMoves(c, "idle") /\ "idle" \in Stages
    BY <1>3 DEF CallerMoves, CountWait, Go, Stages
  <2>3. Books(c, "idle")
    BY <1>3 DEF Books, CountWait, Go, RolesTyped, Share, Held, Active, Waiting, Stages
  <2>4. QED
    BY <2>1, <2>2, <2>3, BooksMove DEF Books
<1>4. QED
  BY <1>2, <1>3 DEF CountWait, Go

LEMMA DecideKeeps ==
  ASSUME RouterIInv, NEW c \in Callers, Decide(c)
  PROVE  RouterIInv'
<1> USE DEF RouterIInv
<1>1. CASE IsRetryable(error[c]) /\ attempt[c] < MaxRetries
  <2>1. RolesTyped'
    BY <1>1, RouterAssumption DEF RolesTyped, Decide, Go, Stages
  <2>2. CallerMoves(c, "sleep") /\ "sleep" \in Stages
    BY <1>1 DEF CallerMoves, Decide, Go, Stages
  <2>3. Books(c, "sleep")
    BY <1>1 DEF Books, Decide, Go, RolesTyped, Share, Held, Active, Waiting, Stages
  <2>4. QED
    BY <2>1, <2>2, <2>3, BooksMove DEF Books
<1>2. CASE ~ (IsRetryable(error[c]) /\ attempt[c] < MaxRetries)
  <2>1. RolesTyped'
    BY <1>2, RouterAssumption DEF RolesTyped, Decide, Forget, Go, Stages
  <2>2. CallerMoves(c, "release") /\ "release" \in Stages
    BY <1>2 DEF CallerMoves, Decide, Go, Stages
  <2>3. Books(c, "release")
    BY <1>2 DEF Books, Decide, Go, RolesTyped, Share, Held, Active, Waiting, Stages
  <2>4. QED
    BY <2>1, <2>2, <2>3, BooksMove DEF Books
<1>3. QED
  BY <1>1, <1>2

LEMMA RouterInitial == RouterInit => RouterIInv
<1> SUFFICES ASSUME RouterInit PROVE RouterIInv
  OBVIOUS
<1>1. RolesTyped
  BY RouterAssumption DEF RouterInit, RolesTyped, Stages, Roles
<1>2. ASSUME NEW r \in Roles, NEW S \in SUBSET (Stages \ {"idle"})
      PROVE  Cardinality(InRole(r, S)) = 0
  <2>1. InRole(r, S) = {}
    BY DEF InRole, RouterInit
  <2>2. QED
    BY <2>1, FS_EmptySet
<1>3. SlotsAccounted
  <2>1. /\ Held \in SUBSET (Stages \ {"idle"}) /\ Active \in SUBSET (Stages \ {"idle"})
        /\ Waiting \in SUBSET (Stages \ {"idle"})
    BY DEF Held, Active, Waiting, Stages
  <2>2. \A r \in Roles : /\ Cardinality(InRole(r, Held)) = 0
                         /\ Cardinality(InRole(r, Active)) = 0
                         /\ Cardinality(InRole(r, Waiting)) = 0
    BY <1>2, <2>1
  <2>3. \A r \in Roles : permits[r] = MaxConcurrency /\ active[r] = 0 /\ waiting[r] = 0
    BY DEF RouterInit
  <2>4. \A r \in Roles :
          /\ permits[r] + Cardinality(InRole(r, Held)) = MaxConcurrency
          /\ active[r] = Cardinality(InRole(r, Active))
          /\ waiting[r] = Cardinality(InRole(r, Waiting))
    BY <2>2, <2>3, RouterAssumption
  <2>5. QED
    BY <2>4 DEF SlotsAccounted, Held, Active, Waiting
<1>4. QED
  BY <1>1, <1>3 DEF RouterIInv

LEMMA RouterStepKeeps == RouterIInv /\ [RouterNext]_routerVars => RouterIInv'
<1> SUFFICES ASSUME RouterIInv, [RouterNext]_routerVars PROVE RouterIInv'
  OBVIOUS
<1>1. ASSUME NEW c \in Callers, NEW r \in Roles, Chat(c, r) PROVE RouterIInv'
  BY <1>1, ChatKeeps
<1>2. ASSUME NEW c \in Callers, TakePermit(c) PROVE RouterIInv'
  BY <1>2, TakePermitKeeps
<1>3. ASSUME NEW c \in Callers, WaitTimesOut(c) PROVE RouterIInv'
  BY <1>3, WaitTimesOutKeeps
<1>4. ASSUME NEW c \in Callers, CountWait(c) PROVE RouterIInv'
  BY <1>4, CountWaitKeeps
<1>5. ASSUME NEW c \in Callers, Answered(c) PROVE RouterIInv'
  BY <1>5, AnsweredKeeps
<1>6. ASSUME NEW c \in Callers, Fails(c) PROVE RouterIInv'
  BY <1>6, FailsKeeps
<1>7. ASSUME NEW c \in Callers, Decide(c) PROVE RouterIInv'
  BY <1>7, DecideKeeps
<1>8. ASSUME NEW c \in Callers, Backoff(c) PROVE RouterIInv'
  BY <1>8, BackoffKeeps
<1>9. ASSUME NEW c \in Callers, CountRelease(c) PROVE RouterIInv'
  BY <1>9, CountReleaseKeeps
<1>10. ASSUME NEW c \in Callers, GivePermit(c) PROVE RouterIInv'
  BY <1>10, GivePermitKeeps
<1>11. CASE UNCHANGED routerVars
  <2>1. UNCHANGED <<permits, active, waiting, at, role, attempt, error>>
    BY <1>11 DEF routerVars
  <2>2. RolesTyped'
    BY <2>1 DEF RouterIInv, RolesTyped
  <2>3. \A r, S : InRole(r, S)' = InRole(r, S)
    BY <2>1 DEF InRole
  <2>4. SlotsAccounted'
    BY <2>1, <2>3 DEF RouterIInv, SlotsAccounted, Held, Active, Waiting
  <2>5. QED
    BY <2>2, <2>4 DEF RouterIInv
<1>12. QED
  BY <1>1, <1>2, <1>3, <1>4, <1>5, <1>6, <1>7, <1>8, <1>9, <1>10, <1>11
     DEF RouterNext, RouterStep

\* The books, with the types and the attempts, hold in every state.
THEOREM RouterInductive == RouterSpec => []RouterIInv
<1>1. QED
  BY RouterInitial, RouterStepKeeps, PTL DEF RouterSpec

-----------------------------------------------------------------------------
\* Every request's slot is accounted for, in the semaphore or in a request of
\* its own role, however its request ends (ConcurrencyLimiter, VLLMAdapter.chat).
THEOREM SlotsNeverLeak == RouterSpec => []SlotsAccounted
<1>1. RouterIInv => SlotsAccounted
  BY DEF RouterIInv
<1>2. QED
  BY <1>1, RouterInductive, PTL

LEMMA RouterTypes == RouterIInv => RouterTypeOK
<1> SUFFICES ASSUME RouterIInv PROVE RouterTypeOK
  OBVIOUS
<1>1. RolesTyped /\ SlotsAccounted
  BY DEF RouterIInv
<1>2. ASSUME NEW r \in Roles
      PROVE  /\ permits[r] \in 0..MaxConcurrency
             /\ active[r] \in 0..MaxConcurrency
             /\ waiting[r] \in 0..Cardinality(Callers)
  <2>1. /\ Cardinality(InRole(r, Held)) \in Nat
        /\ Cardinality(InRole(r, Active)) \in Nat
        /\ Cardinality(InRole(r, Waiting)) \in Nat
        /\ Cardinality(InRole(r, Waiting)) <= Cardinality(Callers)
    BY InRoleFinite
  <2>2. Cardinality(InRole(r, Active)) <= Cardinality(InRole(r, Held))
    <3>1. InRole(r, Active) \subseteq InRole(r, Held)
      BY DEF InRole, Active, Held, Stages
    <3>2. QED
      BY <3>1, InRoleFinite, FS_Subset
  <2>3. /\ permits[r] + Cardinality(InRole(r, Held)) = MaxConcurrency
        /\ active[r] = Cardinality(InRole(r, Active))
        /\ waiting[r] = Cardinality(InRole(r, Waiting))
    BY <1>1 DEF SlotsAccounted, Held, Active, Waiting
  <2>4. permits[r] \in Nat /\ Cardinality(Callers) \in Nat
    BY <1>1, RouterAssumption, FS_CardinalityType DEF RolesTyped
  <2>5. QED
    BY <2>1, <2>2, <2>3, <2>4, RouterAssumption
<1>3. QED
  BY <1>1, <1>2 DEF RolesTyped, RouterTypeOK

\* The types: the free and the used slots stay between none and all, and no
\* request makes more than LLM_MAX_RETRIES attempts.
THEOREM RouterTypeCorrect == RouterSpec => []RouterTypeOK
  BY RouterTypes, RouterInductive, PTL

-----------------------------------------------------------------------------
(***************************************************************************)
(* The intent classifier                                                   *)
(***************************************************************************)

\* Beyond what returns: what is cached, and what a call holds between the
\* completion and the cache, has been said about its message.
ClassifierIInv ==
  /\ ClassifierTypeOK /\ IsFiniteSet(DOMAIN store)
  /\ \A t \in Threads : doing[t] # "idle" => message[t] \in Messages
  /\ \A m \in DOMAIN store : store[m].verdict \in spoken[m]
  /\ \A t \in Threads :
       doing[t] \in {"reset", "put"} => answer[t] \in spoken[message[t]]
  /\ VerdictIsReal

\* Removing an entry makes room for one.
LEMMA WithoutMakesRoom ==
  ASSUME IsFiniteSet(DOMAIN store), NEW m \in DOMAIN store
  PROVE  /\ DOMAIN Without(m) = DOMAIN store \ {m}
         /\ IsFiniteSet(DOMAIN Without(m))
         /\ Cardinality(DOMAIN Without(m)) = Cardinality(DOMAIN store) - 1
         /\ \A n \in DOMAIN Without(m) : Without(m)[n] = store[n]
<1>1. /\ DOMAIN Without(m) = DOMAIN store \ {m}
      /\ \A n \in DOMAIN Without(m) : Without(m)[n] = store[n]
  BY DEF Without
<1>2. QED
  BY <1>1, FS_RemoveElement

\* One more entry than the cache or its remains had.
LEMMA AddingCounts ==
  ASSUME NEW S, IsFiniteSet(S), NEW x, Cardinality(S) < MaxSize
  PROVE  IsFiniteSet(S \union {x}) /\ Cardinality(S \union {x}) <= MaxSize
<1>1. Cardinality(S) \in Nat
  BY FS_CardinalityType
<1>2. /\ IsFiniteSet(S \union {x})
      /\ \/ Cardinality(S \union {x}) = Cardinality(S)
         \/ Cardinality(S \union {x}) = Cardinality(S) + 1
  BY FS_AddElement
<1>3. QED
  BY <1>1, <1>2, ClassifierAssumption

LEMMA ClassifierInitial == ClassifierInit => ClassifierIInv
<1> SUFFICES ASSUME ClassifierInit PROVE ClassifierIInv
  OBVIOUS
<1>1. DOMAIN store = {}
  BY DEF ClassifierInit
<1>2. IsFiniteSet(DOMAIN store) /\ Cardinality(DOMAIN store) = 0
  BY <1>1, FS_EmptySet
<1>3. QED
  BY <1>1, <1>2, ClassifierAssumption, NoAnswerAssumption
     DEF ClassifierInit, ClassifierIInv, ClassifierTypeOK, VerdictIsReal,
         CallStages

LEMMA PutKeeps ==
  ASSUME ClassifierIInv, NEW t \in Threads, Put(t)
  PROVE  ClassifierIInv'
<1> DEFINE m == message[t]
           e == [verdict |-> answer[t], age |-> 0]
<1>1. /\ doing[t] = "put" /\ doing' = [doing EXCEPT ![t] = "return"]
      /\ UNCHANGED <<failures, openFor, message, answer, spoken>>
  BY DEF Put, To
<1>2. /\ m \in Messages /\ answer[t] \in spoken[m] /\ answer[t] \in Verdicts
      /\ e \in [verdict : Verdicts, age : 0..CacheTTL + 1]
      /\ e.verdict = answer[t]
  BY <1>1, ClassifierAssumption DEF ClassifierIInv, ClassifierTypeOK
<1>3. PICK rest : 
        /\ \/ rest = store /\ Cardinality(DOMAIN store) < MaxSize
           \/ \E n \in DOMAIN store : rest = Without(n)
        /\ store' = [k \in DOMAIN rest \union {m} |-> IF k = m THEN e ELSE rest[k]]
  <2>1. PICK rest \in IF Cardinality(DOMAIN store) >= MaxSize
                      THEN {Without(n) : n \in {k \in DOMAIN store : Oldest(k)}}
                      ELSE {store} :
          store' = [k \in DOMAIN rest \union {m} |-> IF k = m THEN e ELSE rest[k]]
    BY DEF Put
  <2>2. Cardinality(DOMAIN store) \in Nat /\ MaxSize \in Nat
    BY FS_CardinalityType, ClassifierAssumption DEF ClassifierIInv
  <2>3. \/ rest = store /\ Cardinality(DOMAIN store) < MaxSize
        \/ \E n \in DOMAIN store : rest = Without(n)
    <3>1. CASE Cardinality(DOMAIN store) >= MaxSize
      BY <2>1, <3>1
    <3>2. CASE ~(Cardinality(DOMAIN store) >= MaxSize)
      BY <2>1, <2>2, <3>2
    <3>3. QED
      BY <3>1, <3>2
  <2>4. QED
    BY <2>1, <2>3
<1> DEFINE Fits == /\ IsFiniteSet(DOMAIN rest)
                   /\ Cardinality(DOMAIN rest) < MaxSize
                   /\ DOMAIN rest \subseteq DOMAIN store
                   /\ \A k \in DOMAIN rest : rest[k] = store[k]
<1>4. Fits
  <2>1. CASE rest = store /\ Cardinality(DOMAIN store) < MaxSize
    BY <2>1 DEF ClassifierIInv
  <2>2. ASSUME NEW n \in DOMAIN store, rest = Without(n)
        PROVE  Fits
    <3>1. /\ Cardinality(DOMAIN store) \in Nat /\ MaxSize \in Nat
          /\ Cardinality(DOMAIN store) <= MaxSize
      BY FS_CardinalityType, ClassifierAssumption
         DEF ClassifierIInv, ClassifierTypeOK
    <3>2. /\ DOMAIN rest = DOMAIN store \ {n} /\ IsFiniteSet(DOMAIN rest)
          /\ Cardinality(DOMAIN rest) = Cardinality(DOMAIN store) - 1
          /\ \A k \in DOMAIN rest : rest[k] = store[k]
      BY <2>2, WithoutMakesRoom DEF ClassifierIInv
    <3>3. Cardinality(DOMAIN rest) < MaxSize
      BY <3>1, <3>2
    <3>4. QED
      BY <3>2, <3>3
  <2>3. QED
    BY <1>3, <2>1, <2>2
<1>5. /\ DOMAIN store' = DOMAIN rest \union {m}
      /\ store'[m] = e
      /\ \A k \in DOMAIN store' : k # m => k \in DOMAIN store /\ store'[k] = store[k]
  BY <1>3, <1>4
<1>6. IsFiniteSet(DOMAIN store') /\ Cardinality(DOMAIN store') <= MaxSize
  <2> HIDE DEF m
  <2>1. IsFiniteSet(DOMAIN rest \union {m})
        /\ Cardinality(DOMAIN rest \union {m}) <= MaxSize
    BY <1>4, AddingCounts
  <2>2. QED
    BY <1>5, <2>1
<1>7. ClassifierTypeOK'
  BY <1>1, <1>2, <1>5, <1>6 DEF ClassifierIInv, ClassifierTypeOK, CallStages
<1>8. \A k \in DOMAIN store' : store'[k].verdict \in spoken'[k]
  BY <1>1, <1>2, <1>5 DEF ClassifierIInv
<1>9. QED
  BY <1>1, <1>2, <1>6, <1>7, <1>8
     DEF ClassifierIInv, ClassifierTypeOK, VerdictIsReal

LEMMA TickKeeps == ASSUME ClassifierIInv, Tick PROVE ClassifierIInv'
<1>1. /\ DOMAIN store' = DOMAIN store
      /\ openFor' = IF openFor > 0 THEN openFor - 1 ELSE 0
      /\ UNCHANGED <<failures, doing, message, answer, spoken>>
  BY DEF Tick
<1>2. ASSUME NEW m \in DOMAIN store
      PROVE  /\ store'[m] \in [verdict : Verdicts, age : 0..CacheTTL + 1]
             /\ store'[m].verdict = store[m].verdict
  <2>1. store[m] \in [verdict : Verdicts, age : 0..CacheTTL + 1]
    BY DEF ClassifierIInv, ClassifierTypeOK
  <2>2. store'[m] = [store[m] EXCEPT !.age = IF @ > CacheTTL THEN @ ELSE @ + 1]
    BY DEF Tick
  <2>3. QED
    BY <2>1, <2>2, ClassifierAssumption
<1>3. ClassifierTypeOK'
  BY <1>1, <1>2, ClassifierAssumption DEF ClassifierIInv, ClassifierTypeOK
<1>4. QED
  BY <1>1, <1>2, <1>3 DEF ClassifierIInv, VerdictIsReal

LEMMA LookupKeeps ==
  ASSUME ClassifierIInv, NEW t \in Threads, Lookup(t)
  PROVE  ClassifierIInv'
<1> DEFINE m == message[t]
<1>1. UNCHANGED <<failures, openFor, message, spoken>> /\ doing[t] = "lookup"
  BY DEF Lookup, To
<1>2. CASE /\ m \in DOMAIN store /\ answer' = [answer EXCEPT ![t] = store[m].verdict]
           /\ doing' = [doing EXCEPT ![t] = "return"] /\ store' = store
  <2>1. store[m].verdict \in Verdicts /\ store[m].verdict \in spoken[m]
    BY <1>2 DEF ClassifierIInv, ClassifierTypeOK
  <2>2. ClassifierTypeOK'
    BY <1>1, <1>2, <2>1 DEF ClassifierIInv, ClassifierTypeOK, CallStages
  <2>3. QED
    BY <1>1, <1>2, <2>1, <2>2 DEF ClassifierIInv, ClassifierTypeOK, VerdictIsReal
<1>3. CASE /\ m \in DOMAIN store /\ store' = Without(m)
           /\ doing' = [doing EXCEPT ![t] = "count"] /\ answer' = answer
  <2>1. /\ DOMAIN store' = DOMAIN store \ {m} /\ IsFiniteSet(DOMAIN store')
        /\ Cardinality(DOMAIN store') = Cardinality(DOMAIN store) - 1
        /\ \A n \in DOMAIN store' : store'[n] = store[n]
    BY <1>3, WithoutMakesRoom DEF ClassifierIInv
  <2>2. Cardinality(DOMAIN store) \in Nat /\ MaxSize \in Nat
    BY FS_CardinalityType, ClassifierAssumption DEF ClassifierIInv
  <2>3. ClassifierTypeOK'
    BY <1>1, <1>3, <2>1, <2>2 DEF ClassifierIInv, ClassifierTypeOK, CallStages
  <2>4. QED
    BY <1>1, <1>3, <2>1, <2>3 DEF ClassifierIInv, ClassifierTypeOK, VerdictIsReal
<1>4. CASE /\ doing' = [doing EXCEPT ![t] = "count"]
           /\ UNCHANGED <<answer, store>>
  <2>1. ClassifierTypeOK'
    BY <1>1, <1>4 DEF ClassifierIInv, ClassifierTypeOK, CallStages
  <2>2. QED
    BY <1>1, <1>4, <2>1 DEF ClassifierIInv, ClassifierTypeOK, VerdictIsReal
<1>5. QED
  BY <1>2, <1>3, <1>4 DEF Lookup, To, Say

\* The steps of a call that leave the cache alone.
LEMMA CallKeeps ==
  ASSUME ClassifierIInv, NEW t \in Threads,
         \/ ReadCount(t) \/ ReadUntil(t) \/ Completes(t) \/ RouterFails(t)
         \/ CallFails(t) \/ RecordSuccess(t) \/ RecordFailure(t) \/ Return(t)
         \/ \E m \in Messages : Classify(t, m)
  PROVE  ClassifierIInv'
<1> USE DEF ClassifierIInv, ClassifierTypeOK, CallStages, VerdictIsReal, To, Say
<1>1. CASE ReadCount(t)
  BY <1>1 DEF ReadCount
<1>2. CASE ReadUntil(t)
  BY <1>2 DEF ReadUntil, Verdicts, Fallbacks
<1>3. CASE Completes(t)
  <2>1. PICK v \in Verdicts :
          /\ answer' = [answer EXCEPT ![t] = v]
          /\ spoken' = [spoken EXCEPT ![message[t]] = @ \union {v}]
    BY <1>3 DEF Completes
  <2>2. /\ doing[t] \in {"router", "direct"}
        /\ doing' = [doing EXCEPT ![t] = "reset"]
        /\ UNCHANGED <<store, failures, openFor, message>>
    BY <1>3 DEF Completes
  <2>3. /\ message[t] \in Messages /\ v \in spoken'[message[t]]
        /\ \A m \in Messages : spoken[m] \subseteq spoken'[m]
        /\ spoken' \in [Messages -> SUBSET Verdicts]
    BY <2>1, <2>2
  <2>4. ClassifierTypeOK'
    BY <2>1, <2>2, <2>3
  <2>5. /\ \A m \in DOMAIN store' : store'[m].verdict \in spoken'[m]
        /\ \A u \in Threads : doing'[u] # "idle" => message'[u] \in Messages
    BY <2>2, <2>3
  <2>6. \A u \in Threads :
          doing'[u] \in {"reset", "put"} => answer'[u] \in spoken'[message'[u]]
    BY <2>1, <2>2, <2>3
  <2>7. VerdictIsReal'
    BY <2>1, <2>2, <2>3
  <2>8. QED
    BY <2>2, <2>4, <2>5, <2>6, <2>7
<1>4. CASE RouterFails(t)
  BY <1>4 DEF RouterFails
<1>5. CASE CallFails(t)
  BY <1>5 DEF CallFails
<1>6. CASE RecordSuccess(t)
  BY <1>6, ClassifierAssumption DEF RecordSuccess
<1>7. CASE RecordFailure(t)
  BY <1>7, ClassifierAssumption DEF RecordFailure, Verdicts, Fallbacks
<1>8. CASE Return(t)
  BY <1>8, NoAnswerAssumption DEF Return
<1>9. ASSUME NEW m \in Messages, Classify(t, m) PROVE ClassifierIInv'
  BY <1>9 DEF Classify
<1>10. QED
  BY <1>1, <1>2, <1>3, <1>4, <1>5, <1>6, <1>7, <1>8, <1>9

LEMMA ClassifierStepKeeps ==
  ClassifierIInv /\ [ClassifierNext]_classifierVars => ClassifierIInv'
<1> SUFFICES ASSUME ClassifierIInv, [ClassifierNext]_classifierVars
             PROVE  ClassifierIInv'
  OBVIOUS
<1>1. CASE UNCHANGED classifierVars
  BY <1>1 DEF ClassifierIInv, ClassifierTypeOK, VerdictIsReal, classifierVars
<1>2. CASE ClassifierNext
  BY <1>2, TickKeeps, LookupKeeps, PutKeeps, CallKeeps
     DEF ClassifierNext, CallStep
<1>3. QED
  BY <1>1, <1>2

\* In every reachable state.
LEMMA ClassifierInductive ==
  ClassifierInit /\ [][ClassifierNext]_classifierVars => []ClassifierIInv
  BY ClassifierInitial, ClassifierStepKeeps, PTL

\* The verdict of a call is one the LLM gave about the message of that call,
\* for any number of threads, messages and cache entries: the result made up
\* while the LLM is down is never cached and served as its opinion
\* (LLMIntentClassifier.classify, _ClassificationCache).
THEOREM VerdictsAreReal == ClassifierSpec => []VerdictIsReal
<1>1. ClassifierIInv => VerdictIsReal
  BY DEF ClassifierIInv
<1>2. QED
  BY <1>1, ClassifierInductive, PTL DEF ClassifierSpec

-----------------------------------------------------------------------------
(***************************************************************************)
(* The frame publisher                                                     *)
(***************************************************************************)

\* All frames of a queue in order, newer than the last one taken and below m.
Below(q, l, m) ==
  /\ l < m /\ \A i \in 1..Len(q) : l < q[i] /\ q[i] < m
  /\ \A i, j \in 1..Len(q) : i < j => q[i] < q[j]

\* The types, with a frame in the hands of every thread that publishes.
PublisherTyped ==
  /\ PublisherTypeOK /\ queue \in [Viewers -> Seq(1..MaxFrames)]
  /\ \A t \in Captures :
       /\ capture[t] \in {"publish", "deliver", "drop", "again"}
            => frame[t] \in 1..frameNo
       /\ capture[t] \in {"drop", "again"} => full[t] \in serving[t]
  /\ \A t \in Captures : t > thread => capture[t] = "unborn"

\* Until two threads capture at once: only the last thread is alive, the frame
\* it holds is the newest, and those it has yet to serve have older ones.
OneCapture ==
  /\ \A t \in Captures : Alive(t) => t = thread
  /\ \A r \in Viewers : Below(queue[r], last[r], frameNo + 1)
  /\ \A t \in Captures :
       /\ capture[t] \in {"publish", "deliver", "drop", "again"}
            => frame[t] = frameNo
       /\ capture[t] = "publish" =>
            \A r \in Viewers : Below(queue[r], last[r], frameNo)
       /\ capture[t] \in {"deliver", "drop", "again"} =>
            \A r \in serving[t] : Below(queue[r], last[r], frameNo)

PublisherIInv == PublisherTyped /\ (revived \/ OneCapture)

-----------------------------------------------------------------------------
(* Queues *)

LEMMA BelowEmpty ==
  ASSUME NEW l \in Nat, NEW m \in Nat, l < m
  PROVE  Below(<<>>, l, m)
  BY DEF Below

LEMMA BelowGrows ==
  ASSUME NEW q \in Seq(Nat), NEW l \in Nat, NEW m \in Nat, Below(q, l, m)
  PROVE  Below(q, l, m + 1)
<1>1. \A i \in 1..Len(q) : q[i] \in Nat
  BY ElementOfSeq
<1>2. QED
  BY <1>1 DEF Below

\* A frame newer than all others may be queued.
LEMMA BelowAppend ==
  ASSUME NEW q \in Seq(Nat), NEW l \in Nat, NEW m \in Nat, Below(q, l, m)
  PROVE  Below(Append(q, m), l, m + 1)
<1> DEFINE p == Append(q, m)
<1>1. /\ Len(q) \in Nat /\ Len(p) = Len(q) + 1 /\ p[Len(q) + 1] = m
      /\ \A i \in 1..Len(q) : p[i] = q[i] /\ q[i] \in Nat
  BY AppendProperties, ElementOfSeq, LenProperties
<1> HIDE DEF p
<1>2. \A i \in 1..Len(p) : i = Len(q) + 1 \/ i \in 1..Len(q)
  BY <1>1
<1>3. \A i \in 1..Len(p) : l < p[i] /\ p[i] < m + 1
  BY <1>1, <1>2 DEF Below
<1>4. ASSUME NEW i \in 1..Len(p), NEW j \in 1..Len(p), i < j
      PROVE  p[i] < p[j]
  <2>1. CASE j = Len(q) + 1
    <3>1. i \in 1..Len(q)
      BY <1>1, <1>4, <2>1
    <3>2. QED
      BY <1>1, <2>1, <3>1 DEF Below
  <2>2. CASE j \in 1..Len(q)
    <3>1. i \in 1..Len(q)
      BY <1>1, <1>4, <2>2
    <3>2. QED
      BY <1>1, <1>4, <2>2, <3>1 DEF Below
  <2>3. QED
    BY <1>2, <2>1, <2>2
<1>5. Below(p, l, m + 1)
  BY <1>3, <1>4 DEF Below
<1>6. QED
  BY <1>5 DEF p

\* The oldest frame may go, or be the last one taken.
LEMMA BelowTail ==
  ASSUME NEW q \in Seq(Nat), q # <<>>, NEW l \in Nat, NEW m \in Nat,
         Below(q, l, m)
  PROVE  Below(Tail(q), l, m) /\ Below(Tail(q), Head(q), m) /\ Head(q) \in Nat
<1> DEFINE p == Tail(q)
<1>1. /\ Len(q) \in Nat /\ Len(q) > 0 /\ Len(p) = Len(q) - 1
      /\ Head(q) = q[1] /\ 1 \in 1..Len(q)
      /\ \A i \in 1..Len(p) : i + 1 \in 1..Len(q) /\ p[i] = q[i + 1]
      /\ \A i \in 1..Len(q) : q[i] \in Nat
  <2>1. Len(q) \in Nat /\ Len(q) # 0
    BY LenProperties, EmptySeq
  <2>2. /\ Head(q) = q[1] /\ Len(p) = Len(q) - 1
        /\ \A i \in 1..Len(p) : p[i] = q[i + 1]
    BY <2>1, HeadTailProperties
  <2>3. QED
    BY <2>1, <2>2, ElementOfSeq
<1> HIDE DEF p
<1>2. \A i \in 1..Len(p) : l < p[i] /\ p[i] < m /\ q[1] < p[i]
  <2> SUFFICES ASSUME NEW i \in 1..Len(p)
               PROVE  l < p[i] /\ p[i] < m /\ q[1] < p[i]
    OBVIOUS
  <2>1. i + 1 \in 1..Len(q) /\ p[i] = q[i + 1] /\ 1 < i + 1 /\ 1 \in 1..Len(q)
    BY <1>1
  <2>2. QED
    BY <2>1 DEF Below
<1>3. \A i, j \in 1..Len(p) : i < j => p[i] < p[j]
  <2> SUFFICES ASSUME NEW i \in 1..Len(p), NEW j \in 1..Len(p), i < j
               PROVE  p[i] < p[j]
    OBVIOUS
  <2>1. /\ i + 1 \in 1..Len(q) /\ p[i] = q[i + 1]
        /\ j + 1 \in 1..Len(q) /\ p[j] = q[j + 1] /\ i + 1 < j + 1
    BY <1>1
  <2>2. QED
    BY <2>1 DEF Below
<1>4. Below(p, l, m) /\ Below(p, q[1], m) /\ q[1] \in Nat
  BY <1>1, <1>2, <1>3 DEF Below
<1>5. QED
  BY <1>1, <1>4 DEF p

-----------------------------------------------------------------------------
(* The types *)

LEMMA PublisherInitial == PublisherInit => PublisherIInv
<1> SUFFICES ASSUME PublisherInit PROVE PublisherIInv
  OBVIOUS
<1>1. queue \in [Viewers -> Seq(1..MaxFrames)]
  <2>1. <<>> \in Seq(1..MaxFrames)
    BY EmptySeq
  <2>2. QED
    BY <2>1 DEF PublisherInit
<1>2. \A r \in Viewers : queue[r] = <<>> /\ Len(queue[r]) = 0 /\ last[r] = 0
  BY EmptySeq DEF PublisherInit
<1>3. /\ capture \in [Captures -> CaptureStages]
      /\ \A t \in Captures : capture[t] = "unborn"
  BY DEF PublisherInit, CaptureStages
<1>4. PublisherTypeOK
  <2>1. /\ frameNo \in 0..MaxFrames /\ thread \in 0..MaxCaptures
        /\ frame \in [Captures -> 0..MaxFrames] /\ last \in [Viewers -> 0..MaxFrames]
    BY PublisherAssumption DEF PublisherInit
  <2>2. subscribed \subseteq Viewers /\ gone \subseteq Viewers \ subscribed
    BY DEF PublisherInit
  <2>3. serving \in [Captures -> SUBSET Viewers]
    <3>1. {} \in SUBSET Viewers
      OBVIOUS
    <3>2. QED
      BY <3>1 DEF PublisherInit
  <2>4. \A r \in Viewers :
          queue[r] \in Seq(1..MaxFrames) /\ Len(queue[r]) <= QueueSize
    BY <1>1, <1>2, PublisherAssumption
  <2>5. QED
    BY <1>3, <2>1, <2>2, <2>3, <2>4, PublisherAssumption
       DEF PublisherInit, PublisherTypeOK
<1>5. OneCapture
  <2>1. Below(<<>>, 0, 1)
    BY BelowEmpty
  <2>2. frameNo = 0
    BY DEF PublisherInit
  <2>3. QED
    BY <1>2, <1>3, <2>1, <2>2 DEF OneCapture, Alive
<1>6. QED
  BY <1>1, <1>3, <1>4, <1>5 DEF PublisherIInv, PublisherTyped

LEMMA ControllerTyped ==
  ASSUME PublisherTyped, NEW c \in Controllers, ControllerStep(c)
  PROVE  PublisherTyped'
<1> USE PublisherAssumption DEF PublisherTyped, PublisherTypeOK, CaptureStages
<1>1. CASE Start(c)
  <2>1. /\ revived' \in BOOLEAN
        /\ UNCHANGED <<holder, stopping, subscribed, gone, last, frameNo, queue,
                       frame, serving, full>>
    BY <1>1 DEF Start, captureVars
  <2>2. CASE UNCHANGED <<running, opened, thread, captureVars, revived>>
    BY <2>1, <2>2 DEF captureVars
  <2>3. CASE /\ thread < MaxCaptures /\ running' = TRUE /\ opened' = TRUE
             /\ thread' = thread + 1
             /\ capture' = [capture EXCEPT ![thread'] = "loop"]
    <3>1. thread' \in Captures /\ thread' \in 0..MaxCaptures
      BY <2>3 DEF Captures
    <3>2. /\ capture' \in [Captures -> CaptureStages] /\ capture'[thread'] = "loop"
          /\ \A t \in Captures : t # thread' => capture'[t] = capture[t]
      BY <2>3, <3>1
    <3>3. \A t \in Captures :
            /\ capture'[t] \in {"publish", "deliver", "drop", "again"}
                 => frame'[t] \in 1..frameNo'
            /\ capture'[t] \in {"drop", "again"} => full'[t] \in serving'[t]
            /\ t > thread' => capture'[t] = "unborn"
      BY <2>1, <2>3, <3>1, <3>2 DEF Captures
    <3>4. QED
      BY <2>1, <2>3, <3>1, <3>2, <3>3
  <2>4. QED
    BY <1>1, <2>2, <2>3 DEF Start
<1>2. CASE Stop(c)
  BY <1>2 DEF Stop, captureVars
<1>3. CASE JoinEnds(c)
  BY <1>3 DEF JoinEnds, captureVars
<1>4. CASE Close(c)
  <2>1. /\ opened' = FALSE /\ holder' = Nobody
        /\ stopping' = [stopping EXCEPT ![c] = "idle"]
        /\ UNCHANGED <<revived, subscribed, gone, last, running, frameNo, thread,
                       capture, frame, serving, full>>
    BY <1>4 DEF Close, captureVars
  <2>2. /\ queue' \in [Viewers -> Seq(1..MaxFrames)]
        /\ \A r \in Viewers : Len(queue'[r]) <= QueueSize
    <3>1. queue' = [r \in Viewers |-> IF r \in subscribed THEN <<>> ELSE queue[r]]
      BY <1>4 DEF Close
    <3>2. \A r \in Viewers : queue'[r] = <<>> \/ queue'[r] = queue[r]
      BY <3>1
    <3>3. <<>> \in Seq(1..MaxFrames) /\ Len(<<>>) = 0
      BY EmptySeq
    <3>4. ASSUME NEW r \in Viewers
          PROVE  queue'[r] \in Seq(1..MaxFrames) /\ Len(queue'[r]) <= QueueSize
      <4>1. CASE queue'[r] = <<>>
        <5>1. queue'[r] \in Seq(1..MaxFrames) /\ Len(queue'[r]) = 0
          BY <3>3, <4>1, Zenon
        <5>2. QED
          BY <5>1
      <4>2. CASE queue'[r] = queue[r]
        BY <4>2
      <4>3. QED
        BY <3>2, <4>1, <4>2
    <3>5. QED
      BY <3>1, <3>4
  <2>3. QED
    BY <2>1, <2>2
<1>5. QED
  BY <1>1, <1>2, <1>3, <1>4 DEF ControllerStep

\* What a step of a capture thread may do to a queue: no other one changes,
\* and this one stays a sequence of frames no longer than the limit.
LEMMA QueueTyped ==
  ASSUME PublisherTyped, NEW t \in Captures, NEW r \in Viewers,
         frame[t] \in 1..MaxFrames, HasRoom(r),
         queue' = [queue EXCEPT ![r] = IF r \in subscribed THEN Append(@, frame[t])
                                       ELSE @]
  PROVE  /\ queue' \in [Viewers -> Seq(1..MaxFrames)]
         /\ \A v \in Viewers : Len(queue'[v]) <= QueueSize
<1>1. queue[r] \in Seq(1..MaxFrames) /\ Len(queue[r]) \in Nat
  BY LenProperties DEF PublisherTyped
<1>2. /\ Append(queue[r], frame[t]) \in Seq(1..MaxFrames)
      /\ Len(Append(queue[r], frame[t])) = Len(queue[r]) + 1
  BY <1>1, AppendProperties
<1>3. /\ queue'[r] \in Seq(1..MaxFrames) /\ Len(queue'[r]) <= QueueSize
      /\ \A v \in Viewers : v # r => queue'[v] = queue[v]
      /\ DOMAIN queue' = Viewers
  <2>1. /\ queue'[r] = IF r \in subscribed THEN Append(queue[r], frame[t])
                                           ELSE queue[r]
        /\ \A v \in Viewers : v # r => queue'[v] = queue[v]
        /\ DOMAIN queue' = Viewers
    BY DEF PublisherTyped
  <2>2. CASE r \in subscribed
    BY <1>1, <1>2, <2>1, <2>2, PublisherAssumption DEF HasRoom
  <2>3. CASE r \notin subscribed
    BY <1>1, <2>1, <2>3 DEF PublisherTyped, PublisherTypeOK
  <2>4. QED
    BY <2>1, <2>2, <2>3
<1>4. queue' \in [Viewers -> Seq(1..MaxFrames)]
  BY <1>3 DEF PublisherTyped
<1>5. QED
  BY <1>3, <1>4 DEF PublisherTyped, PublisherTypeOK

LEMMA TailTyped ==
  ASSUME PublisherTyped, NEW r \in Viewers, queue[r] # <<>>,
         queue' = [queue EXCEPT ![r] = Tail(@)]
  PROVE  /\ queue' \in [Viewers -> Seq(1..MaxFrames)]
         /\ \A v \in Viewers : Len(queue'[v]) <= QueueSize
         /\ Head(queue[r]) \in 1..MaxFrames
<1>1. queue[r] \in Seq(1..MaxFrames) /\ Len(queue[r]) \in Nat
  BY LenProperties DEF PublisherTyped
<1>2. /\ Tail(queue[r]) \in Seq(1..MaxFrames)
      /\ Len(Tail(queue[r])) = Len(queue[r]) - 1
      /\ Head(queue[r]) \in 1..MaxFrames
  BY <1>1, HeadTailProperties
<1>3. queue' \in [Viewers -> Seq(1..MaxFrames)]
  BY <1>2 DEF PublisherTyped
<1>4. ASSUME NEW v \in Viewers PROVE Len(queue'[v]) <= QueueSize
  <2>1. CASE v = r
    BY <1>1, <1>2, <2>1, PublisherAssumption DEF PublisherTyped, PublisherTypeOK
  <2>2. CASE v # r
    BY <2>2 DEF PublisherTyped, PublisherTypeOK
  <2>3. QED
    BY <2>1, <2>2
<1>5. QED
  BY <1>2, <1>3, <1>4

LEMMA SkipTyped ==
  ASSUME PublisherTyped, NEW t \in Captures, Skip(t), full' = full,
         capture[t] \in {"drop", "again"},
         UNCHANGED <<clientVars, running, opened, frameNo, thread, frame>>
  PROVE  PublisherTyped'
  BY PublisherAssumption
     DEF PublisherTyped, PublisherTypeOK, CaptureStages, Skip, Pass, clientVars

LEMMA CaptureTyped ==
  ASSUME PublisherTyped, NEW t \in Captures, CaptureStep(t)
  PROVE  PublisherTyped'
<1> USE PublisherAssumption
    DEF PublisherTyped, PublisherTypeOK, CaptureStages, clientVars, Pass
<1>1. CASE CheckRunning(t)
  BY <1>1 DEF CheckRunning, Captures
<1>2. CASE ReadFails(t)
  BY <1>2 DEF ReadFails, Captures
<1>3. CASE ReadFrame(t)
  BY <1>3 DEF ReadFrame, Captures
<1>4. CASE Publish(t)
  BY <1>4 DEF Publish, Captures
<1>5. ASSUME NEW r \in Viewers, Deliver(t, r) PROVE PublisherTyped'
  <2>1. /\ capture[t] = "deliver" /\ r \in serving[t]
        /\ frame[t] \in 1..MaxFrames /\ t <= thread
        /\ UNCHANGED <<clientVars, running, opened, frameNo, thread, frame>>
    BY <1>5 DEF Deliver, Captures
  <2>2. CASE HasRoom(r)
    <3>1. /\ queue' = [queue EXCEPT ![r] = IF r \in subscribed
                                          THEN Append(@, frame[t]) ELSE @]
          /\ serving' = [serving EXCEPT ![t] = serving[t] \ {r}]
          /\ UNCHANGED <<capture, full>>
      BY <1>5, <2>2 DEF Deliver, Enqueue
    <3>2. /\ queue' \in [Viewers -> Seq(1..MaxFrames)]
          /\ \A v \in Viewers : Len(queue'[v]) <= QueueSize
      BY <2>1, <2>2, <3>1, QueueTyped
    <3>3. serving' \in [Captures -> SUBSET Viewers]
      BY <3>1
    <3>4. \A u \in Captures :
            capture'[u] \in {"drop", "again"} => full'[u] \in serving'[u]
      BY <2>1, <3>1
    <3>5. QED
      BY <2>1, <3>1, <3>2, <3>3, <3>4
  <2>3. CASE ~HasRoom(r)
    <3>1. /\ capture' = [capture EXCEPT ![t] = "drop"]
          /\ full' = [full EXCEPT ![t] = r] /\ UNCHANGED <<queue, serving>>
      BY <1>5, <2>3 DEF Deliver
    <3>2. QED
      BY <2>1, <3>1 DEF Captures
  <2>4. QED
    BY <2>2, <2>3
<1>6. CASE DropOldest(t)
  <2>1. /\ capture[t] = "drop" /\ full[t] \in serving[t] /\ full[t] \in Viewers
        /\ t <= thread
        /\ UNCHANGED <<clientVars, running, opened, frameNo, thread, frame, full>>
    BY <1>6 DEF DropOldest, Captures
  <2>2. CASE queue[full[t]] = <<>>
    <3>1. Skip(t)
      BY <1>6, <2>2 DEF DropOldest
    <3>2. QED
      BY <2>1, <3>1, SkipTyped
  <2>3. CASE queue[full[t]] # <<>>
    <3>1. /\ queue' = [queue EXCEPT ![full[t]] = Tail(@)]
          /\ capture' = [capture EXCEPT ![t] = "again"] /\ UNCHANGED serving
      BY <1>6, <2>3 DEF DropOldest
    <3>2. /\ queue' \in [Viewers -> Seq(1..MaxFrames)]
          /\ \A v \in Viewers : Len(queue'[v]) <= QueueSize
      BY <2>1, <2>3, <3>1, TailTyped
    <3>3. QED
      BY <2>1, <3>1, <3>2
  <2>4. QED
    BY <2>2, <2>3
<1>7. CASE DeliverAgain(t)
  <2>1. /\ capture[t] = "again" /\ full[t] \in serving[t] /\ full[t] \in Viewers
        /\ t <= thread /\ frame[t] \in 1..MaxFrames
        /\ UNCHANGED <<clientVars, running, opened, frameNo, thread, frame, full>>
    BY <1>7 DEF DeliverAgain, Captures
  <2>2. CASE HasRoom(full[t])
    <3>1. /\ queue' = [queue EXCEPT ![full[t]] = IF full[t] \in subscribed
                                                THEN Append(@, frame[t]) ELSE @]
          /\ serving' = [serving EXCEPT ![t] = serving[t] \ {full[t]}]
          /\ capture' = [capture EXCEPT ![t] = "deliver"]
      BY <1>7, <2>2 DEF DeliverAgain, Enqueue
    <3>2. /\ queue' \in [Viewers -> Seq(1..MaxFrames)]
          /\ \A v \in Viewers : Len(queue'[v]) <= QueueSize
      BY <2>1, <2>2, <3>1, QueueTyped
    <3>3. serving' \in [Captures -> SUBSET Viewers]
      BY <3>1
    <3>4. \A u \in Captures :
            capture'[u] \in {"drop", "again"} => full'[u] \in serving'[u]
      BY <2>1, <3>1
    <3>5. QED
      BY <2>1, <3>1, <3>2, <3>3, <3>4
  <2>3. CASE ~HasRoom(full[t])
    <3>1. Skip(t)
      BY <1>7, <2>3 DEF DeliverAgain
    <3>2. QED
      BY <2>1, <3>1, SkipTyped
  <2>4. QED
    BY <2>2, <2>3
<1>8. CASE Delivered(t)
  BY <1>8 DEF Delivered, Captures
<1>9. QED
  BY <1>1, <1>2, <1>3, <1>4, <1>5, <1>6, <1>7, <1>8 DEF CaptureStep

LEMMA ViewerTyped ==
  ASSUME PublisherTyped, NEW r \in Viewers,
         Subscribe(r) \/ Unsubscribe(r) \/ GetFrame(r)
  PROVE  PublisherTyped'
<1> USE PublisherAssumption
    DEF PublisherTyped, PublisherTypeOK, CaptureStages, captureVars
<1>1. CASE Subscribe(r)
  BY <1>1 DEF Subscribe
<1>2. CASE Unsubscribe(r)
  <2>1. <<>> \in Seq(1..MaxFrames) /\ Len(<<>>) = 0
    BY EmptySeq
  <2>2. /\ queue' \in [Viewers -> Seq(1..MaxFrames)]
        /\ \A v \in Viewers : Len(queue'[v]) <= QueueSize
    BY <1>2, <2>1 DEF Unsubscribe
  <2>3. subscribed' \subseteq Viewers /\ gone' \subseteq Viewers \ subscribed'
    BY <1>2 DEF Unsubscribe
  <2>4. QED
    BY <1>2, <2>2, <2>3 DEF Unsubscribe
<1>3. CASE GetFrame(r)
  <2>1. /\ queue' \in [Viewers -> Seq(1..MaxFrames)]
        /\ \A v \in Viewers : Len(queue'[v]) <= QueueSize
        /\ Head(queue[r]) \in 1..MaxFrames
    BY <1>3, TailTyped DEF GetFrame
  <2>2. last' \in [Viewers -> 0..MaxFrames]
    BY <1>3, <2>1 DEF GetFrame
  <2>3. QED
    BY <1>3, <2>1, <2>2 DEF GetFrame
<1>4. QED
  BY <1>1, <1>2, <1>3

-----------------------------------------------------------------------------
(* The order *)

Publishing == {"publish", "deliver", "drop", "again"}
Delivering == {"deliver", "drop", "again"}

\* Queues only lose frames, oldest first, and no thread begins to publish.
Shrinks ==
  /\ UNCHANGED <<frame, frameNo, thread>>
  /\ \A r \in Viewers, m \in Nat :
       Below(queue[r], last[r], m) => Below(queue'[r], last'[r], m)
  /\ \A t \in Captures :
       /\ capture'[t] \notin {"unborn", "dead"} => Alive(t)
       /\ capture'[t] \in Publishing => capture[t] \in Publishing
       /\ capture'[t] = "publish" => capture[t] = "publish"
       /\ capture'[t] \in Delivering =>
            capture[t] \in Delivering /\ serving'[t] \subseteq serving[t]

LEMMA ShrinkingKeeps ==
  ASSUME PublisherTyped, PublisherTyped', OneCapture, Shrinks
  PROVE  OneCapture'
<1>1. frameNo \in Nat /\ frameNo + 1 \in Nat
  BY PublisherAssumption DEF PublisherTyped, PublisherTypeOK
<1>2. \A r \in Viewers : Below(queue[r], last[r], frameNo + 1)'
  BY <1>1 DEF OneCapture, Shrinks
<1>3. \A t \in Captures : Alive(t)' => t = thread'
  BY DEF OneCapture, Shrinks, Alive
<1>4. ASSUME NEW t \in Captures, capture'[t] \in Publishing
      PROVE  frame'[t] = frameNo'
  BY <1>4 DEF OneCapture, Shrinks, Publishing
<1>5. ASSUME NEW t \in Captures, capture'[t] = "publish", NEW r \in Viewers
      PROVE  Below(queue[r], last[r], frameNo)'
  BY <1>1, <1>5 DEF OneCapture, Shrinks
<1>6. ASSUME NEW t \in Captures, capture'[t] \in Delivering,
             NEW r \in serving'[t]
      PROVE  Below(queue[r], last[r], frameNo)'
  <2>1. r \in serving[t] /\ r \in Viewers /\ capture[t] \in Delivering
    BY <1>6 DEF Shrinks, PublisherTyped, PublisherTypeOK
  <2>2. Below(queue[r], last[r], frameNo)
    BY <2>1 DEF OneCapture, Delivering
  <2>3. QED
    BY <1>1, <2>1, <2>2 DEF Shrinks
<1>7. QED
  BY <1>2, <1>3, <1>4, <1>5, <1>6 DEF OneCapture, Publishing, Delivering

\* An emptied queue is in order.
LEMMA EmptiedShrinks ==
  ASSUME PublisherTyped, NEW r \in Viewers, NEW m \in Nat,
         Below(queue[r], last[r], m)
  PROVE  Below(<<>>, last[r], m)
<1>1. last[r] \in Nat /\ last[r] < m
  BY DEF PublisherTyped, PublisherTypeOK, Below
<1>2. QED
  BY <1>1, BelowEmpty

LEMMA QueuesAreNat ==
  ASSUME PublisherTyped, NEW r \in Viewers
  PROVE  queue[r] \in Seq(Nat) /\ last[r] \in Nat
<1>1. 1..MaxFrames \subseteq Nat /\ queue[r] \in Seq(1..MaxFrames)
  BY DEF PublisherTyped
<1>2. queue[r] \in Seq(Nat)
  BY <1>1, SeqMonotonic
<1>3. QED
  BY <1>2 DEF PublisherTyped, PublisherTypeOK

LEMMA ControllerKeeps ==
  ASSUME PublisherTyped, PublisherTyped', ~revived', OneCapture,
         NEW c \in Controllers, ControllerStep(c)
  PROVE  OneCapture'
<1>1. CASE Start(c)
  <2>1. CASE UNCHANGED <<running, opened, thread, captureVars, revived>>
    BY <1>1, <2>1, ShrinkingKeeps
       DEF Start, Shrinks, captureVars, Publishing, Delivering, Alive
  <2>2. CASE /\ revived' = (revived \/ \E t \in Captures : Alive(t))
             /\ thread < MaxCaptures /\ thread' = thread + 1
             /\ capture' = [capture EXCEPT ![thread'] = "loop"]
             /\ UNCHANGED <<frame, serving, full>>
    <3>1. \A t \in Captures : ~Alive(t)
      BY <2>2
    <3>2. thread' \in Captures
      BY <2>2 DEF Captures, PublisherTyped, PublisherTypeOK
    <3>3. \A t \in Captures :
            IF t = thread' THEN capture'[t] = "loop"
                           ELSE capture'[t] \in {"unborn", "dead"}
      BY <2>2, <3>1, <3>2 DEF Alive, PublisherTyped, PublisherTypeOK
    <3>4. UNCHANGED <<queue, last, frameNo>>
      BY <1>1 DEF Start
    <3>5. \A r \in Viewers : Below(queue[r], last[r], frameNo + 1)'
      BY <3>4 DEF OneCapture
    <3>6. QED
      BY <3>3, <3>5 DEF OneCapture, Alive
  <2>3. QED
    BY <1>1, <2>1, <2>2 DEF Start
<1>2. CASE Stop(c)
  BY <1>2, ShrinkingKeeps
     DEF Stop, Shrinks, captureVars, Publishing, Delivering, Alive
<1>3. CASE JoinEnds(c)
  BY <1>3, ShrinkingKeeps
     DEF JoinEnds, Shrinks, captureVars, Publishing, Delivering, Alive
<1>4. CASE Close(c)
  <2>1. UNCHANGED <<last, frameNo, thread, capture, frame, serving, full>>
    BY <1>4 DEF Close, captureVars
  <2>2. \A r \in Viewers : queue'[r] = <<>> \/ queue'[r] = queue[r]
    BY <1>4 DEF Close
  <2>3. \A r \in Viewers, m \in Nat :
          Below(queue[r], last[r], m) => Below(queue'[r], last'[r], m)
    BY <2>1, <2>2, EmptiedShrinks
  <2>4. Shrinks
    BY <2>1, <2>3 DEF Shrinks, Publishing, Delivering, Alive
  <2>5. QED
    BY <2>4, ShrinkingKeeps
<1>5. QED
  BY <1>1, <1>2, <1>3, <1>4 DEF ControllerStep

\* A queue gets the newest frame, from the only thread that publishes.
LEMMA EnqueueKeeps ==
  ASSUME PublisherTyped, PublisherTyped', OneCapture, NEW t \in Captures,
         NEW r \in serving[t], capture[t] \in Delivering,
         Enqueue(t, r, serving[t] \ {r}),
         capture' = [capture EXCEPT ![t] = "deliver"],
         UNCHANGED <<last, frame, frameNo, thread>>
  PROVE  OneCapture'
<1>1. /\ r \in Viewers /\ frameNo \in Nat
      /\ frame[t] = frameNo /\ Below(queue[r], last[r], frameNo)
  BY DEF OneCapture, Delivering, PublisherTyped, PublisherTypeOK
<1>2. /\ \A v \in Viewers : v # r => queue'[v] = queue[v]
      /\ queue'[r] = IF r \in subscribed THEN Append(queue[r], frameNo)
                                         ELSE queue[r]
  BY <1>1 DEF Enqueue, PublisherTyped, PublisherTypeOK
<1>3. Below(queue[r], last[r], frameNo + 1)'
  <2>1. /\ Below(Append(queue[r], frameNo), last[r], frameNo + 1)
        /\ Below(queue[r], last[r], frameNo + 1)
    BY <1>1, QueuesAreNat, BelowAppend DEF OneCapture
  <2>2. QED
    BY <1>2, <2>1
<1>4. \A v \in Viewers : Below(queue[v], last[v], frameNo + 1)'
  BY <1>2, <1>3 DEF OneCapture
<1>5. /\ Alive(t) /\ t = thread
      /\ \A u \in Captures : u # t => ~Alive(u) /\ capture'[u] = capture[u]
  BY DEF Alive, OneCapture, Delivering, PublisherTyped, PublisherTypeOK
<1>6. serving'[t] = serving[t] \ {r} /\ capture'[t] = "deliver"
  BY DEF Enqueue, PublisherTyped, PublisherTypeOK
<1>7. \A v \in serving'[t] : Below(queue[v], last[v], frameNo)'
  <2>1. \A v \in serving'[t] : v \in Viewers /\ v # r /\ v \in serving[t]
    BY <1>6 DEF PublisherTyped, PublisherTypeOK
  <2>2. \A v \in serving[t] : Below(queue[v], last[v], frameNo)
    BY DEF OneCapture, Delivering
  <2>3. QED
    BY <1>2, <2>1, <2>2
<1>8. QED
  BY <1>1, <1>4, <1>5, <1>6, <1>7 DEF OneCapture, Alive

\* The oldest frame of a queue goes.
LEMMA TailShrinks ==
  ASSUME PublisherTyped, NEW r \in Viewers, queue[r] # <<>>,
         queue' = [queue EXCEPT ![r] = Tail(@)],
         \/ last' = last
         \/ last' = [last EXCEPT ![r] = Head(queue[r])]
  PROVE  \A v \in Viewers, m \in Nat :
           Below(queue[v], last[v], m) => Below(queue'[v], last'[v], m)
<1> SUFFICES ASSUME NEW v \in Viewers, NEW m \in Nat,
                    Below(queue[v], last[v], m)
             PROVE  Below(queue'[v], last'[v], m)
  OBVIOUS
<1>1. CASE v # r
  BY <1>1 DEF PublisherTyped, PublisherTypeOK
<1>2. CASE v = r
  <2>1. queue'[r] = Tail(queue[r]) /\ last'[r] \in {last[r], Head(queue[r])}
    BY DEF PublisherTyped, PublisherTypeOK
  <2>2. Below(Tail(queue[r]), last[r], m) /\ Below(Tail(queue[r]), Head(queue[r]), m)
    BY <1>2, QueuesAreNat, BelowTail
  <2>3. QED
    BY <1>2, <2>1, <2>2
<1>3. QED
  BY <1>1, <1>2

LEMMA SkipKeeps ==
  ASSUME PublisherTyped, PublisherTyped', OneCapture, NEW t \in Captures,
         capture[t] \in Delivering, Skip(t),
         UNCHANGED <<last, frame, frameNo, thread>>
  PROVE  OneCapture'
<1>1. Shrinks
  BY DEF Shrinks, Skip, Pass, Delivering, Publishing, Alive, PublisherTyped,
         PublisherTypeOK
<1>2. QED
  BY <1>1, ShrinkingKeeps

LEMMA CaptureKeeps ==
  ASSUME PublisherTyped, PublisherTyped', OneCapture, NEW t \in Captures,
         CaptureStep(t)
  PROVE  OneCapture'
<1>1. frameNo \in Nat /\ capture \in [Captures -> CaptureStages]
  BY DEF PublisherTyped, PublisherTypeOK
<1>2. CASE CheckRunning(t) \/ ReadFails(t) \/ Delivered(t)
  <2>1. Shrinks
    BY <1>1, <1>2 DEF CheckRunning, ReadFails, Delivered, Pass, clientVars,
                      Shrinks, Delivering, Publishing, Alive
  <2>2. QED
    BY <2>1, ShrinkingKeeps
<1>3. CASE ReadFrame(t)
  <2>1. /\ capture[t] = "read" /\ capture' = [capture EXCEPT ![t] = "publish"]
        /\ frameNo' = frameNo + 1 /\ frame' = [frame EXCEPT ![t] = frameNo + 1]
        /\ UNCHANGED <<last, thread, queue>>
    BY <1>3 DEF ReadFrame, Pass, clientVars
  <2>2. /\ \A u \in Captures : u # t =>
             ~Alive(u) /\ capture'[u] = capture[u]
        /\ t = thread /\ capture'[t] = "publish" /\ frame'[t] = frameNo'
    BY <1>1, <2>1 DEF OneCapture, Alive, PublisherTyped, PublisherTypeOK
  <2>3. \A r \in Viewers : Below(queue[r], last[r], frameNo + 1 + 1)
    BY <1>1, QueuesAreNat, BelowGrows DEF OneCapture
  <2>4. \A r \in Viewers : /\ Below(queue[r], last[r], frameNo)'
                           /\ Below(queue[r], last[r], frameNo + 1)'
    BY <2>1, <2>3 DEF OneCapture
  <2>5. QED
    BY <2>1, <2>2, <2>4 DEF OneCapture, Alive
<1>4. CASE Publish(t)
  <2>1. /\ capture[t] = "publish" /\ capture' = [capture EXCEPT ![t] = "deliver"]
        /\ serving'[t] \subseteq Viewers
        /\ UNCHANGED <<last, frameNo, thread, frame, queue>>
    BY <1>4 DEF Publish, Pass, clientVars, PublisherTyped, PublisherTypeOK
  <2>2. /\ \A u \in Captures : u # t =>
             ~Alive(u) /\ capture'[u] = capture[u]
        /\ t = thread /\ capture'[t] = "deliver" /\ frame'[t] = frameNo'
    BY <1>1, <2>1 DEF OneCapture, Alive
  <2>3. \A r \in Viewers : /\ Below(queue[r], last[r], frameNo)'
                           /\ Below(queue[r], last[r], frameNo + 1)'
    BY <2>1 DEF OneCapture
  <2>4. QED
    BY <2>1, <2>2, <2>3 DEF OneCapture, Alive
<1>5. ASSUME NEW r \in Viewers, Deliver(t, r) PROVE OneCapture'
  <2>1. /\ capture[t] = "deliver" /\ r \in serving[t]
        /\ UNCHANGED <<last, frame, frameNo, thread>>
    BY <1>5 DEF Deliver, clientVars
  <2>2. CASE HasRoom(r)
    <3>1. /\ Enqueue(t, r, serving[t] \ {r})
          /\ capture' = [capture EXCEPT ![t] = "deliver"]
      BY <1>1, <1>5, <2>1, <2>2 DEF Deliver
    <3>2. QED
      BY <2>1, <3>1, EnqueueKeeps DEF Delivering
  <2>3. CASE ~HasRoom(r)
    <3>1. capture' = [capture EXCEPT ![t] = "drop"] /\ UNCHANGED <<queue, serving>>
      BY <1>5, <2>3 DEF Deliver, Pass
    <3>2. Shrinks
      BY <1>1, <2>1, <3>1 DEF Shrinks, Delivering, Publishing, Alive
    <3>3. QED
      BY <3>2, ShrinkingKeeps
  <2>4. QED
    BY <2>2, <2>3
<1>6. CASE DropOldest(t)
  <2>1. /\ capture[t] = "drop" /\ full[t] \in Viewers
        /\ UNCHANGED <<last, frame, frameNo, thread>>
    BY <1>6 DEF DropOldest, clientVars, PublisherTyped, PublisherTypeOK
  <2>2. CASE queue[full[t]] = <<>>
    BY <1>6, <2>1, <2>2, SkipKeeps DEF DropOldest, Delivering
  <2>3. CASE queue[full[t]] # <<>>
    <3>1. /\ queue' = [queue EXCEPT ![full[t]] = Tail(@)]
          /\ capture' = [capture EXCEPT ![t] = "again"] /\ serving' = serving
      BY <1>6, <2>3 DEF DropOldest, Pass
    <3>2. \A v \in Viewers, m \in Nat :
            Below(queue[v], last[v], m) => Below(queue'[v], last'[v], m)
      BY <2>1, <2>3, <3>1, TailShrinks
    <3>3. Shrinks
      BY <1>1, <2>1, <3>1, <3>2 DEF Shrinks, Delivering, Publishing, Alive
    <3>4. QED
      BY <3>3, ShrinkingKeeps
  <2>4. QED
    BY <2>2, <2>3
<1>7. CASE DeliverAgain(t)
  <2>1. /\ capture[t] = "again" /\ full[t] \in serving[t]
        /\ UNCHANGED <<last, frame, frameNo, thread>>
    BY <1>7 DEF DeliverAgain, clientVars, PublisherTyped
  <2>2. CASE HasRoom(full[t])
    <3>1. /\ Enqueue(t, full[t], serving[t] \ {full[t]})
          /\ capture' = [capture EXCEPT ![t] = "deliver"]
      BY <1>7, <2>2 DEF DeliverAgain, Pass
    <3>2. QED
      BY <2>1, <3>1, EnqueueKeeps DEF Delivering
  <2>3. CASE ~HasRoom(full[t])
    BY <1>7, <2>1, <2>3, SkipKeeps DEF DeliverAgain, Delivering
  <2>4. QED
    BY <2>2, <2>3
<1>8. QED
  BY <1>2, <1>3, <1>4, <1>5, <1>6, <1>7 DEF CaptureStep

LEMMA ViewerKeeps ==
  ASSUME PublisherTyped, PublisherTyped', OneCapture, NEW r \in Viewers,
         Subscribe(r) \/ Unsubscribe(r) \/ GetFrame(r)
  PROVE  OneCapture'
<1>1. UNCHANGED <<frame, frameNo, thread, capture, serving>>
  BY DEF Subscribe, Unsubscribe, GetFrame, captureVars
<1>2. \A v \in Viewers, m \in Nat :
        Below(queue[v], last[v], m) => Below(queue'[v], last'[v], m)
  <2>1. CASE Subscribe(r)
    BY <2>1 DEF Subscribe
  <2>2. CASE Unsubscribe(r)
    <3>1. \A v \in Viewers : queue'[v] = <<>> \/ queue'[v] = queue[v]
      BY <2>2 DEF Unsubscribe, PublisherTyped
    <3>2. QED
      BY <2>2, <3>1, EmptiedShrinks DEF Unsubscribe
  <2>3. CASE GetFrame(r)
    BY <2>3, TailShrinks DEF GetFrame
  <2>4. QED
    BY <2>1, <2>2, <2>3
<1>3. Shrinks
  BY <1>1, <1>2 DEF Shrinks, Alive
<1>4. QED
  BY <1>3, ShrinkingKeeps

LEMMA PublisherStepKeeps ==
  PublisherIInv /\ [PublisherNext]_publisherVars => PublisherIInv'
<1> SUFFICES ASSUME PublisherIInv, [PublisherNext]_publisherVars
             PROVE  PublisherIInv'
  OBVIOUS
<1>1. CASE UNCHANGED publisherVars
  <2>1. UNCHANGED <<holder, running, opened, frameNo, thread, capture, frame,
                    serving, full, queue, subscribed, gone, last, stopping, revived>>
    BY <1>1 DEF publisherVars, clientVars, captureVars
  <2>2. PublisherTyped'
    BY <2>1 DEF PublisherIInv, PublisherTyped, PublisherTypeOK
  <2>3. OneCapture => OneCapture'
    BY <2>1 DEF OneCapture, Alive
  <2>4. QED
    BY <2>1, <2>2, <2>3 DEF PublisherIInv
<1>2. CASE PublisherNext
  <2>1. PublisherTyped'
    BY <1>2, ControllerTyped, CaptureTyped, ViewerTyped
       DEF PublisherNext, PublisherIInv
  <2>2. revived => revived'
    BY <1>2 DEF PublisherNext, ControllerStep, Start, Stop, JoinEnds, Close,
                CaptureStep, CheckRunning, ReadFails, ReadFrame, Publish, Deliver,
                DropOldest, DeliverAgain, Delivered, clientVars,
                Subscribe, Unsubscribe, GetFrame
  <2>3. CASE ~revived'
    BY <1>2, <2>1, <2>2, <2>3, ControllerKeeps, CaptureKeeps, ViewerKeeps
       DEF PublisherNext, PublisherIInv
  <2>4. QED
    BY <2>1, <2>3 DEF PublisherIInv
<1>3. QED
  BY <1>1, <1>2

\* In every reachable state.
LEMMA PublisherInductive ==
  PublisherInit /\ [][PublisherNext]_publisherVars => []PublisherIInv
  BY PublisherInitial, PublisherStepKeeps, PTL

\* As long as no start has found a capture thread alive, each subscriber takes
\* its frames in the order they were read, for any number of subscribers,
\* callers and frames and any queue size, although the oldest frames are
\* dropped and stop empties the queues meanwhile (_publish_frame, stop).
THEOREM FramesComeInOrder == PublisherSpec => []FramesInOrder
<1>1. PublisherIInv => FramesInOrder
  <2> SUFFICES ASSUME PublisherIInv, OneCapture, NEW r \in Viewers,
                      NEW i \in 1..Len(queue[r])
               PROVE  LET taken == <<last[r]>> \o queue[r]
                      IN  taken[i] < taken[i + 1]
    BY DEF PublisherIInv, FramesInOrder
  <2> DEFINE taken == <<last[r]>> \o queue[r]
  <2>1. queue[r] \in Seq(Nat) /\ last[r] \in Nat
    BY QueuesAreNat DEF PublisherIInv
  <2>2. /\ <<last[r]>> \in Seq(Nat) /\ Len(<<last[r]>>) = 1
        /\ <<last[r]>>[1] = last[r] /\ Len(queue[r]) \in Nat
    BY <2>1, LenProperties
  <2>3. /\ Len(taken) = 1 + Len(queue[r])
        /\ \A k \in 1..Len(taken) :
             taken[k] = IF k <= 1 THEN <<last[r]>>[k] ELSE queue[r][k - 1]
    BY <2>1, <2>2, ConcatProperties
  <2>4. taken[1] = last[r] /\ \A k \in 1..Len(queue[r]) : taken[k + 1] = queue[r][k]
    BY <2>2, <2>3
  <2> HIDE DEF taken
  <2>5. Below(queue[r], last[r], frameNo + 1)
    BY DEF OneCapture
  <2>6. taken[i] < taken[i + 1]
    <3>1. CASE i = 1
      BY <2>4, <2>5, <3>1 DEF Below
    <3>2. CASE i # 1
      <4>1. i - 1 \in 1..Len(queue[r]) /\ i - 1 < i
        BY <2>2, <3>2
      <4>2. taken[i] = queue[r][i - 1] /\ taken[i + 1] = queue[r][i]
        BY <2>2, <2>4, <4>1
      <4>3. QED
        BY <2>5, <4>1, <4>2 DEF Below
    <3>3. QED
      BY <3>1, <3>2
  <2>7. QED
    BY <2>6 DEF taken
<1>2. QED
  BY <1>1, PublisherInductive, PTL DEF PublisherSpec

-----------------------------------------------------------------------------
(***************************************************************************)
(* The camera publishers                                                   *)
(***************************************************************************)

\* Only the newest publisher can be the global one, and a publisher that does
\* not exist yet has no subscribers; a feed on its way has a publisher.
SwitchIInv ==
  /\ SwitchTypeOK
  /\ current \in {None, made}
  /\ \A p \in Instances : p > made => subscribers[p] = {}
  /\ \A f \in Feeds : feed[f] # "idle" => uses[f] # None
  /\ NoDeadSubscribers

\* What a caller of get_camera_publisher gets.
LEMMA GetMakes ==
  ASSUME SwitchIInv, Get
  PROVE  /\ made' \in 0..MaxInstances /\ made <= made'
         /\ current' \in 1..made' /\ current' = made' /\ current' \in Instances
         /\ origin' \in [Instances -> Sources]
         /\ \/ current # None /\ UNCHANGED <<current, made, origin>>
            \/ current = None /\ made' = made + 1
<1>1. /\ made \in 0..MaxInstances /\ current \in {None, made}
      /\ source \in Sources /\ origin \in [Instances -> Sources]
  BY DEF SwitchIInv, SwitchTypeOK
<1>2. CASE current # None
  BY <1>1, <1>2, SwitchAssumption DEF Get, None, Instances
<1>3. CASE current = None
  BY <1>1, <1>3, SwitchAssumption DEF Get, None, Instances
<1>4. QED
  BY <1>2, <1>3

\* A getter whose caller registers nothing keeps the invariant.
LEMMA GetKeeps ==
  ASSUME SwitchIInv, Get,
         UNCHANGED <<source, subscribers, watched>>,
         capturing' \subseteq 1..made',
         kept' \in 0..made', uses' \in [Feeds -> 0..made'],
         feed' \in [Feeds -> {"idle", "start", "subscribe", "stream", "leave"}],
         \A f \in Feeds : feed'[f] # "idle" => uses'[f] # None,
         \A f \in Feeds : \/ feed[f] \notin {"stream", "leave"}
                          \/ feed'[f] = feed[f] /\ uses'[f] = uses[f]
  PROVE  SwitchIInv'
<1>1. SwitchTypeOK'
  BY GetMakes DEF SwitchIInv, SwitchTypeOK
<1>2. NoDeadSubscribers'
  <2>1. CASE current # None
    BY <2>1, GetMakes, SwitchAssumption
       DEF SwitchIInv, SwitchTypeOK, NoDeadSubscribers, Instances
  <2>2. CASE current = None
    <3>1. subscribers[current'] = {}
      BY <2>2, GetMakes, SwitchAssumption DEF SwitchIInv, SwitchTypeOK
    <3>2. QED
      BY <3>1 DEF NoDeadSubscribers
  <2>3. QED
    BY <2>1, <2>2
<1>3. \A p \in Instances : p > made' => subscribers'[p] = {}
  BY GetMakes DEF SwitchIInv, SwitchTypeOK, Instances
<1>4. QED
  BY <1>1, <1>2, <1>3, GetMakes DEF SwitchIInv

LEMMA SwitchInitial == SwitchInit => SwitchIInv
  BY SwitchAssumption
     DEF SwitchInit, SwitchIInv, SwitchTypeOK, NoDeadSubscribers, None,
         Instances, Sources

LEMMA EndpointsKeep ==
  ASSUME SwitchIInv,
         SwitchSource \/ CheckAvailability \/ CaptureFrame \/ Initialize
         \/ AnalyzeFrame
  PROVE  SwitchIInv'
<1> USE SwitchAssumption DEF None, EnsureStarted
<1>1. CASE SwitchSource
  BY <1>1 DEF SwitchSource, SwitchIInv, SwitchTypeOK, NoDeadSubscribers
<1>2. CASE CheckAvailability
  <2>1. Get /\ UNCHANGED <<source, capturing, subscribers, kept, watched, feed, uses>>
    BY <1>2 DEF CheckAvailability
  <2>2. /\ capturing' \subseteq 1..made' /\ kept' \in 0..made'
        /\ uses' \in [Feeds -> 0..made']
    BY <2>1, GetMakes DEF SwitchIInv, SwitchTypeOK
  <2>3. QED
    BY <2>1, <2>2, GetKeeps DEF SwitchIInv, SwitchTypeOK
<1>3. CASE CaptureFrame
  <2>1. /\ Get /\ EnsureStarted(current')
        /\ UNCHANGED <<source, subscribers, kept, watched, feed, uses>>
    BY <1>3 DEF CaptureFrame
  <2>2. /\ capturing' \subseteq 1..made' /\ kept' \in 0..made'
        /\ uses' \in [Feeds -> 0..made']
    BY <2>1, GetMakes DEF SwitchIInv, SwitchTypeOK
  <2>3. QED
    BY <2>1, <2>2, GetKeeps DEF SwitchIInv, SwitchTypeOK
<1>4. CASE Initialize
  <2>1. /\ Get /\ EnsureStarted(current') /\ kept' = current'
        /\ UNCHANGED <<source, subscribers, watched, feed, uses>>
    BY <1>4 DEF Initialize
  <2>2. /\ capturing' \subseteq 1..made' /\ kept' \in 0..made'
        /\ uses' \in [Feeds -> 0..made']
    BY <2>1, GetMakes DEF SwitchIInv, SwitchTypeOK
  <2>3. QED
    BY <2>1, <2>2, GetKeeps DEF SwitchIInv, SwitchTypeOK
<1>5. CASE AnalyzeFrame
  BY <1>5 DEF AnalyzeFrame, SwitchIInv, SwitchTypeOK, NoDeadSubscribers
<1>6. QED
  BY <1>1, <1>2, <1>3, <1>4, <1>5

LEMMA MonitoringKeeps ==
  ASSUME SwitchIInv, StartMonitoring \/ StopMonitoring
  PROVE  SwitchIInv'
<1> USE SwitchAssumption DEF None
<1>1. CASE StartMonitoring
  <2>1. /\ kept \in 1..made /\ EnsureStarted(kept)
        /\ Get /\ watched' = current'
        /\ subscribers' =
             [subscribers EXCEPT ![current'] = @ \union {Loop}]
        /\ UNCHANGED <<source, kept, feed, uses>>
    BY <1>1 DEF StartMonitoring, SwitchIInv, SwitchTypeOK
  <2>2. /\ subscribers' \in [Instances -> SUBSET (Feeds \union {Loop})]
        /\ subscribers'[current'] = subscribers[current'] \union {Loop}
        /\ \A p \in Instances : p # current' => subscribers'[p] = subscribers[p]
    BY <2>1, GetMakes DEF SwitchIInv, SwitchTypeOK
  <2>3. SwitchTypeOK'
    BY <2>1, <2>2, GetMakes DEF SwitchIInv, SwitchTypeOK, EnsureStarted
  <2>4. \A f \in subscribers[current'] : f # Loop =>
          uses[f] = current' /\ feed[f] \in {"stream", "leave"}
    <3>1. CASE current # None
      BY <2>1, <3>1, GetMakes DEF SwitchIInv, NoDeadSubscribers
    <3>2. CASE current = None
      BY <2>1, <3>2, GetMakes DEF SwitchIInv, SwitchTypeOK
    <3>3. QED
      BY <3>1, <3>2
  <2>5. NoDeadSubscribers'
    BY <2>1, <2>2, <2>4 DEF NoDeadSubscribers
  <2>6. \A p \in Instances : p > made' => subscribers'[p] = {}
    BY <2>1, <2>2, GetMakes DEF SwitchIInv, SwitchTypeOK, Instances
  <2>7. QED
    BY <2>1, <2>3, <2>5, <2>6, GetMakes DEF SwitchIInv
<1>2. CASE StopMonitoring
  <2>1. /\ watched \in Instances /\ watched' = None
        /\ subscribers' = [subscribers EXCEPT ![watched] = @ \ {Loop}]
        /\ UNCHANGED <<source, current, made, origin, capturing, kept, feed, uses>>
    BY <1>2 DEF StopMonitoring, SwitchIInv, SwitchTypeOK, Instances
  <2>2. SwitchTypeOK'
    BY <2>1 DEF SwitchIInv, SwitchTypeOK
  <2>3. NoDeadSubscribers'
    BY <2>1 DEF SwitchIInv, SwitchTypeOK, NoDeadSubscribers, Instances
  <2>4. \A p \in Instances : p > made' => subscribers'[p] = {}
    BY <2>1 DEF SwitchIInv, SwitchTypeOK, Instances
  <2>5. QED
    BY <2>1, <2>2, <2>3, <2>4 DEF SwitchIInv
<1>3. QED
  BY <1>1, <1>2

LEMMA FeedKeeps ==
  ASSUME SwitchIInv, NEW f \in Feeds,
         OpenFeed(f) \/ StartFeed(f) \/ SubscribeFeed(f) \/ LeaveFeed(f)
         \/ CloseFeed(f)
  PROVE  SwitchIInv'
<1> USE SwitchAssumption DEF None, At
<1>1. CASE OpenFeed(f)
  <2>1. /\ Get /\ feed[f] = "idle" /\ feed' = [feed EXCEPT ![f] = "start"]
        /\ uses' = [uses EXCEPT ![f] = current']
        /\ UNCHANGED <<source, capturing, subscribers, kept, watched>>
    BY <1>1 DEF OpenFeed
  <2>2. /\ capturing' \subseteq 1..made' /\ kept' \in 0..made'
        /\ uses' \in [Feeds -> 0..made']
    BY <2>1, GetMakes DEF SwitchIInv, SwitchTypeOK
  <2>3. \A g \in Feeds : \/ feed[g] \notin {"stream", "leave"}
                         \/ feed'[g] = feed[g] /\ uses'[g] = uses[g]
    BY <2>1 DEF SwitchIInv, SwitchTypeOK
  <2>4. /\ feed' \in [Feeds -> {"idle", "start", "subscribe", "stream", "leave"}]
        /\ \A g \in Feeds : feed'[g] # "idle" => uses'[g] # None
    BY <2>1, GetMakes DEF SwitchIInv, SwitchTypeOK
  <2>5. QED
    BY <2>1, <2>2, <2>3, <2>4, GetKeeps
<1>2. CASE StartFeed(f)
  <2>1. /\ feed[f] = "start" /\ uses[f] \in 1..made /\ EnsureStarted(uses[f])
        /\ \/ feed' = [feed EXCEPT ![f] = "subscribe"] /\ uses' = uses
           \/ /\ feed' = [feed EXCEPT ![f] = "idle"]
              /\ uses' = [uses EXCEPT ![f] = None]
        /\ UNCHANGED <<source, current, made, origin, subscribers, kept, watched>>
    BY <1>2 DEF StartFeed, SwitchIInv, SwitchTypeOK
  <2>2. SwitchTypeOK'
    BY <2>1 DEF SwitchIInv, SwitchTypeOK, EnsureStarted
  <2>3. NoDeadSubscribers'
    BY <2>1 DEF SwitchIInv, SwitchTypeOK, NoDeadSubscribers, Instances
  <2>4. QED
    BY <2>1, <2>2, <2>3 DEF SwitchIInv, SwitchTypeOK
<1>3. CASE SubscribeFeed(f)
  <2>1. /\ feed[f] = "subscribe" /\ feed' = [feed EXCEPT ![f] = "stream"]
        /\ uses[f] \in 1..made /\ uses[f] \in Instances
        /\ subscribers' = [subscribers EXCEPT ![uses[f]] = @ \union {f}]
        /\ UNCHANGED <<source, current, made, origin, capturing, kept, watched, uses>>
    BY <1>3 DEF SubscribeFeed, SwitchIInv, SwitchTypeOK, Instances
  <2>2. SwitchTypeOK'
    BY <2>1 DEF SwitchIInv, SwitchTypeOK
  <2>3. NoDeadSubscribers'
    BY <2>1 DEF SwitchIInv, SwitchTypeOK, NoDeadSubscribers, Instances
  <2>4. \A p \in Instances : p > made' => subscribers'[p] = {}
    BY <2>1 DEF SwitchIInv, SwitchTypeOK, Instances
  <2>5. QED
    BY <2>1, <2>2, <2>3, <2>4 DEF SwitchIInv, SwitchTypeOK
<1>4. CASE LeaveFeed(f)
  BY <1>4 DEF LeaveFeed, SwitchIInv, SwitchTypeOK, NoDeadSubscribers, Instances
<1>5. CASE CloseFeed(f)
  <2>1. /\ Get /\ feed[f] = "leave" /\ feed' = [feed EXCEPT ![f] = "idle"]
        /\ uses' = [uses EXCEPT ![f] = None]
        /\ subscribers' = [subscribers EXCEPT ![current'] = @ \ {f}]
        /\ UNCHANGED <<source, capturing, kept, watched>>
    BY <1>5 DEF CloseFeed
  <2>2. /\ subscribers' \in [Instances -> SUBSET (Feeds \union {Loop})]
        /\ subscribers'[current'] = subscribers[current'] \ {f}
        /\ \A p \in Instances : subscribers'[p] \subseteq subscribers[p]
    BY <2>1, GetMakes DEF SwitchIInv, SwitchTypeOK
  <2>3. SwitchTypeOK'
    BY <2>1, <2>2, GetMakes DEF SwitchIInv, SwitchTypeOK
  <2>4. \A g \in subscribers[current'] :
          IF g = Loop THEN watched = current'
                      ELSE uses[g] = current' /\ feed[g] \in {"stream", "leave"}
    <3>1. CASE current # None
      BY <2>1, <3>1, GetMakes DEF SwitchIInv, NoDeadSubscribers
    <3>2. CASE current = None
      BY <2>1, <3>2, GetMakes DEF SwitchIInv, SwitchTypeOK
    <3>3. QED
      BY <3>1, <3>2
  <2>5. NoDeadSubscribers'
    <3>1. \A g \in subscribers'[current'] :
            g \in Feeds \union {Loop} /\ g # f /\ g \in subscribers[current']
      BY <2>1, <2>2, GetMakes DEF SwitchIInv, SwitchTypeOK
    <3>2. \A g \in Feeds : g # f => feed'[g] = feed[g] /\ uses'[g] = uses[g]
      BY <2>1 DEF SwitchIInv, SwitchTypeOK
    <3>3. QED
      BY <2>1, <2>4, <3>1, <3>2 DEF NoDeadSubscribers
  <2>6. \A p \in Instances : p > made' => subscribers'[p] = {}
    BY <2>1, <2>2, GetMakes DEF SwitchIInv, SwitchTypeOK, Instances
  <2>7. QED
    BY <2>1, <2>3, <2>5, <2>6, GetMakes DEF SwitchIInv, SwitchTypeOK
<1>6. QED
  BY <1>1, <1>2, <1>3, <1>4, <1>5

LEMMA SwitchStepKeeps ==
  SwitchIInv /\ [SwitchNext]_switchVars => SwitchIInv'
<1> SUFFICES ASSUME SwitchIInv, [SwitchNext]_switchVars PROVE SwitchIInv'
  OBVIOUS
<1>1. CASE UNCHANGED switchVars
  BY <1>1 DEF SwitchIInv, SwitchTypeOK, NoDeadSubscribers, switchVars
<1>2. CASE SwitchNext
  BY <1>2, EndpointsKeep, MonitoringKeeps, FeedKeeps DEF SwitchNext
<1>3. QED
  BY <1>1, <1>2

\* In every reachable state.
LEMMA SwitchInductive ==
  SwitchInit /\ [][SwitchNext]_switchVars => []SwitchIInv
  BY SwitchInitial, SwitchStepKeeps, PTL

\* The global publisher has no queue that nobody reads, for any number of
\* feeds, switches of the source and publishers: each of its subscribers
\* streams from it or watches it (video_feed, _loop, reset_publisher).
THEOREM EverySubscriberReads == SwitchSpec => []NoDeadSubscribers
<1>1. SwitchIInv => NoDeadSubscribers
  BY DEF SwitchIInv
<1>2. QED
  BY <1>1, SwitchInductive, PTL DEF SwitchSpec

-----------------------------------------------------------------------------
(***************************************************************************)
(* The notification preferences                                            *)
(***************************************************************************)

\* The lock is held for a load and from the nested read of an update to its
\* save; nobody looks at preferences that are not loaded, or loads them twice;
\* while mail is switched off, the object and the row agree on that.
PrefsIInv ==
  /\ PrefsTypeOK
  /\ \A t \in Requesters :
       step[t] \in {"load", "nested", "set", "save"} <=> prefsLock = t
  /\ \A t \in Requesters :
       /\ step[t] \in {"read", "set", "save", "check", "decide", "send"} => Loaded
       /\ step[t] = "load" => ~Loaded
       /\ step[t] \in {"lockUpdate", "nested", "set"} => todo[t] \in Updates
       /\ step[t] = "check" /\ t \in obeys => ~cache.enabled
       /\ step[t] = "decide" => t \notin obeys
  /\ disabled => ~row.enabled /\ (Loaded => ~cache.enabled)
  /\ ServedIsSaved
  /\ DisabledIsObeyed

\* What is left of an update when a field is set.
Rest(u, f) == [g \in DOMAIN u \ {f} |-> u[g]]

LEMMA UpdateShrinks ==
  ASSUME NEW u \in Updates, NEW f \in DOMAIN u
  PROVE  /\ f \in Fields /\ u[f] \in BOOLEAN
         /\ IF DOMAIN Rest(u, f) = {} THEN Rest(u, f) = Nothing
                                     ELSE Rest(u, f) \in Updates
<1>1. PICK F \in (SUBSET Fields) \ {{}} : u \in [F -> BOOLEAN]
  BY DEF Updates
<1>2. DOMAIN u = F /\ f \in Fields /\ u[f] \in BOOLEAN
  BY <1>1
<1>3. DOMAIN Rest(u, f) = F \ {f} /\ Rest(u, f) \in [F \ {f} -> BOOLEAN]
  BY <1>1, <1>2 DEF Rest
<1>4. CASE DOMAIN Rest(u, f) = {}
  <2>1. Rest(u, f) = [g \in {} |-> u[g]]
    BY <1>4 DEF Rest
  <2>2. QED
    BY <1>2, <1>4, <2>1 DEF Nothing
<1>5. CASE DOMAIN Rest(u, f) # {}
  <2>1. F \ {f} \in (SUBSET Fields) \ {{}}
    BY <1>1, <1>3, <1>5
  <2>2. Rest(u, f) \in Updates
    BY <1>3, <2>1 DEF Updates
  <2>3. QED
    BY <1>2, <1>5, <2>2
<1>6. QED
  BY <1>4, <1>5

LEMMA PrefsInitial == PrefsInit => PrefsIInv
<1> SUFFICES ASSUME PrefsInit PROVE PrefsIInv
  OBVIOUS
<1>1. row \in Prefs
  BY DEF PrefsInit, Defaults, Prefs
<1>2. PrefsTypeOK
  <2>1. obeys \subseteq Requesters
    BY DEF PrefsInit
  <2>2. saveErrors \in 0..MaxSaveErrors /\ restarts \in 0..MaxRestarts
    BY PreferencesAssumption DEF PrefsInit
  <2>3. step \in [Requesters -> Steps]
    BY DEF PrefsInit, Steps
  <2>4. todo \in [Requesters -> Updates \union {Nothing}]
    BY DEF PrefsInit
  <2>5. QED
    BY <1>1, <2>1, <2>2, <2>3, <2>4 DEF PrefsInit, PrefsTypeOK
<1>3. \A t \in Requesters : step[t] = "idle"
  BY DEF PrefsInit
<1>4. cache = NotLoaded /\ prefsLock = NoThread /\ disabled = FALSE
  BY DEF PrefsInit
<1>5. QED
  BY <1>2, <1>3, <1>4, PreferencesAssumption
     DEF PrefsIInv, ServedIsSaved, DisabledIsObeyed, Loaded

\* The object is loaded and a Prefs, wherever its fields are read.
LEMMA LoadedIsPrefs ==
  ASSUME PrefsIInv, Loaded
  PROVE  cache \in Prefs /\ cache.enabled \in BOOLEAN /\ cache.others \in BOOLEAN
  BY DEF PrefsIInv, PrefsTypeOK, Loaded, Prefs, Fields

LEMMA GetterKeeps ==
  ASSUME PrefsIInv, NEW t \in Requesters,
         Read(t) \/ LockToRead(t) \/ Load(t) \/ Answer(t)
  PROVE  PrefsIInv'
<1> USE PreferencesAssumption
    DEF PrefsIInv, PrefsTypeOK, ServedIsSaved, DisabledIsObeyed, Steps, Loaded,
        Move
<1>1. CASE Read(t)
  BY <1>1 DEF Read
<1>2. CASE LockToRead(t)
  BY <1>2 DEF LockToRead
<1>3. CASE Load(t)
  <2>1. /\ step[t] = "load" /\ step' = [step EXCEPT ![t] = "read"]
        /\ prefsLock = t /\ cache' = row /\ prefsLock' = NoThread
        /\ UNCHANGED <<row, todo, disabled, obeys, unsaved, saveErrors, restarts>>
    BY <1>3 DEF Load
  <2>2. PrefsTypeOK'
    BY <2>1
  <2>3. /\ cache' # NotLoaded
        /\ \A u \in Requesters : step'[u] \notin {"nested", "set", "save", "load"}
    BY <2>1, NotLoadedAssumption
  <2>4. \A u \in Requesters : step'[u] = "check" => step[u] = "check"
    BY <2>1
  <2>5. ASSUME NEW u \in Requesters, step'[u] = "check", u \in obeys'
        PROVE  ~cache'.enabled
    BY <2>1, <2>3, <2>4, <2>5
  <2>6. disabled' => ~row'.enabled /\ ~cache'.enabled
    BY <2>1
  <2>7. QED
    BY <2>1, <2>2, <2>3, <2>5, <2>6
<1>4. CASE Answer(t)
  BY <1>4 DEF Answer
<1>5. QED
  BY <1>1, <1>2, <1>3, <1>4

LEMMA UpdateBegins ==
  ASSUME PrefsIInv, NEW t \in Requesters,
         Toggle(t) \/ PutUpdate(t) \/ LockToUpdate(t) \/ Nested(t)
  PROVE  PrefsIInv'
<1> USE PreferencesAssumption
    DEF PrefsIInv, PrefsTypeOK, ServedIsSaved, DisabledIsObeyed, Steps, Loaded,
        Move
<1>1. CASE Toggle(t)
  <2>1. PICK u \in Updates \union {[f \in {"enabled"} |-> ~cache.enabled]} :
          todo' = [todo EXCEPT ![t] = u]
    BY <1>1 DEF Toggle
  <2>2. u \in Updates
    <3>1. cache.enabled \in BOOLEAN
      BY <1>1, LoadedIsPrefs DEF Toggle
    <3>2. [f \in {"enabled"} |-> ~cache.enabled] \in [{"enabled"} -> BOOLEAN]
      BY <3>1
    <3>3. {"enabled"} \subseteq Fields /\ {"enabled"} # {}
      BY DEF Fields
    <3>4. [f \in {"enabled"} |-> ~cache.enabled] \in Updates
      <4>1. {"enabled"} \in (SUBSET Fields) \ {{}}
        BY <3>3
      <4>2. [{"enabled"} -> BOOLEAN] \subseteq Updates
        BY <4>1 DEF Updates
      <4>3. QED
        BY <3>2, <4>2
    <3>5. QED
      BY <2>1, <3>4
  <2>3. QED
    BY <1>1, <2>1, <2>2 DEF Toggle
<1>2. CASE PutUpdate(t)
  BY <1>2 DEF PutUpdate
<1>3. CASE LockToUpdate(t)
  BY <1>3 DEF LockToUpdate
<1>4. CASE Nested(t)
  BY <1>4 DEF Nested
<1>5. QED
  BY <1>1, <1>2, <1>3, <1>4

LEMMA SetFieldKeeps ==
  ASSUME PrefsIInv, NEW t \in Requesters, SetField(t)
  PROVE  PrefsIInv'
<1> USE PreferencesAssumption DEF PrefsIInv, PrefsTypeOK, Loaded
<1>1. /\ step[t] = "set" /\ prefsLock = t /\ todo[t] \in Updates
      /\ cache # NotLoaded /\ cache \in Prefs
      /\ UNCHANGED <<row, prefsLock, unsaved, saveErrors, restarts>>
  BY DEF SetField
<1>2. PICK f \in DOMAIN todo[t] :
        /\ cache' = [cache EXCEPT ![f] = todo[t][f]]
        /\ todo' = [todo EXCEPT ![t] = Rest(todo[t], f)]
        /\ IF f = "enabled" THEN disabled' = FALSE /\ obeys' = {}
                            ELSE UNCHANGED <<disabled, obeys>>
  BY DEF SetField, Rest
<1>3. f \in Fields /\ todo[t][f] \in BOOLEAN
  BY <1>1, UpdateShrinks
<1>4. cache' \in Prefs /\ cache' # NotLoaded
  BY <1>1, <1>2, <1>3, NotLoadedAssumption DEF Prefs
<1>5. \/ f = "enabled" /\ disabled' = FALSE /\ obeys' = {}
      \/ f # "enabled" /\ cache'.enabled = cache.enabled
         /\ UNCHANGED <<disabled, obeys>>
  BY <1>1, <1>2, <1>3 DEF Prefs, Fields
<1>6. \/ step' = [step EXCEPT ![t] = "save"] /\ todo'[t] = Nothing
      \/ step' = step /\ todo'[t] \in Updates
  <2>1. todo'[t] = Rest(todo[t], f)
    BY <1>2
  <2>2. IF DOMAIN Rest(todo[t], f) = {}
          THEN Rest(todo[t], f) = Nothing ELSE Rest(todo[t], f) \in Updates
    BY <1>1, UpdateShrinks
  <2>3. step' = IF DOMAIN todo'[t] = {} THEN [step EXCEPT ![t] = "save"] ELSE step
    BY DEF SetField
  <2>4. QED
    BY <2>1, <2>2, <2>3
<1>7. step' \in [Requesters -> Steps] /\ step'[t] \in {"set", "save"}
  BY <1>1, <1>6 DEF Steps
<1>8. \A u \in Requesters : u # t => step'[u] = step[u] /\ todo'[u] = todo[u]
  BY <1>2, <1>6
<1>9. PrefsTypeOK'
  <2>1. todo' \in [Requesters -> Updates \union {Nothing}]
    BY <1>2, <1>6
  <2>2. disabled' \in BOOLEAN /\ obeys' \subseteq Requesters
    BY <1>5
  <2>3. QED
    BY <1>1, <1>4, <1>7, <2>1, <2>2
<1>10. \A u \in Requesters :
         step'[u] \in {"load", "nested", "set", "save"} <=> prefsLock' = u
  BY <1>1, <1>7, <1>8
<1>11. ASSUME NEW u \in Requesters
       PROVE  /\ step'[u] \in {"lockUpdate", "nested", "set"} => todo'[u] \in Updates
              /\ step'[u] = "check" /\ u \in obeys' => ~cache'.enabled
              /\ step'[u] = "decide" => u \notin obeys'
              /\ step'[u] = "send" => u \notin obeys'
              /\ step'[u] # "load"
  <2>1. CASE u = t
    BY <1>1, <1>6, <1>7, <2>1
  <2>2. CASE u # t
    BY <1>1, <1>5, <1>8, <2>2 DEF DisabledIsObeyed
  <2>3. QED
    BY <2>1, <2>2
<1>12. disabled' => ~row'.enabled /\ ~cache'.enabled
  BY <1>1, <1>5
<1>13. ServedIsSaved' /\ DisabledIsObeyed'
  BY <1>7, <1>11 DEF ServedIsSaved, DisabledIsObeyed
<1>14. QED
  BY <1>4, <1>9, <1>10, <1>11, <1>12, <1>13

LEMMA SaveKeeps ==
  ASSUME PrefsIInv, NEW t \in Requesters, Save(t) \/ SaveFails(t)
  PROVE  PrefsIInv'
<1> USE PreferencesAssumption
    DEF PrefsIInv, PrefsTypeOK, ServedIsSaved, DisabledIsObeyed, Steps, Loaded,
        Move
<1>1. cache \in Prefs /\ cache.enabled \in BOOLEAN
  BY LoadedIsPrefs DEF Save, SaveFails
<1>2. CASE Save(t)
  BY <1>1, <1>2 DEF Save
<1>3. CASE SaveFails(t)
  BY <1>1, <1>3 DEF SaveFails
<1>4. QED
  BY <1>2, <1>3

LEMMA NotificationKeeps ==
  ASSUME PrefsIInv, NEW t \in Requesters,
         Notify(t) \/ CheckEnabled(t) \/ ShouldNotify(t) \/ Send(t)
  PROVE  PrefsIInv'
<1> USE PreferencesAssumption
    DEF PrefsIInv, PrefsTypeOK, ServedIsSaved, DisabledIsObeyed, Steps, Loaded,
        Move
<1>1. CASE Notify(t)
  BY <1>1 DEF Notify
<1>2. CASE CheckEnabled(t)
  BY <1>2 DEF CheckEnabled
<1>3. CASE ShouldNotify(t)
  BY <1>3 DEF ShouldNotify
<1>4. CASE Send(t)
  BY <1>4 DEF Send
<1>5. QED
  BY <1>1, <1>2, <1>3, <1>4

LEMMA RestartKeeps == ASSUME PrefsIInv, Restart PROVE PrefsIInv'
<1> USE PreferencesAssumption DEF PrefsIInv, PrefsTypeOK
<1>1. /\ cache' = NotLoaded /\ prefsLock' = NoThread /\ unsaved' = FALSE
      /\ restarts < MaxRestarts /\ restarts' = restarts + 1
      /\ step' = [t \in Requesters |-> "idle"]
      /\ todo' = [t \in Requesters |-> Nothing]
      /\ UNCHANGED <<row, disabled, obeys, saveErrors>>
  BY DEF Restart
<1>2. \A t \in Requesters : step'[t] = "idle"
  BY <1>1
<1>3. step' \in [Requesters -> Steps]
  BY <1>1 DEF Steps
<1>4. todo' \in [Requesters -> Updates \union {Nothing}]
  BY <1>1
<1>5. restarts' \in 0..MaxRestarts
  BY <1>1
<1>6. PrefsTypeOK'
  BY <1>1, <1>3, <1>4, <1>5
<1>7. QED
  BY <1>1, <1>2, <1>6 DEF ServedIsSaved, DisabledIsObeyed, Loaded

LEMMA PrefsStepKeeps == PrefsIInv /\ [PrefsNext]_prefsVars => PrefsIInv'
<1> SUFFICES ASSUME PrefsIInv, [PrefsNext]_prefsVars PROVE PrefsIInv'
  OBVIOUS
<1>1. CASE UNCHANGED prefsVars
  BY <1>1 DEF PrefsIInv, PrefsTypeOK, ServedIsSaved, DisabledIsObeyed, Loaded,
              prefsVars
<1>2. CASE PrefsNext
  BY <1>2, GetterKeeps, UpdateBegins, SetFieldKeeps, SaveKeeps,
     NotificationKeeps, RestartKeeps DEF PrefsNext, PrefsStep
<1>3. QED
  BY <1>1, <1>2

\* In every reachable state.
LEMMA PrefsInductive ==
  PrefsInit /\ [][PrefsNext]_prefsVars => []PrefsIInv
  BY PrefsInitial, PrefsStepKeeps, PTL

-----------------------------------------------------------------------------
(***************************************************************************)
(* The cached addresses                                                    *)
(***************************************************************************)

\* A user named by the cache or by a reader that has yet to store its list was
\* active when the clock showed the time the list is kept under, or later.
EmailIInv ==
  /\ EmailTypeOK
  /\ emailsAt <= time /\ \A r \in Readers : began[r] <= time
  /\ \A u \in emails \ activeUsers : left[u] >= emailsAt
  /\ \A r \in Readers : reader[r] = "store" =>
       \A u \in result[r] \ activeUsers : left[u] >= began[r]
  /\ StaleAtMostTTL

LEMMA EmailInitial == EmailInit => EmailIInv
<1> SUFFICES ASSUME EmailInit PROVE EmailIInv
  OBVIOUS
<1>1. EmailTypeOK
  <2>1. {} \in SUBSET Users /\ result = [r \in Readers |-> {}]
    BY DEF EmailInit
  <2>2. result \in [Readers -> SUBSET Users] /\ emails \subseteq Users
    BY <2>1 DEF EmailInit
  <2>3. time \in 0..MaxTime /\ emailsAt \in 0..MaxTime
    BY EmailAssumption DEF EmailInit
  <2>4. left \in [Users -> -1..MaxTime] /\ began \in [Readers -> 0..MaxTime]
    BY EmailAssumption DEF EmailInit
  <2>5. QED
    BY <2>2, <2>3, <2>4 DEF EmailInit, EmailTypeOK
<1>2. \A r \in Readers : reader[r] = "idle" /\ began[r] = 0
  BY DEF EmailInit
<1>3. emails = {} /\ emailsAt = 0 /\ time = 0
  BY DEF EmailInit
<1>4. QED
  BY <1>1, <1>2, <1>3 DEF EmailIInv, StaleAtMostTTL

LEMMA ReaderKeeps ==
  ASSUME EmailIInv, NEW r \in Readers,
         ReadClock(r) \/ CheckCache(r) \/ Query(r) \/ Store(r) \/ Used(r)
  PROVE  EmailIInv'
<1> USE EmailAssumption DEF EmailIInv, EmailTypeOK, StaleAtMostTTL, Proceed
<1>1. CASE ReadClock(r)
  BY <1>1 DEF ReadClock
<1>2. CASE CheckCache(r)
  <2>1. CASE Hit(r)
    <3>1. /\ reader' = [reader EXCEPT ![r] = "returned"]
          /\ result' = [result EXCEPT ![r] = emails]
          /\ UNCHANGED <<time, activeUsers, left, emails, emailsAt, dirty, began>>
      BY <1>2, <2>1 DEF CheckCache
    <3>2. \A u \in emails \ activeUsers : left[u] > began[r] - TTL
      BY <2>1 DEF Hit
    <3>3. QED
      BY <3>1, <3>2
  <2>2. CASE ~Hit(r)
    BY <1>2, <2>2 DEF CheckCache
  <2>3. QED
    BY <2>1, <2>2
<1>3. CASE Query(r)
  BY <1>3 DEF Query
<1>4. CASE Store(r)
  BY <1>4 DEF Store
<1>5. CASE Used(r)
  BY <1>5 DEF Used
<1>6. QED
  BY <1>1, <1>2, <1>3, <1>4, <1>5

LEMMA TableKeeps ==
  ASSUME EmailIInv,
         TimePasses \/ Invalidate
         \/ \E u \in Users : Activate(u) \/ Deactivate(u)
  PROVE  EmailIInv'
<1> USE EmailAssumption DEF EmailIInv, EmailTypeOK, StaleAtMostTTL
<1>1. CASE TimePasses
  BY <1>1 DEF TimePasses
<1>2. CASE Invalidate
  <2>1. /\ emails' = {} /\ emailsAt' = 0 /\ dirty' = FALSE
        /\ UNCHANGED <<time, activeUsers, left, reader, began, result>>
    BY <1>2 DEF Invalidate
  <2>2. emailsAt' \in 0..MaxTime /\ emails' \subseteq Users
    BY <2>1
  <2>3. EmailTypeOK'
    BY <2>1, <2>2
  <2>4. QED
    BY <2>1, <2>3
<1>3. ASSUME NEW u \in Users, Activate(u) PROVE EmailIInv'
  BY <1>3 DEF Activate
<1>4. ASSUME NEW u \in Users, Deactivate(u) PROVE EmailIInv'
  BY <1>4 DEF Deactivate
<1>5. QED
  BY <1>1, <1>2, <1>3, <1>4

LEMMA EmailStepKeeps == EmailIInv /\ [EmailNext]_emailVars => EmailIInv'
<1> SUFFICES ASSUME EmailIInv, [EmailNext]_emailVars PROVE EmailIInv'
  OBVIOUS
<1>1. CASE UNCHANGED emailVars
  BY <1>1 DEF EmailIInv, EmailTypeOK, StaleAtMostTTL, emailVars
<1>2. CASE EmailNext
  BY <1>2, ReaderKeeps, TableKeeps DEF EmailNext
<1>3. QED
  BY <1>1, <1>2

\* In every reachable state.
LEMMA EmailInductive ==
  EmailInit /\ [][EmailNext]_emailVars => []EmailIInv
  BY EmailInitial, EmailStepKeeps, PTL

-----------------------------------------------------------------------------
(***************************************************************************)
(* The composition                                                         *)
(***************************************************************************)

LEMMA ServicesInitial ==
  MCInit => /\ RouterInit /\ BreakerInit /\ ClassifierInit /\ PublisherInit
            /\ SwitchInit /\ PrefsInit /\ EmailInit
  BY DEF MCInit

\* Each service takes its own steps and stutters through those of the others.
LEMMA ServicesStep ==
  [MCNext]_<<allVars, part>> =>
    /\ [RouterNext]_routerVars /\ [BreakerNext]_breakerVars
    /\ [ClassifierNext]_classifierVars
    /\ [PublisherNext]_publisherVars /\ [SwitchNext]_switchVars
    /\ [PrefsNext]_prefsVars /\ [EmailNext]_emailVars
<1> SUFFICES ASSUME [MCNext]_<<allVars, part>>
             PROVE  /\ [RouterNext]_routerVars /\ [BreakerNext]_breakerVars
                    /\ [ClassifierNext]_classifierVars
                    /\ [PublisherNext]_publisherVars /\ [SwitchNext]_switchVars
                    /\ [PrefsNext]_prefsVars /\ [EmailNext]_emailVars
  OBVIOUS
<1>1. CASE UNCHANGED <<allVars, part>>
  BY <1>1 DEF allVars
<1>2. CASE MCRouter
  BY <1>2 DEF MCRouter
<1>3. CASE MCClassifier
  BY <1>3 DEF MCClassifier
<1>4. CASE MCPublisher
  BY <1>4 DEF MCPublisher
<1>5. CASE MCSwitch
  BY <1>5 DEF MCSwitch
<1>6. CASE MCPreferences
  BY <1>6 DEF MCPreferences
<1>7. CASE MCEmails
  BY <1>7 DEF MCEmails
<1>8. CASE MCBreaker
  BY <1>8 DEF MCBreaker
<1>9. QED
  BY <1>1, <1>2, <1>3, <1>4, <1>5, <1>6, <1>7, <1>8 DEF MCNext

LEMMA ServicesInductive ==
  MCSpec => [](/\ RouterIInv /\ BreakerTypeOK /\ ClassifierIInv /\ PublisherIInv
               /\ SwitchIInv /\ PrefsIInv /\ EmailIInv)
  BY ServicesInitial, ServicesStep, RouterInitial, RouterStepKeeps,
     BreakerTypeCorrect, ClassifierInductive, PublisherInductive,
     SwitchInductive, PrefsInductive, EmailInductive, PTL
     DEF MCSpec, BreakerSpec

\* A behaviour of the services together is one of each: what is proved of a
\* service holds of them together.
THEOREM ServicesKeepTheirPromise ==
  MCSpec => /\ RouterSpec /\ BreakerSpec /\ ClassifierSpec /\ PublisherSpec
            /\ SwitchSpec
  BY ServicesInitial, ServicesStep, PTL
     DEF MCSpec, RouterSpec, BreakerSpec, ClassifierSpec, PublisherSpec, SwitchSpec

\* The types of all services, for every value of their constants.
THEOREM ServicesTypeCorrect == MCSpec => []MCTypeOK
<1>1. /\ RouterIInv /\ BreakerTypeOK /\ ClassifierIInv /\ PublisherIInv
      /\ SwitchIInv /\ PrefsIInv /\ EmailIInv
      => MCTypeOK
  BY RouterTypes
     DEF MCTypeOK, ClassifierIInv, PublisherIInv, PublisherTyped, SwitchIInv,
         PrefsIInv, EmailIInv
<1>2. QED
  BY <1>1, ServicesInductive, PTL

\* What is served from memory is fresh, for any number of requesters, readers
\* and users, any time to live, failed saves and restarts: the preferences are
\* those of their row unless a save is under way or failed, a notification
\* that began after mail was switched off sends none, and an address list
\* names nobody who left more than the time to live before the call
\* (notification_preferences.py, UserRepository.get_active_emails).
THEOREM MemoryIsFresh == MCSpec => []CachesAreFresh
<1>1. PrefsIInv /\ EmailIInv => CachesAreFresh
  BY DEF CachesAreFresh, PrefsIInv, EmailIInv
<1>2. QED
  BY <1>1, ServicesInductive, PTL

=============================================================================
