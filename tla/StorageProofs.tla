----------------------------- MODULE StorageProofs -----------------------------
(***************************************************************************)
(* The database keeps what it promises for every number of threads, every  *)
(* pool size and every cut-off start-up: the proofs of what MCStorage      *)
(* checks on a small instance.                                             *)
(***************************************************************************)
EXTENDS Storage, SequenceTheorems, FiniteSetTheorems, TLAPS

USE DEF ledger

(***************************************************************************)
(* Sequences without repetition                                            *)
(***************************************************************************)

LEMMA BoundedSeqIsSeq ==
  ASSUME NEW S, NEW n \in Nat, NEW s \in Seq(S), Len(s) <= n
  PROVE  s \in BoundedSeq(S, n)
<1>1. Len(s) \in 0..n /\ s \in [1..Len(s) -> S]
  BY LenProperties
<1>2. QED
  BY <1>1 DEF BoundedSeq, SeqOf

LEMMA RangeAppend ==
  ASSUME NEW S, NEW s \in Seq(S), NEW e \in S
  PROVE  /\ Range(Append(s, e)) = Range(s) \union {e}
         /\ e \notin Range(s) /\ IsInjective(s) => IsInjective(Append(s, e))
<1> DEFINE p == Append(s, e)
<1>1. /\ Len(s) \in Nat /\ Len(p) = Len(s) + 1 /\ p[Len(s) + 1] = e
      /\ \A i \in 1..Len(s) : p[i] = s[i]
      /\ DOMAIN p = 1..Len(s) + 1 /\ DOMAIN s = 1..Len(s)
  <2>1. p \in Seq(S) /\ Len(p) = Len(s) + 1
    BY AppendProperties
  <2>2. DOMAIN p = 1..Len(p)
    BY <2>1, LenProperties
  <2>3. QED
    BY <2>1, <2>2, AppendProperties, LenProperties
<1> HIDE DEF p
<1>2. Range(p) = Range(s) \union {e}
  <2>1. Range(p) \subseteq Range(s) \union {e}
    <3> SUFFICES ASSUME NEW i \in DOMAIN p PROVE p[i] \in Range(s) \union {e}
      BY DEF Range
    <3>1. i = Len(s) + 1 \/ i \in 1..Len(s)
      BY <1>1
    <3>2. QED
      BY <1>1, <3>1 DEF Range
  <2>2. Range(s) \union {e} \subseteq Range(p)
    <3>1. \A i \in DOMAIN s : i \in DOMAIN p /\ p[i] = s[i]
      BY <1>1
    <3>2. Len(s) + 1 \in DOMAIN p
      BY <1>1
    <3>3. QED
      BY <1>1, <3>1, <3>2 DEF Range
  <2>3. QED
    BY <2>1, <2>2
<1>3. ASSUME e \notin Range(s), IsInjective(s),
             NEW a \in DOMAIN p, NEW b \in DOMAIN p, p[a] = p[b]
      PROVE  a = b
  <2>1. /\ a \in DOMAIN s \/ a = Len(s) + 1
        /\ b \in DOMAIN s \/ b = Len(s) + 1
    BY <1>1
  <2>2. \A i \in DOMAIN s : p[i] = s[i] /\ s[i] # e
    BY <1>1, <1>3 DEF Range
  <2>3. QED
    BY <1>1, <1>3, <2>1, <2>2 DEF IsInjective
<1>4. QED
  BY <1>2, <1>3 DEF IsInjective, p

LEMMA RangeTail ==
  ASSUME NEW S, NEW s \in Seq(S), s # <<>>, IsInjective(s)
  PROVE  /\ Head(s) \in Range(s) /\ Range(Tail(s)) = Range(s) \ {Head(s)}
         /\ IsInjective(Tail(s))
<1> DEFINE p == Tail(s)
<1>1. /\ Len(s) \in Nat /\ Len(s) > 0 /\ Head(s) = s[1]
      /\ \A i \in 1..Len(s) - 1 : p[i] = s[i + 1]
      /\ DOMAIN p = 1..Len(s) - 1 /\ DOMAIN s = 1..Len(s)
  <2>1. Len(s) \in Nat \ {0}
    BY EmptySeq
  <2>2. p \in Seq(S) /\ Len(p) = Len(s) - 1
        /\ \A i \in 1..Len(p) : p[i] = s[i + 1]
    BY HeadTailProperties
  <2>3. DOMAIN p = 1..Len(p)
    BY <2>2, LenProperties
  <2>4. Head(s) = s[1] /\ DOMAIN s = 1..Len(s)
    BY LenProperties
  <2>5. QED
    BY <2>1, <2>2, <2>3, <2>4
<1> HIDE DEF p
<1>2. 1 \in DOMAIN s /\ \A i \in DOMAIN p : i + 1 \in DOMAIN s /\ i + 1 # 1
  BY <1>1
<1>3. \A k \in DOMAIN s : k # 1 => k - 1 \in DOMAIN p /\ p[k - 1] = s[k]
  BY <1>1
<1>4. Range(p) = Range(s) \ {s[1]}
  <2>1. \A i \in DOMAIN p : p[i] \in Range(s) /\ p[i] # s[1]
    BY <1>1, <1>2 DEF Range, IsInjective
  <2>2. \A k \in DOMAIN s : s[k] # s[1] => s[k] \in Range(p)
    BY <1>3 DEF Range
  <2>3. QED
    BY <2>1, <2>2 DEF Range
<1>5. IsInjective(p)
  <2> SUFFICES ASSUME NEW a \in DOMAIN p, NEW b \in DOMAIN p, p[a] = p[b]
               PROVE  a = b
    BY DEF IsInjective
  <2>1. s[a + 1] = s[b + 1] /\ a \in Nat /\ b \in Nat
    BY <1>1
  <2>2. QED
    BY <1>2, <2>1 DEF IsInjective
<1>6. QED
  BY <1>1, <1>2, <1>4, <1>5 DEF Range, p

LEMMA Three ==
  ASSUME NEW S, NEW a \in S, NEW b \in S, NEW c \in S
  PROVE  LET s == <<a, b, c>> IN
         /\ s \in Seq(S) /\ Len(s) = 3
         /\ s[1] = a /\ s[2] = b /\ s[3] = c
  OBVIOUS

LEMMA Eight ==
  ASSUME NEW S, NEW a \in S, NEW b \in S, NEW c \in S, NEW d \in S,
         NEW e \in S, NEW f \in S, NEW g \in S, NEW h \in S
  PROVE  LET s == <<a, b, c, d, e, f, g, h>> IN
         /\ s \in Seq(S) /\ Len(s) = 8
         /\ s[1] = a /\ s[2] = b /\ s[3] = c /\ s[4] = d
         /\ s[5] = e /\ s[6] = f /\ s[7] = g /\ s[8] = h
  OBVIOUS

(***************************************************************************)
(* The connection pool                                                     *)
(***************************************************************************)

Lent == {c \in Clients : conn[c] # NoConn} \ temporary

PoolTyped ==
  /\ pool \in Seq(Conns) /\ Len(pool) <= PoolSize
  /\ initialized \in BOOLEAN
  /\ lock \in Clients \union {NoClient}
  /\ created \in 0..PoolSize
  /\ opened \subseteq Conns
  /\ writer \in opened \union {NoConn}
  /\ pc \in [Clients -> {"idle", "init", "filling", "getting", "body",
                         "written", "leaving"}]
  /\ conn \in [Clients -> opened \union {NoConn}]
  /\ temporary \subseteq Clients
  /\ writes \in [Clients -> BOOLEAN]
  /\ answer \in [Clients -> {"none", "ok", "error"}]
  /\ uncommitted \subseteq Clients
  /\ committer \in [Clients -> Clients \union {NoClient}]
  /\ openErrors \in 0..MaxOpenErrors

\* Who holds the lock fills the pool, before it is initialized; who has a
\* connection is inside the with-block; nobody is answered before the end, and
\* a write waits for its commit in the one open transaction.
Places ==
  /\ \A c \in Clients :
       /\ lock = c <=> pc[c] = "filling"
       /\ pc[c] = "filling" => ~initialized /\ created <= Len(pool)
       /\ pc[c] \in {"getting", "body", "written", "leaving"} => initialized
       /\ conn[c] # NoConn <=> pc[c] \in {"body", "written", "leaving"}
       /\ c \in temporary => conn[c] # NoConn
       /\ pc[c] \notin {"idle", "leaving"}
            => answer[c] = "none" /\ committer[c] = NoClient
       /\ pc[c] = "written" => writer = conn[c] /\ c \in uncommitted
       /\ pc[c] \in {"init", "filling", "getting", "body"}
            => c \notin uncommitted

PoolIInv == PoolTyped /\ Places /\ Accounted /\ AnswersAreTrue

LEMMA PoolTypes == PoolTyped => TypeOK
  BY BoundedSeqIsSeq, PoolAssumption DEF PoolTyped, TypeOK

LEMMA PoolInitial == Init => PoolIInv
<1> SUFFICES ASSUME Init PROVE PoolIInv
  OBVIOUS
<1>1. /\ pool = <<>> /\ pool \in Seq(Conns) /\ Len(pool) = 0
      /\ pool \in [1..0 -> Conns]
  BY EmptySeq, LenProperties DEF Init
<1>2. PoolTyped
  <2>1. conn \in [Clients -> opened \union {NoConn}]
    BY DEF Init
  <2>2. /\ opened \subseteq Conns /\ temporary \subseteq Clients
        /\ uncommitted \subseteq Clients
        /\ committer \in [Clients -> Clients \union {NoClient}]
    BY DEF Init
  <2>3. created \in 0..PoolSize /\ openErrors \in 0..MaxOpenErrors /\ Len(pool) <= PoolSize
    BY <1>1, PoolAssumption DEF Init
  <2>4. QED
    BY <1>1, <2>1, <2>2, <2>3 DEF Init, PoolTyped
<1>3. Places
  BY PoolAssumption DEF Init, Places
<1>4. Accounted
  <2>1. DOMAIN pool = {}
    BY <1>1
  <2>2. Pooled = {} /\ IsInjective(pool)
    BY <2>1 DEF Pooled, Range, IsInjective
  <2>3. InUse = {} /\ opened = {}
    BY DEF InUse, Init
  <2>4. Lent = {} /\ Cardinality(Lent) = 0
    BY FS_EmptySet DEF Lent, Init
  <2>5. PoolKeepsItsSize
    BY <1>1, <2>4, PoolAssumption DEF PoolKeepsItsSize, Lent, Init
  <2>6. QED
    BY <2>2, <2>3, <2>5 DEF Accounted, Init
<1>5. AnswersAreTrue
  BY DEF AnswersAreTrue, Init
<1>6. QED
  BY <1>2, <1>3, <1>4, <1>5 DEF PoolIInv

LEMMA LentFinite ==
  ASSUME PoolTyped
  PROVE  IsFiniteSet(Lent) /\ Cardinality(Lent) \in Nat
<1>1. Lent \subseteq Clients
  BY DEF Lent
<1>2. QED
  BY <1>1, FS_Subset, FS_CardinalityType, PoolAssumption

\* A connection that is to be opened has not been: there are enough names.
LEMMA FreshIsFree ==
  ASSUME PoolIInv
  PROVE  Fresh \in Conns /\ Fresh \notin opened
<1>1. \E x \in Conns : x \notin opened
  <2>1. IsFiniteSet(Pooled) /\ Cardinality(Pooled) <= PoolSize
    <3>1. Len(pool) \in Nat /\ pool \in [1..Len(pool) -> Conns]
          /\ DOMAIN pool = 1..Len(pool)
      BY LenProperties DEF PoolIInv, PoolTyped
    <3>2. IsFiniteSet(1..Len(pool)) /\ Cardinality(1..Len(pool)) = Len(pool)
      BY <3>1, FS_Interval
    <3>3. pool \in Surjection(1..Len(pool), Pooled)
      BY <3>1 DEF Pooled, Range, Surjection
    <3>4. IsFiniteSet(Pooled) /\ Cardinality(Pooled) <= Len(pool)
      BY <3>2, <3>3, FS_Surjection
    <3>5. Cardinality(Pooled) \in Nat
      BY <3>4, FS_CardinalityType
    <3>6. QED
      BY <3>1, <3>4, <3>5, PoolAssumption DEF PoolIInv, PoolTyped
  <2>2. IsFiniteSet(InUse) /\ Cardinality(InUse) <= Cardinality(Clients)
    <3> DEFINE all == {conn[c] : c \in Clients}
    <3>1. conn \in Surjection(Clients, all)
      BY DEF PoolIInv, PoolTyped, Surjection
    <3>2. IsFiniteSet(all) /\ Cardinality(all) <= Cardinality(Clients)
      BY <3>1, FS_Surjection, PoolAssumption
    <3>3. InUse \subseteq all
      BY DEF InUse
    <3> HIDE DEF all
    <3>4. IsFiniteSet(InUse) /\ Cardinality(InUse) <= Cardinality(all)
      BY <3>2, <3>3, FS_Subset
    <3>5. /\ Cardinality(InUse) \in Nat /\ Cardinality(all) \in Nat
          /\ Cardinality(Clients) \in Nat
      BY <3>2, <3>4, FS_CardinalityType, PoolAssumption
    <3>6. QED
      BY <3>2, <3>4, <3>5
  <2>3. Cardinality(opened) <= PoolSize + Cardinality(Clients) /\ IsFiniteSet(opened)
    <3>1. /\ IsFiniteSet(Pooled \union InUse)
          /\ Cardinality(Pooled \union InUse)
               = Cardinality(Pooled) + Cardinality(InUse)
                   - Cardinality(Pooled \intersect InUse)
      BY <2>1, <2>2, FS_Union
    <3>2. Pooled \intersect InUse = {} /\ opened = Pooled \union InUse
      BY DEF PoolIInv, Accounted
    <3>3. /\ Cardinality(Pooled) \in Nat /\ Cardinality(InUse) \in Nat
          /\ Cardinality(Clients) \in Nat /\ Cardinality({}) = 0
      BY <2>1, <2>2, FS_CardinalityType, FS_EmptySet, PoolAssumption
    <3>4. Cardinality(opened) = Cardinality(Pooled) + Cardinality(InUse)
      <4>1. Cardinality(Pooled \intersect InUse) = 0
        BY <3>2, <3>3
      <4>2. Cardinality(opened) = Cardinality(Pooled \union InUse)
        BY <3>2
      <4> HIDE DEF Pooled, InUse
      <4>3. QED
        BY <3>1, <3>3, <4>1, <4>2
    <3>5. IsFiniteSet(opened)
      BY <3>1, <3>2
    <3>6. Cardinality(opened) <= PoolSize + Cardinality(Clients)
      BY <2>1, <2>2, <3>3, <3>4, PoolAssumption
    <3>7. QED
      BY <3>5, <3>6
  <2>4. /\ Cardinality(opened) \in Nat /\ Cardinality(Clients) \in Nat
        /\ Cardinality(Conns) \in Nat
    BY <2>3, FS_CardinalityType, PoolAssumption
  <2>5. opened # Conns
    BY <2>3, <2>4, PoolAssumption
  <2>6. QED
    BY <2>5 DEF PoolIInv, PoolTyped
<1>2. QED
  BY <1>1 DEF Fresh

\* Steps that neither open, close, lend nor queue a connection.
LEMMA PoolUntouched ==
  ASSUME PoolIInv, UNCHANGED <<pool, conn, temporary, opened>>,
         initialized' => initialized
  PROVE  Accounted'
<1>1. Pooled' = Pooled /\ InUse' = InUse
  BY DEF Pooled, InUse
<1>2. PoolKeepsItsSize'
  BY DEF PoolIInv, Accounted, PoolKeepsItsSize
<1>3. QED
  BY <1>1, <1>2 DEF PoolIInv, Accounted

LEMMA SetupKeeps ==
  ASSUME PoolIInv, NEW c \in Clients,
         Enter(c) \/ Lock(c) \/ FillFails(c) \/ TemporaryFails(c)
  PROVE  PoolIInv'
<1> USE PoolAssumption DEF Goto, Answer
<1>1. CASE Enter(c)
  <2>1. PoolTyped'
    BY <1>1 DEF Enter, PoolIInv, PoolTyped
  <2>2. Places'
    BY <1>1 DEF Enter, PoolIInv, PoolTyped, Places
  <2>3. AnswersAreTrue'
    BY <1>1 DEF Enter, PoolIInv, PoolTyped, AnswersAreTrue
  <2>4. QED
    BY <1>1, <2>1, <2>2, <2>3, PoolUntouched DEF Enter, PoolIInv
<1>2. CASE Lock(c)
  <2>1. PoolTyped'
    BY <1>2 DEF Lock, PoolIInv, PoolTyped
  <2>2. Places'
    <3>1. Len(pool) >= 0
      BY LenProperties DEF PoolIInv, PoolTyped
    <3>2. QED
      BY <1>2, <3>1 DEF Lock, PoolIInv, PoolTyped, Places
  <2>3. AnswersAreTrue'
    BY <1>2 DEF Lock, PoolIInv, AnswersAreTrue
  <2>4. QED
    BY <1>2, <2>1, <2>2, <2>3, PoolUntouched DEF Lock, PoolIInv
<1>3. CASE FillFails(c)
  <2>1. PoolTyped'
    BY <1>3 DEF FillFails, PoolIInv, PoolTyped
  <2>2. Places'
    BY <1>3 DEF FillFails, PoolIInv, PoolTyped, Places
  <2>3. AnswersAreTrue'
    BY <1>3 DEF FillFails, PoolIInv, PoolTyped, Places, AnswersAreTrue
  <2>4. QED
    BY <1>3, <2>1, <2>2, <2>3, PoolUntouched DEF FillFails, PoolIInv
<1>4. CASE TemporaryFails(c)
  <2>1. PoolTyped'
    BY <1>4 DEF TemporaryFails, PoolIInv, PoolTyped
  <2>2. Places'
    BY <1>4 DEF TemporaryFails, PoolIInv, PoolTyped, Places
  <2>3. AnswersAreTrue'
    BY <1>4 DEF TemporaryFails, PoolIInv, PoolTyped, Places, AnswersAreTrue
  <2>4. QED
    BY <1>4, <2>1, <2>2, <2>3, PoolUntouched DEF TemporaryFails, PoolIInv
<1>5. QED
  BY <1>1, <1>2, <1>3, <1>4

LEMMA FillKeeps ==
  ASSUME PoolIInv, NEW c \in Clients, Fill(c)
  PROVE  PoolIInv'
<1>1. /\ pc[c] = "filling" /\ created < PoolSize /\ Len(pool) < PoolSize
      /\ pool' = Append(pool, Fresh) /\ opened' = opened \union {Fresh}
      /\ created' = created + 1
      /\ UNCHANGED <<initialized, lock, writer, pc, conn, temporary, writes,
                     answer, ledger, openErrors>>
  BY DEF Fill
<1>2. ~initialized
  BY <1>1 DEF PoolIInv, Places
<1>3. Fresh \in Conns /\ Fresh \notin opened
  BY FreshIsFree
<1>4. /\ pool' \in Seq(Conns) /\ Len(pool') = Len(pool) + 1 /\ Len(pool) \in Nat
      /\ Range(pool') = Range(pool) \union {Fresh}
      /\ Fresh \notin Range(pool) => IsInjective(pool')
  BY <1>1, <1>3, AppendProperties, LenProperties, RangeAppend
     DEF PoolIInv, PoolTyped, Accounted
<1>5. PoolTyped'
  BY <1>1, <1>3, <1>4, PoolAssumption DEF PoolIInv, PoolTyped
<1>6. Places'
  BY <1>1, <1>4, PoolAssumption DEF PoolIInv, PoolTyped, Places
<1>7. Accounted'
  <2>1. Pooled' = Pooled \union {Fresh} /\ InUse' = InUse
    BY <1>1, <1>4 DEF Pooled, InUse
  <2>2. Fresh \notin Pooled /\ Fresh \notin InUse
    BY <1>3 DEF PoolIInv, Accounted
  <2>3. PoolKeepsItsSize'
    <3>1. Lent = {}
      BY <1>2 DEF PoolIInv, Places, Lent
    <3>2. Lent' = {}
      BY <1>1, <3>1 DEF Lent
    <3>3. Len(pool') + Cardinality(Lent') <= PoolSize
      BY <1>1, <1>4, <3>2, FS_EmptySet, PoolAssumption
    <3>4. ~initialized'
      BY <1>1, <1>2
    <3>5. QED
      BY <3>3, <3>4 DEF PoolKeepsItsSize, Lent
  <2>4. QED
    BY <1>1, <1>4, <2>1, <2>2, <2>3 DEF PoolIInv, Accounted, Pooled
<1>8. QED
  BY <1>1, <1>5, <1>6, <1>7 DEF PoolIInv, AnswersAreTrue

LEMMA FilledKeeps ==
  ASSUME PoolIInv, NEW c \in Clients, Filled(c)
  PROVE  PoolIInv'
<1>1. /\ pc[c] = "filling" /\ pc' = [pc EXCEPT ![c] = "getting"]
      /\ created = PoolSize /\ initialized' = TRUE /\ lock' = NoClient
      /\ UNCHANGED <<pool, created, opened, writer, conn, temporary, writes,
                     answer, ledger, openErrors>>
  BY DEF Filled, Goto
<1>2. /\ lock = c /\ ~initialized /\ Len(pool) = PoolSize
  BY <1>1, LenProperties, PoolAssumption DEF PoolIInv, PoolTyped, Places
<1>3. PoolTyped'
  BY <1>1 DEF PoolIInv, PoolTyped
<1>4. Places'
  BY <1>1, <1>2, PoolAssumption DEF PoolIInv, PoolTyped, Places
<1>5. Accounted'
  <2>1. Pooled' = Pooled /\ InUse' = InUse
    BY <1>1 DEF Pooled, InUse
  <2>2. Lent = {}
    BY <1>2 DEF PoolIInv, Places, Lent
  <2>3. Lent' = {}
    BY <1>1, <2>2 DEF Lent
  <2>4. PoolKeepsItsSize'
    <3>1. Len(pool') + Cardinality(Lent') = PoolSize
      BY <1>1, <1>2, <2>3, FS_EmptySet, PoolAssumption
    <3>2. QED
      BY <3>1, PoolAssumption DEF PoolKeepsItsSize, Lent
  <2>5. QED
    BY <1>1, <2>1, <2>4 DEF PoolIInv, Accounted
<1>6. QED
  BY <1>1, <1>3, <1>4, <1>5 DEF PoolIInv, AnswersAreTrue

\* What lending one more connection does to the set of those in use.
LEMMA UseGrows ==
  ASSUME PoolTyped, NEW c \in Clients, NEW x \in Conns,
         conn[c] = NoConn, conn' = [conn EXCEPT ![c] = x]
  PROVE  InUse' = InUse \union {x}
<1>1. x # NoConn
  BY PoolAssumption
<1>2. /\ conn'[c] = x /\ \A d \in Clients : d # c => conn'[d] = conn[d]
  BY DEF PoolTyped
<1>3. InUse' \subseteq InUse \union {x}
  BY <1>2 DEF InUse
<1>4. InUse \union {x} \subseteq InUse'
  <2>1. x \in InUse'
    BY <1>1, <1>2 DEF InUse
  <2>2. ASSUME NEW d \in Clients, conn[d] # NoConn PROVE conn[d] \in InUse'
    <3>1. d # c /\ conn'[d] = conn[d]
      BY <1>2, <2>2
    <3>2. QED
      BY <2>2, <3>1 DEF InUse
  <2>3. QED
    BY <2>1, <2>2 DEF InUse
<1>5. QED
  BY <1>3, <1>4

LEMMA GetKeeps ==
  ASSUME PoolIInv, NEW c \in Clients, Get(c)
  PROVE  PoolIInv'
<1> DEFINE x == Head(pool)
<1>1. /\ pc[c] = "getting" /\ pc' = [pc EXCEPT ![c] = "body"] /\ pool # <<>>
      /\ conn' = [conn EXCEPT ![c] = x] /\ pool' = Tail(pool)
      /\ UNCHANGED <<initialized, lock, created, opened, writer, temporary,
                     writes, answer, ledger, openErrors>>
  BY DEF Get, Goto
<1>2. /\ initialized /\ conn[c] = NoConn /\ c \notin temporary
  BY <1>1 DEF PoolIInv, Places
<1>3. /\ x \in Pooled /\ x \in opened /\ x \in Conns /\ x # NoConn /\ x \notin InUse
      /\ pool' \in Seq(Conns) /\ Len(pool') = Len(pool) - 1 /\ Len(pool) \in Nat
      /\ Pooled' = Pooled \ {x} /\ IsInjective(pool')
  <2>1. pool \in Seq(Conns) /\ IsInjective(pool)
    BY DEF PoolIInv, PoolTyped, Accounted
  <2>2. /\ pool' \in Seq(Conns) /\ Len(pool') = Len(pool) - 1 /\ x \in Conns
        /\ Len(pool) \in Nat
    BY <1>1, <2>1, HeadTailProperties, LenProperties
  <2>3. x \in Pooled /\ Pooled' = Pooled \ {x} /\ IsInjective(pool')
    BY <1>1, <2>1, RangeTail DEF Pooled
  <2>4. x \in opened /\ x \notin InUse
    BY <2>3 DEF PoolIInv, Accounted
  <2>5. QED
    BY <2>2, <2>3, <2>4, PoolAssumption
<1> HIDE DEF x
<1>4. /\ conn'[c] = x /\ \A d \in Clients : d # c => conn'[d] = conn[d]
      /\ pc'[c] = "body" /\ \A d \in Clients : d # c => pc'[d] = pc[d]
  BY <1>1 DEF PoolIInv, PoolTyped
<1>5. PoolTyped'
  BY <1>1, <1>3, PoolAssumption DEF PoolIInv, PoolTyped
<1>6. Places'
  BY <1>1, <1>2, <1>3, <1>4 DEF PoolIInv, Places
<1>7. Accounted'
  <2>1. InUse' = InUse \union {x}
    BY <1>1, <1>2, <1>3, UseGrows DEF PoolIInv
  <2>2. \A d \in Clients : conn[d] # x
    BY <1>3 DEF InUse
  <2>3. \A d, e \in Clients : d # e /\ conn'[d] # NoConn => conn'[d] # conn'[e]
    BY <1>3, <1>4, <2>2 DEF PoolIInv, Accounted
  <2>4. PoolKeepsItsSize'
    <3>1. c \notin Lent /\ Lent' = Lent \union {c}
      BY <1>1, <1>2, <1>3, <1>4 DEF Lent
    <3>2. Cardinality(Lent') = Cardinality(Lent) + 1 /\ Cardinality(Lent) \in Nat
      BY <3>1, LentFinite, FS_AddElement DEF PoolIInv
    <3>3. Len(pool) + Cardinality(Lent) = PoolSize
      BY <1>2 DEF PoolIInv, Accounted, PoolKeepsItsSize, Lent
    <3>4. Len(pool') + Cardinality(Lent') = PoolSize
      BY <1>3, <3>2, <3>3
    <3>5. QED
      BY <3>4, PoolAssumption DEF PoolKeepsItsSize, Lent
  <2>5. QED
    BY <1>1, <1>3, <2>1, <2>3, <2>4 DEF PoolIInv, Accounted
<1>8. QED
  BY <1>1, <1>5, <1>6, <1>7 DEF PoolIInv, AnswersAreTrue

LEMMA GetTimesOutKeeps ==
  ASSUME PoolIInv, NEW c \in Clients, GetTimesOut(c)
  PROVE  PoolIInv'
<1> DEFINE x == Fresh
<1>1. /\ pc[c] = "getting" /\ pc' = [pc EXCEPT ![c] = "body"]
      /\ conn' = [conn EXCEPT ![c] = x] /\ opened' = opened \union {x}
      /\ temporary' = temporary \union {c}
      /\ UNCHANGED <<pool, initialized, lock, created, writer, writes, answer,
                     ledger, openErrors>>
  BY DEF GetTimesOut, Goto
<1>2. /\ initialized /\ conn[c] = NoConn /\ c \notin temporary
  BY <1>1 DEF PoolIInv, Places
<1>3. /\ x \in Conns /\ x \notin opened /\ x # NoConn
      /\ x \notin InUse /\ x \notin Pooled
  BY FreshIsFree, PoolAssumption DEF PoolIInv, Accounted
<1> HIDE DEF x
<1>4. /\ conn'[c] = x /\ \A d \in Clients : d # c => conn'[d] = conn[d]
      /\ pc'[c] = "body" /\ \A d \in Clients : d # c => pc'[d] = pc[d]
  BY <1>1 DEF PoolIInv, PoolTyped
<1>5. PoolTyped'
  BY <1>1, <1>3 DEF PoolIInv, PoolTyped
<1>6. Places'
  BY <1>1, <1>2, <1>3, <1>4 DEF PoolIInv, Places
<1>7. Accounted'
  <2>1. InUse' = InUse \union {x} /\ Pooled' = Pooled
    BY <1>1, <1>2, <1>3, UseGrows DEF PoolIInv, Pooled
  <2>2. \A d \in Clients : conn[d] # x
    BY <1>3 DEF InUse
  <2>3. \A d, e \in Clients : d # e /\ conn'[d] # NoConn => conn'[d] # conn'[e]
    BY <1>3, <1>4, <2>2 DEF PoolIInv, Accounted
  <2>4. PoolKeepsItsSize'
    <3>1. Lent' = Lent
      BY <1>1, <1>2, <1>3, <1>4 DEF Lent
    <3>2. QED
      BY <1>1, <3>1 DEF PoolIInv, Accounted, PoolKeepsItsSize, Lent
  <2>5. QED
    BY <1>1, <1>3, <2>1, <2>3, <2>4 DEF PoolIInv, Accounted
<1>8. QED
  BY <1>1, <1>5, <1>6, <1>7 DEF PoolIInv, AnswersAreTrue

\* While a client is between its write and its commit, nobody else is.
LEMMA OneWrites ==
  ASSUME PoolIInv, NEW c \in Clients, pc[c] \in {"body", "written"}, MayWrite(c)
  PROVE  \A d \in Clients : d # c => pc[d] # "written"
BY PoolAssumption DEF PoolIInv, PoolTyped, Places, Accounted, MayWrite

\* The body of the with-statement, up to the write.
LEMMA BodyKeeps ==
  ASSUME PoolIInv, NEW c \in Clients,
         Read(c) \/ Execute(c) \/ ConstraintFails(c) \/ LockTimesOut(c)
  PROVE  PoolIInv'
<1> USE DEF Goto, Answer
<1>1. UNCHANGED <<pool, initialized, lock, created, opened, conn, temporary,
                  writes, committer, openErrors>>
  BY DEF Read, Execute, ConstraintFails, LockTimesOut
<1>2. Accounted'
  BY <1>1, PoolUntouched
<1>3. /\ pc[c] = "body" /\ conn[c] \in opened /\ conn[c] # NoConn /\ initialized
      /\ answer[c] = "none" /\ committer[c] = NoClient /\ c \notin uncommitted
  BY DEF Read, Execute, ConstraintFails, LockTimesOut, PoolIInv, Places,
         PoolTyped
<1>4. CASE Read(c) \/ LockTimesOut(c)
  <2>1. /\ pc' = [pc EXCEPT ![c] = "leaving"]
        /\ answer' \in [Clients -> {"none", "ok", "error"}]
        /\ writes[c] => answer'[c] = "error"
        /\ \A d \in Clients : d # c => answer'[d] = answer[d]
        /\ UNCHANGED <<writer, uncommitted>>
    BY <1>4 DEF Read, LockTimesOut, PoolIInv, PoolTyped
  <2>2. PoolTyped'
    BY <1>1, <2>1 DEF PoolIInv, PoolTyped
  <2>3. Places'
    BY <1>1, <1>3, <2>1 DEF PoolIInv, PoolTyped, Places
  <2>4. AnswersAreTrue'
    BY <1>1, <1>3, <2>1, PoolAssumption
       DEF PoolIInv, PoolTyped, AnswersAreTrue
  <2>5. QED
    BY <1>2, <2>2, <2>3, <2>4 DEF PoolIInv
<1>5. CASE Execute(c)
  <2>1. /\ pc' = [pc EXCEPT ![c] = "written"] /\ writer' = conn[c]
        /\ uncommitted' = uncommitted \union {c} /\ answer' = answer
        /\ \A d \in Clients : d # c => pc[d] # "written"
    BY <1>3, <1>5, OneWrites DEF Execute
  <2>2. PoolTyped'
    BY <1>1, <1>3, <2>1 DEF PoolIInv, PoolTyped
  <2>3. Places'
    BY <1>1, <1>3, <2>1 DEF PoolIInv, PoolTyped, Places
  <2>4. AnswersAreTrue'
    <3>1. \A d \in Clients : answer'[d] # "none" /\ writes'[d] =>
            (answer'[d] = "ok" <=> committer'[d] = d)
      BY <1>1, <2>1 DEF PoolIInv, AnswersAreTrue
    <3>2. \A d \in uncommitted' : /\ answer'[d] # "ok"
                                  /\ committer'[d] = NoClient
                                  /\ writer' # NoConn
      BY <1>1, <1>3, <2>1 DEF PoolIInv, AnswersAreTrue
    <3>3. QED
      BY <3>1, <3>2 DEF AnswersAreTrue
  <2>5. QED
    BY <1>2, <2>2, <2>3, <2>4 DEF PoolIInv
<1>6. CASE ConstraintFails(c)
  <2>1. /\ pc' = [pc EXCEPT ![c] = "leaving"] /\ writer' = conn[c]
        /\ uncommitted' = uncommitted
        /\ answer' = [answer EXCEPT ![c] = "error"]
        /\ \A d \in Clients : d # c => pc[d] # "written"
    BY <1>3, <1>6, OneWrites DEF ConstraintFails
  <2>2. PoolTyped'
    BY <1>1, <1>3, <2>1 DEF PoolIInv, PoolTyped
  <2>3. Places'
    BY <1>1, <1>3, <2>1 DEF PoolIInv, PoolTyped, Places
  <2>4. AnswersAreTrue'
    BY <1>1, <1>3, <2>1, PoolAssumption DEF PoolIInv, PoolTyped, AnswersAreTrue
  <2>5. QED
    BY <1>2, <2>2, <2>3, <2>4 DEF PoolIInv
<1>7. QED
  BY <1>4, <1>5, <1>6

\* Its end: the transaction is the client's own, whoever else's writes are in it.
LEMMA CommitKeeps ==
  ASSUME PoolIInv, NEW c \in Clients, Commit(c) \/ CommitFails(c)
  PROVE  PoolIInv'
<1> USE DEF Goto, Answer
<1>1. UNCHANGED <<pool, initialized, lock, created, opened, conn, temporary,
                  writes, openErrors>>
  BY DEF Commit, CommitFails
<1>2. Accounted'
  BY <1>1, PoolUntouched
<1>3. /\ pc[c] = "written" /\ writer = conn[c] /\ conn[c] # NoConn
      /\ c \in uncommitted /\ initialized
      /\ answer[c] = "none" /\ committer[c] = NoClient
  BY DEF Commit, CommitFails, PoolIInv, Places
<1>4. \A d \in Clients : d # c => pc[d] # "written"
  BY <1>3, OneWrites DEF MayWrite
<1>5. /\ pc' = [pc EXCEPT ![c] = "leaving"]
      /\ \A d \in Clients : pc'[d] # "written"
  BY <1>4 DEF Commit, CommitFails, PoolIInv, PoolTyped
<1>6. CASE Commit(c)
  <2>1. /\ committer' =
             [d \in Clients |-> IF d \in uncommitted THEN c ELSE committer[d]]
        /\ uncommitted' = {} /\ writer' = NoConn
        /\ answer' = [answer EXCEPT ![c] = "ok"]
    BY <1>6 DEF Commit
  <2>2. PoolTyped'
    BY <1>1, <1>5, <2>1 DEF PoolIInv, PoolTyped
  <2>3. Places'
    BY <1>1, <1>3, <1>4, <1>5, <2>1 DEF PoolIInv, PoolTyped, Places
  <2>4. AnswersAreTrue'
    BY <1>1, <1>3, <2>1 DEF PoolIInv, PoolTyped, AnswersAreTrue
  <2>5. QED
    BY <1>2, <2>2, <2>3, <2>4 DEF PoolIInv
<1>7. CASE CommitFails(c)
  <2>1. /\ answer' = [answer EXCEPT ![c] = "error"] /\ committer' = committer
        /\ \/ UNCHANGED <<writer, uncommitted>>
           \/ writer' = NoConn /\ uncommitted' = {}
    BY <1>7 DEF CommitFails
  <2>2. PoolTyped'
    BY <1>1, <1>5, <2>1 DEF PoolIInv, PoolTyped
  <2>3. Places'
    BY <1>1, <1>3, <1>5, <2>1 DEF PoolIInv, PoolTyped, Places
  <2>4. AnswersAreTrue'
    BY <1>1, <1>3, <2>1, PoolAssumption DEF PoolIInv, PoolTyped, AnswersAreTrue
  <2>5. QED
    BY <1>2, <2>2, <2>3, <2>4 DEF PoolIInv
<1>8. QED
  BY <1>6, <1>7

LEMMA PutBackKeeps ==
  ASSUME PoolIInv, NEW c \in Clients, PutBack(c)
  PROVE  PoolIInv'
<1> DEFINE x == conn[c]
<1>1. /\ pc[c] = "leaving" /\ pc' = [pc EXCEPT ![c] = "idle"]
      /\ conn' = [conn EXCEPT ![c] = NoConn] /\ temporary' = temporary \ {c}
      /\ UNCHANGED <<initialized, lock, created, writes, answer, committer,
                     openErrors>>
  BY DEF PutBack, Goto
<1>2. /\ initialized /\ x # NoConn /\ x \in opened /\ x \in Conns
      /\ x \in InUse /\ x \notin Pooled
  <2>1. initialized /\ x # NoConn /\ x \in opened
    BY <1>1 DEF PoolIInv, PoolTyped, Places
  <2>2. x \in InUse /\ x \in Conns
    BY <2>1 DEF InUse, PoolIInv, PoolTyped
  <2>3. QED
    BY <2>1, <2>2 DEF PoolIInv, Accounted
<1>3. /\ conn'[c] = NoConn /\ \A d \in Clients : d # c => conn'[d] = conn[d]
      /\ pc'[c] = "idle" /\ \A d \in Clients : d # c => pc'[d] = pc[d]
      /\ \A d \in Clients : d # c => conn[d] # x
  BY <1>1, <1>2 DEF PoolIInv, PoolTyped, Accounted
<1>4. InUse' = InUse \ {x}
  <2>1. InUse' \subseteq InUse \ {x}
    <3>1. ASSUME NEW d \in Clients, conn'[d] # NoConn
          PROVE  conn'[d] \in InUse /\ conn'[d] # x
      <4>1. d # c /\ conn'[d] = conn[d]
        BY <1>3, <3>1
      <4>2. QED
        BY <1>3, <3>1, <4>1 DEF InUse
    <3>2. QED
      BY <3>1 DEF InUse
  <2>2. InUse \ {x} \subseteq InUse'
    <3>1. ASSUME NEW d \in Clients, conn[d] # NoConn, conn[d] # x
          PROVE  conn[d] \in InUse'
      <4>1. d # c /\ conn'[d] = conn[d]
        BY <1>3, <3>1
      <4>2. QED
        BY <3>1, <4>1 DEF InUse
    <3>2. QED
      BY <3>1 DEF InUse
  <2>3. QED
    BY <2>1, <2>2
<1>5. \A d, e \in Clients : d # e /\ conn'[d] # NoConn => conn'[d] # conn'[e]
  BY <1>3 DEF PoolIInv, Accounted
<1>6. Places' /\ AnswersAreTrue'
  <2>1. UNCHANGED pool \/ \A d \in Clients : pc[d] # "filling"
    BY <1>2 DEF PoolIInv, Places
  <2>2. \/ UNCHANGED <<writer, uncommitted>>
        \/ writer = x /\ writer' = NoConn /\ uncommitted' = {}
    BY DEF PutBack, Close
  <2>3. \A d \in Clients : pc'[d] = "written" => writer # x
    BY <1>3 DEF PoolIInv, Places
  <2>4. Places'
    BY <1>1, <1>2, <1>3, <2>1, <2>2, <2>3 DEF PoolIInv, Places
  <2>5. AnswersAreTrue'
    BY <1>1, <2>2 DEF PoolIInv, AnswersAreTrue
  <2>6. QED
    BY <2>4, <2>5
<1>7. Len(pool) + Cardinality(Lent) = PoolSize /\ Len(pool) \in Nat
  BY <1>2, LenProperties
     DEF PoolIInv, PoolTyped, Accounted, PoolKeepsItsSize, Lent
<1>8. CASE c \in temporary
  <2>1. /\ opened' = opened \ {x} /\ UNCHANGED pool
        /\ \/ UNCHANGED <<writer, uncommitted>> /\ writer # x
           \/ writer' = NoConn /\ uncommitted' = {}
    BY <1>8 DEF PutBack, Close
  <2>2. \A d \in Clients : conn'[d] \in opened' \union {NoConn}
    BY <1>3, <2>1 DEF PoolIInv, PoolTyped
  <2>3. PoolTyped'
    BY <1>1, <2>1, <2>2 DEF PoolIInv, PoolTyped
  <2>4. Pooled' = Pooled /\ Pooled' \union InUse' = opened'
    BY <1>2, <1>4, <2>1 DEF PoolIInv, Accounted, Pooled
  <2>5. Lent' = Lent
    BY <1>1, <1>3, <1>8 DEF Lent
  <2>6. PoolKeepsItsSize'
    <3>1. Len(pool') + Cardinality(Lent') = PoolSize
      BY <1>7, <2>1, <2>5
    <3>2. QED
      BY <3>1, PoolAssumption DEF PoolKeepsItsSize, Lent
  <2>7. Accounted'
    BY <1>4, <1>5, <2>1, <2>4, <2>6 DEF PoolIInv, Accounted
  <2>8. QED
    BY <1>6, <2>3, <2>7 DEF PoolIInv
<1>9. CASE c \notin temporary
  <2>1. c \in Lent /\ Lent' = Lent \ {c}
    BY <1>1, <1>2, <1>3, <1>9 DEF Lent
  <2>2. /\ Cardinality(Lent') = Cardinality(Lent) - 1
        /\ Cardinality(Lent) \in Nat /\ Cardinality(Lent') \in Nat
    <3>1. IsFiniteSet(Lent) /\ Cardinality(Lent) \in Nat
      BY LentFinite DEF PoolIInv
    <3>2. IsFiniteSet(Lent \ {c}) /\ Cardinality(Lent \ {c}) = Cardinality(Lent) - 1
      BY <2>1, <3>1, FS_RemoveElement
    <3>3. Cardinality(Lent \ {c}) \in Nat
      BY <3>2, FS_CardinalityType
    <3>4. QED
      BY <2>1, <3>1, <3>2, <3>3
  <2>3. Len(pool) < PoolSize
    BY <1>7, <2>2, PoolAssumption
  <2>4. pool' = Append(pool, x) /\ UNCHANGED <<opened, writer, uncommitted>>
    BY <1>9, <2>3 DEF PutBack
  <2>5. /\ pool' \in Seq(Conns) /\ Len(pool') = Len(pool) + 1
        /\ Pooled' = Pooled \union {x} /\ IsInjective(pool')
    <3>1. pool \in Seq(Conns) /\ IsInjective(pool) /\ x \notin Range(pool)
      BY <1>2 DEF PoolIInv, PoolTyped, Accounted, Pooled
    <3>2. pool' \in Seq(Conns) /\ Len(pool') = Len(pool) + 1
      BY <1>2, <2>4, <3>1, AppendProperties
    <3>3. Range(pool') = Range(pool) \union {x} /\ IsInjective(pool')
      BY <1>2, <2>4, <3>1, RangeAppend
    <3>4. QED
      BY <3>2, <3>3 DEF Pooled
  <2>6. PoolTyped'
    BY <1>1, <1>7, <2>3, <2>4, <2>5, PoolAssumption DEF PoolIInv, PoolTyped
  <2>7. Len(pool') + Cardinality(Lent') = PoolSize
    BY <1>7, <2>2, <2>5
  <2>8. PoolKeepsItsSize'
    BY <2>7, PoolAssumption DEF PoolKeepsItsSize, Lent
  <2>9. Pooled' \intersect InUse' = {} /\ Pooled' \union InUse' = opened'
    BY <1>2, <1>4, <2>4, <2>5 DEF PoolIInv, Accounted
  <2>10. QED
    BY <1>5, <1>6, <2>5, <2>6, <2>8, <2>9 DEF PoolIInv, Accounted
<1>10. QED
  BY <1>8, <1>9

LEMMA PoolStepKeeps == PoolIInv /\ [Next]_vars => PoolIInv'
<1> SUFFICES ASSUME PoolIInv, [Next]_vars PROVE PoolIInv'
  OBVIOUS
<1>1. CASE UNCHANGED vars
  <2>1. UNCHANGED <<pool, initialized, lock, created, opened, writer, pc, conn,
                    temporary, writes, answer, ledger, openErrors>>
    BY <1>1 DEF vars
  <2>2. Accounted'
    BY <2>1, PoolUntouched
  <2>3. QED
    BY <2>1, <2>2 DEF PoolIInv, PoolTyped, Places, AnswersAreTrue
<1>2. CASE Next
  BY <1>2, SetupKeeps, FillKeeps, FilledKeeps, GetKeeps, GetTimesOutKeeps,
     BodyKeeps, CommitKeeps, PutBackKeeps DEF Next, Step
<1>3. QED
  BY <1>1, <1>2

(***************************************************************************)
(* Start-up                                                                *)
(***************************************************************************)

Row == "log_settings_row"

\* What the proofs know of the script: every object has its statement, and
\* only a seed makes the settings row.
LEMMA ScriptFacts ==
  /\ Len(Script) \in Nat /\ DOMAIN Script = 1..Len(Script)
  /\ \A i \in DOMAIN Script : Script[i].obj = Row => Script[i].op = "seed"
  /\ \A o \in Columns \union {Row, "users", "detection_logs", "config_history",
                              "log_settings"} :
       \E i \in DOMAIN Script : Script[i].obj = o
<1> DEFINE Statements ==
             {Create("users"), Create("detection_logs"), Create("chat_messages"),
              AddColumn("vision_description"), AddColumn("decision_details"),
              AddColumn("tool_trace"), Create("config_history"),
              Create("log_settings"), Seed("log_settings_row"),
              Create("pcb_defects"), Create("pcb_frame_store"),
              Create("pcb_inspections"), Create("notification_preferences"),
              Seed("notification_row")}
<1>1. /\ CoreSchema \in Seq(Statements) /\ Len(CoreSchema) = 3
      /\ CoreSchema[1] = Create("users")
      /\ CoreSchema[2] = Create("detection_logs")
      /\ CoreSchema[3] = Create("chat_messages")
  BY Three DEF CoreSchema
<1>2. /\ Migrations \in Seq(Statements) /\ Len(Migrations) = 3
      /\ Migrations[1] = AddColumn("vision_description")
      /\ Migrations[2] = AddColumn("decision_details")
      /\ Migrations[3] = AddColumn("tool_trace")
  BY Three DEF Migrations
<1>3. /\ LaterSchema \in Seq(Statements) /\ Len(LaterSchema) = 8
      /\ LaterSchema[1] = Create("config_history")
      /\ LaterSchema[2] = Create("log_settings")
      /\ LaterSchema[3] = Seed("log_settings_row")
      /\ LaterSchema[4] = Create("pcb_defects")
      /\ LaterSchema[5] = Create("pcb_frame_store")
      /\ LaterSchema[6] = Create("pcb_inspections")
      /\ LaterSchema[7] = Create("notification_preferences")
      /\ LaterSchema[8] = Seed("notification_row")
  BY Eight DEF LaterSchema
<1> HIDE DEF Statements
<1> DEFINE head == CoreSchema \o Migrations
<1>4. /\ head \in Seq(Statements) /\ Len(head) = 6
      /\ head[1] = CoreSchema[1] /\ head[2] = CoreSchema[2]
      /\ head[3] = CoreSchema[3] /\ head[4] = Migrations[1]
      /\ head[5] = Migrations[2] /\ head[6] = Migrations[3]
  <2>1. /\ CoreSchema \o Migrations \in Seq(Statements)
        /\ Len(CoreSchema \o Migrations) = Len(CoreSchema) + Len(Migrations)
        /\ \A i \in 1..Len(CoreSchema) + Len(Migrations) :
             (CoreSchema \o Migrations)[i] = IF i <= Len(CoreSchema) THEN CoreSchema[i]
                                ELSE Migrations[i - Len(CoreSchema)]
    BY <1>1, <1>2, ConcatProperties
  <2>2. QED
    BY <1>1, <1>2, <2>1
<1>5. /\ Script \in Seq(Statements) /\ Len(Script) = 14
      /\ \A i \in 1..6 : Script[i] = head[i]
      /\ \A i \in 7..14 : Script[i] = LaterSchema[i - 6]
  <2> HIDE DEF head
  <2>1. /\ head \o LaterSchema \in Seq(Statements)
        /\ Len(head \o LaterSchema) = Len(head) + Len(LaterSchema)
        /\ \A i \in 1..Len(head) + Len(LaterSchema) :
             (head \o LaterSchema)[i] = IF i <= Len(head) THEN head[i]
                                ELSE LaterSchema[i - Len(head)]
    BY <1>3, <1>4, ConcatProperties
  <2>2. Script = head \o LaterSchema
    BY DEF Script, head
  <2>3. /\ Script \in Seq(Statements) /\ Len(Script) = Len(head) + Len(LaterSchema)
        /\ \A i \in 1..Len(head) + Len(LaterSchema) :
             Script[i] = IF i <= Len(head) THEN head[i]
                         ELSE LaterSchema[i - Len(head)]
    BY <2>1, <2>2, Zenon
  <2>4. QED
    BY <1>3, <1>4, <2>3
<1> HIDE DEF head
<1>6. DOMAIN Script = 1..14
  BY <1>5, LenProperties
<1>7. /\ Script[1] = Create("users") /\ Script[2] = Create("detection_logs")
      /\ Script[3] = Create("chat_messages")
      /\ Script[4] = AddColumn("vision_description")
      /\ Script[5] = AddColumn("decision_details")
      /\ Script[6] = AddColumn("tool_trace")
  BY <1>1, <1>2, <1>4, <1>5
<1>8. /\ Script[7] = Create("config_history") /\ Script[8] = Create("log_settings")
      /\ Script[9] = Seed("log_settings_row") /\ Script[10] = Create("pcb_defects")
      /\ Script[11] = Create("pcb_frame_store")
      /\ Script[12] = Create("pcb_inspections")
      /\ Script[13] = Create("notification_preferences")
      /\ Script[14] = Seed("notification_row")
  BY <1>3, <1>5
<1>9. /\ \A o : Create(o).obj = o /\ AddColumn(o).obj = o /\ Seed(o).obj = o
      /\ \A o : Seed(o).op = "seed"
  BY DEF Create, AddColumn, Seed
<1>10. \A o \in Columns \union {Row, "users", "detection_logs", "config_history",
                              "log_settings"} :
         \E i \in DOMAIN Script : Script[i].obj = o
  BY <1>6, <1>7, <1>8, <1>9 DEF Columns, Row
<1>11. \A i \in DOMAIN Script : Script[i].obj = Row => Script[i].op = "seed"
  <2> SUFFICES ASSUME NEW i \in 1..14, Script[i].obj = Row, i # 9
               PROVE  FALSE
    BY <1>6, <1>8, <1>9
  <2>1. CASE i \in 1..6
    <3>1. \/ i = 1 \/ i = 2 \/ i = 3 \/ i = 4 \/ i = 5 \/ i = 6
      BY <2>1
    <3>2. QED
      BY <1>7, <1>9, <3>1 DEF Row
  <2>2. CASE i \in 7..14
    <3>1. \/ i = 7 \/ i = 8 \/ i = 10 \/ i = 11 \/ i = 12 \/ i = 13 \/ i = 14
      BY <2>2
    <3>2. QED
      BY <1>8, <1>9, <3>1 DEF Row
  <2>3. QED
    BY <2>1, <2>2
<1>12. QED
  BY <1>5, <1>6, <1>10, <1>11

\* What a running start-up has run so far is in the file or in the open
\* transaction, and the settings row is where the settings are.
StartedSoFar ==
  /\ ready <=> at = 0
  /\ ready => db = Objects /\ pending = {}
  /\ \A i \in DOMAIN Script : i < at => Script[i].obj \in Visible
  /\ settings = "none" <=> Row \notin db
  /\ Row \in pending => Row \notin db

SetupIInv == SetupTypeOK /\ StartedSoFar

LEMMA SetupInitial == SetupInit => SetupIInv
<1> SUFFICES ASSUME SetupInit PROVE SetupIInv
  OBVIOUS
<1>1. Len(Script) \in Nat /\ DOMAIN Script = 1..Len(Script)
  BY ScriptFacts
<1>2. SetupTypeOK
  <2>1. {"users", "detection_logs", "config_history", "log_settings",
         "log_settings_row"} \union Columns \subseteq Objects
    BY ScriptFacts DEF Objects, Row
  <2>2. settings = "none" \/ settings = "custom"
    BY DEF SetupInit
  <2>3. at = 1 /\ crashes = 0 /\ pending = {} /\ inTx = FALSE /\ ready = FALSE
    BY DEF SetupInit
  <2>4. db \subseteq Objects
    BY <2>1 DEF SetupInit
  <2>5. at \in 0..Len(Script) + 1 /\ crashes \in 0..MaxCrashes
    BY <1>1, <2>3, MaxCrashesAssumption
  <2>6. QED
    BY <2>2, <2>3, <2>4, <2>5 DEF SetupTypeOK
<1>3. StartedSoFar
  BY <1>1 DEF SetupInit, StartedSoFar, Row, Columns
<1>4. QED
  BY <1>2, <1>3 DEF SetupIInv

\* A statement adds only objects of the script, and a settings row only when
\* it is the seed of one.
LEMMA EffectIsKnown ==
  ASSUME NEW st, st.obj \in Objects, "detection_logs" \in Objects
  PROVE  /\ Effect(st) \subseteq Objects
         /\ st.obj \in Visible \union Effect(st)
         /\ Row \in Effect(st) => st.obj = Row /\ Row \notin Visible
<1>1. st = Create("detection_logs") => st.obj = "detection_logs"
  BY DEF Create
<1>2. Columns \subseteq Objects /\ Row \notin Columns
  BY DEF Objects, Columns, Row
<1>3. Effect(st) \subseteq Objects
  BY <1>2 DEF Effect
<1>4. QED
  BY <1>1, <1>2, <1>3 DEF Effect

LEMMA RunStatementKeeps == SetupIInv /\ RunStatement => SetupIInv'
<1> SUFFICES ASSUME SetupIInv, RunStatement PROVE SetupIInv'
  OBVIOUS
<1> DEFINE st == Script[at]
<1>1. /\ at \in DOMAIN Script /\ at' = at + 1
      /\ UNCHANGED <<settings, ready, crashes>>
      /\ inTx' = (inTx \/ st.op = "seed")
      /\ IF inTx'
           THEN pending' = pending \union Effect(st) /\ UNCHANGED db
           ELSE db' = db \union Effect(st) /\ UNCHANGED pending
  BY DEF RunStatement
<1>2. /\ Len(Script) \in Nat /\ DOMAIN Script = 1..Len(Script)
      /\ st.obj = Row => st.op = "seed"
      /\ "detection_logs" \in Objects /\ st.obj \in Objects
  BY <1>1, ScriptFacts DEF Objects
<1>3. /\ Effect(st) \subseteq Objects
      /\ st.obj \in Visible \union Effect(st)
      /\ Row \in Effect(st) => st.obj = Row /\ Row \notin Visible
  BY <1>2, EffectIsKnown
<1> HIDE DEF st
<1>4. SetupTypeOK'
  BY <1>1, <1>2, <1>3 DEF SetupIInv, SetupTypeOK
<1>5. Visible \subseteq Visible' /\ st.obj \in Visible'
  BY <1>1, <1>3 DEF Visible
<1>6. at # 0 /\ at \in Nat /\ ~ready
  BY <1>1, <1>2 DEF SetupIInv, StartedSoFar
<1>7. \A i \in DOMAIN Script : i < at' => Script[i].obj \in Visible'
  <2> SUFFICES ASSUME NEW i \in DOMAIN Script, i < at'
               PROVE  Script[i].obj \in Visible'
    OBVIOUS
  <2>1. i < at \/ i = at
    BY <1>1, <1>2, <1>6
  <2>2. QED
    BY <1>5, <2>1 DEF st, SetupIInv, StartedSoFar
<1>8. Row \in db' <=> Row \in db
  BY <1>1, <1>2, <1>3
<1>9. Row \in pending' => Row \notin db'
  BY <1>1, <1>2, <1>3, <1>8 DEF SetupIInv, StartedSoFar, Visible
<1>10. QED
  BY <1>1, <1>4, <1>6, <1>7, <1>8, <1>9 DEF SetupIInv, StartedSoFar

\* A finished start-up has made everything and lost no settings.
LEMMA FinishCompletes ==
  ASSUME SetupIInv, Finish
  PROVE  /\ db' = Objects /\ settings' # "none"
         /\ settings = "custom" => settings' = "custom"
<1>1. /\ at = Len(Script) + 1 /\ db' = Visible
      /\ settings' = IF Row \in pending THEN "default" ELSE settings
  BY DEF Finish, Row
<1>2. \A i \in DOMAIN Script : Script[i].obj \in Visible
  BY <1>1, ScriptFacts DEF SetupIInv, StartedSoFar
<1>3. Columns \union {Row} \subseteq Visible
  BY <1>2, ScriptFacts
<1>4. Visible = Objects
  BY <1>2, <1>3 DEF SetupIInv, SetupTypeOK, Objects, Visible
<1>5. Row \in pending \/ Row \in db
  BY <1>3 DEF Visible
<1>6. QED
  BY <1>1, <1>4, <1>5 DEF SetupIInv, StartedSoFar

LEMMA SetupStepKeeps ==
  SetupIInv /\ (RunStatement \/ Finish \/ EditSettings \/ Restart
                \/ UNCHANGED setupVars) => SetupIInv'
<1> SUFFICES ASSUME SetupIInv,
                    RunStatement \/ Finish \/ EditSettings \/ Restart
                      \/ UNCHANGED setupVars
             PROVE  SetupIInv'
  OBVIOUS
<1>1. Len(Script) \in Nat /\ DOMAIN Script = 1..Len(Script)
  BY ScriptFacts
<1>2. CASE RunStatement
  BY <1>2, RunStatementKeeps
<1>3. CASE Finish
  <2>1. /\ db' = Objects /\ settings' # "none" /\ pending' = {} /\ inTx' = FALSE
        /\ at' = 0 /\ ready' = TRUE /\ UNCHANGED crashes
        /\ settings' \in {settings, "default"}
    BY <1>3, FinishCompletes DEF Finish
  <2>2. SetupTypeOK'
    <3>1. at' \in 0..Len(Script) + 1 /\ pending' \subseteq Objects
      BY <1>1, <2>1
    <3>2. settings' \in {"none", "default", "custom"}
      BY <2>1 DEF SetupIInv, SetupTypeOK
    <3>3. QED
      BY <2>1, <3>1, <3>2 DEF SetupIInv, SetupTypeOK
  <2>3. Row \in Objects
    BY ScriptFacts DEF Objects
  <2>4. QED
    BY <1>1, <2>1, <2>2, <2>3 DEF SetupIInv, StartedSoFar
<1>4. CASE EditSettings
  <2>1. Row \in Objects
    BY ScriptFacts DEF Objects
  <2>2. QED
    BY <1>4, <2>1
       DEF EditSettings, SetupIInv, SetupTypeOK, StartedSoFar, Visible
<1>5. CASE Restart
  <2>1. /\ at' = 1 /\ ready' = FALSE /\ pending' = {} /\ inTx' = FALSE
        /\ UNCHANGED <<db, settings>> /\ crashes' \in 0..MaxCrashes
    BY <1>5, MaxCrashesAssumption DEF Restart, SetupIInv, SetupTypeOK
  <2>2. at' \in 0..Len(Script) + 1 /\ pending' \subseteq Objects
    BY <1>1, <2>1
  <2>3. SetupTypeOK'
    BY <2>1, <2>2 DEF SetupIInv, SetupTypeOK
  <2>4. StartedSoFar'
    BY <1>1, <2>1 DEF SetupIInv, StartedSoFar
  <2>5. QED
    BY <2>3, <2>4 DEF SetupIInv
<1>6. CASE UNCHANGED setupVars
  BY <1>6 DEF setupVars, SetupIInv, SetupTypeOK, StartedSoFar, Visible
<1>7. QED
  BY <1>2, <1>3, <1>4, <1>5, <1>6

(***************************************************************************)
(* Start-up, pool and crashes together                                     *)
(***************************************************************************)

StorageIInv == PoolIInv /\ SetupIInv

\* The new process knows nothing of the old pool.
LEMMA CrashKeeps == StorageIInv /\ Crash => StorageIInv'
<1> SUFFICES ASSUME StorageIInv, Crash PROVE StorageIInv'
  OBVIOUS
<1>1. /\ pool' = <<>> /\ initialized' = FALSE /\ lock' = NoClient /\ created' = 0
      /\ opened' = {} /\ writer' = NoConn
      /\ pc' = [c \in Clients |-> "idle"] /\ conn' = [c \in Clients |-> NoConn]
      /\ temporary' = {} /\ answer' = [c \in Clients |-> "none"]
      /\ uncommitted' = {}
      /\ UNCHANGED <<writes, committer, openErrors>>
  BY DEF Crash
<1>2. SetupIInv'
  BY SetupStepKeeps DEF Crash, StorageIInv
<1>3. pool' \in Seq(Conns) /\ Len(pool') = 0 /\ DOMAIN pool' = {}
  <2>1. pool' \in Seq(Conns) /\ Len(pool') = 0
    BY <1>1, EmptySeq
  <2>2. DOMAIN pool' = 1..0
    BY <2>1, LenProperties
  <2>3. QED
    BY <2>1, <2>2
<1>4. PoolTyped'
  <2>1. created' \in 0..PoolSize /\ Len(pool') <= PoolSize
    BY <1>1, <1>3, PoolAssumption
  <2>2. opened' \subseteq Conns /\ temporary' \subseteq Clients
    BY <1>1
  <2>3. conn' \in [Clients -> opened' \union {NoConn}]
    BY <1>1
  <2>4. QED
    BY <1>1, <1>3, <2>1, <2>2, <2>3 DEF StorageIInv, PoolIInv, PoolTyped
<1>5. Places'
  BY <1>1, PoolAssumption DEF Places
<1>6. Accounted'
  <2>1. Pooled' = {} /\ IsInjective(pool')
    BY <1>3 DEF Pooled, Range, IsInjective
  <2>2. InUse' = {}
    BY <1>1 DEF InUse
  <2>3. Lent' = {}
    BY <1>1 DEF Lent
  <2>4. Cardinality(Lent') = 0
    BY <2>3, FS_EmptySet
  <2>5. Len(pool') + Cardinality(Lent') <= PoolSize
    BY <1>3, <2>4, PoolAssumption
  <2>6. PoolKeepsItsSize'
    BY <1>1, <2>5 DEF PoolKeepsItsSize, Lent
  <2>7. QED
    BY <1>1, <2>1, <2>2, <2>6 DEF Accounted
<1>7. AnswersAreTrue'
  BY <1>1 DEF AnswersAreTrue
<1>8. QED
  BY <1>2, <1>4, <1>5, <1>6, <1>7 DEF StorageIInv, PoolIInv

LEMMA StorageStepKeeps == StorageIInv /\ [StorageNext]_allVars => StorageIInv'
<1> SUFFICES ASSUME StorageIInv, [StorageNext]_allVars PROVE StorageIInv'
  OBVIOUS
<1>1. CASE Serve
  <2>1. PoolIInv'
    BY <1>1, PoolStepKeeps DEF Serve, StorageIInv
  <2>2. SetupIInv'
    BY <1>1, SetupStepKeeps DEF Serve, StorageIInv
  <2>3. QED
    BY <2>1, <2>2 DEF StorageIInv
<1>2. CASE StartUp
  <2>1. PoolIInv'
    BY <1>2, PoolStepKeeps DEF StartUp, StorageIInv
  <2>2. SetupIInv'
    BY <1>2, SetupStepKeeps DEF StartUp, StorageIInv
  <2>3. QED
    BY <2>1, <2>2 DEF StorageIInv
<1>3. CASE Crash
  BY <1>3, CrashKeeps
<1>4. CASE UNCHANGED allVars
  <2>1. UNCHANGED vars /\ UNCHANGED setupVars
    BY <1>4 DEF allVars
  <2>2. PoolIInv' /\ SetupIInv'
    BY <2>1, PoolStepKeeps, SetupStepKeeps DEF StorageIInv
  <2>3. QED
    BY <2>2 DEF StorageIInv
<1>5. QED
  BY <1>1, <1>2, <1>3, <1>4 DEF StorageNext

\* The inductive invariant: who holds what, who is answered when, and how far
\* a start-up has got (connection.py, all of it).
THEOREM StorageInductive == StorageSpec => []StorageIInv
<1>1. StorageInit => StorageIInv
  BY PoolInitial, SetupInitial DEF StorageInit, StorageIInv
<1>2. QED
  BY <1>1, StorageStepKeeps, PTL DEF StorageSpec

\* Every variable of the pool and of start-up keeps its type
\* (get_connection, init_db).
THEOREM StorageTypeCorrect == StorageSpec => []StorageTypeOK
<1>1. StorageIInv => StorageTypeOK
  BY PoolTypes DEF StorageIInv, PoolIInv, SetupIInv, StorageTypeOK
<1>2. QED
  BY <1>1, StorageInductive, PTL

\* However many threads borrow, fail, time out or crash, no connection is
\* shared, lost or queued twice, and the pool keeps its size
\* (get_connection, _initialize_pool).
THEOREM ConnectionsAreAccounted == StorageSpec => []Accounted
<1>1. StorageIInv => Accounted
  BY DEF StorageIInv, PoolIInv
<1>2. QED
  BY <1>1, StorageInductive, PTL

\* A with-block that returned put its own write into the database and one that
\* raised did not, whichever transactions were left open on its connection, and
\* whoever committed them (the repositories' bodies, get_connection).
THEOREM AnswersAreReal == StorageSpec => []AnswersAreTrue
<1>1. StorageIInv => AnswersAreTrue
  BY DEF StorageIInv, PoolIInv
<1>2. QED
  BY <1>1, StorageInductive, PTL

\* A start-up that ends leaves the whole schema, whatever file it found and
\* wherever earlier ones were cut off, and edited settings survive every
\* restart (init_db, _seed_log_settings).
THEOREM StartUpIsSound == StorageSpec => SetupIsSound
<1> DEFINE Sound == /\ ready' => db' = Objects /\ settings' # "none"
                    /\ settings = "custom" => settings' = "custom"
<1>1. StorageIInv /\ [StorageNext]_allVars => [Sound]_setupVars
  <2> SUFFICES ASSUME StorageIInv, [StorageNext]_allVars,
                      ~ UNCHANGED setupVars
               PROVE  Sound
    OBVIOUS
  <2>1. RunStatement \/ Finish \/ EditSettings \/ Restart
    BY DEF StorageNext, Serve, StartUp, Crash, allVars
  <2>2. CASE Finish
    BY <2>2, FinishCompletes DEF StorageIInv
  <2>3. CASE EditSettings
    BY <2>3 DEF EditSettings, StorageIInv, SetupIInv, StartedSoFar
  <2>4. CASE Restart
    BY <2>4 DEF Restart
  <2>5. CASE RunStatement
    <3>1. at # 0 /\ ready' = ready /\ settings' = settings
      BY <2>5, ScriptFacts DEF RunStatement
    <3>2. QED
      BY <3>1 DEF StorageIInv, SetupIInv, StartedSoFar
  <2>6. QED
    BY <2>1, <2>2, <2>3, <2>4, <2>5
<1>2. QED
  BY <1>1, StorageInductive, PTL DEF StorageSpec, SetupIsSound
=============================================================================
