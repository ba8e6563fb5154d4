-------------------------- MODULE TransactionProofs --------------------------
(***************************************************************************)
(* Proofs about the way of a transaction from the client to a block, for any *)
(* committee, any transactions and sizes, and any number of blocks.          *)
(***************************************************************************)
EXTENDS TransactionPath, BasicLemmas

(* Batches as pieces of the transactions.                                    *)

LEMMA ConsecutivePlaces ==
  ASSUME NEW f \in Nat, NEW l \in Nat, f <= l
  PROVE  /\ Consecutive(f, l) \in Seq(Nat) /\ Len(Consecutive(f, l)) = l - f
         /\ DOMAIN Consecutive(f, l) = 1 .. (l - f)
         /\ \A i \in 1 .. (l - f) : Consecutive(f, l)[i] = f + i
<1>1. PICK n \in Nat : n = l - f
  OBVIOUS
<1>2. Consecutive(f, l) \in [1 .. n -> Nat]
  BY <1>1 DEF Consecutive
<1>3. \A s \in [1 .. n -> Nat] : s \in Seq(Nat) /\ Len(s) = n
  OBVIOUS
<1> QED
  BY <1>1, <1>2, <1>3 DEF Consecutive

LEMMA ConsecutiveGrows ==
  ASSUME NEW f \in Nat, NEW l \in Nat, f <= l
  PROVE  Append(Consecutive(f, l), l + 1) = Consecutive(f, l + 1)
<1> DEFINE s == Append(Consecutive(f, l), l + 1)
           t == Consecutive(f, l + 1)
<1>1. /\ Consecutive(f, l) \in Seq(Nat) /\ Len(Consecutive(f, l)) = l - f
      /\ \A i \in 1 .. (l - f) : Consecutive(f, l)[i] = f + i
  BY ConsecutivePlaces
<1>2. /\ s \in Seq(Nat) /\ Len(s) = (l - f) + 1
      /\ \A i \in 1 .. (l - f) : s[i] = f + i
      /\ s[(l - f) + 1] = l + 1
  <2>1. l + 1 \in Nat
    OBVIOUS
  <2> QED
    BY <1>1, <2>1, Appended, AppendPlaces
<1>3. /\ t \in Seq(Nat) /\ Len(t) = (l + 1) - f
      /\ \A i \in 1 .. ((l + 1) - f) : t[i] = f + i
  <2>1. l + 1 \in Nat /\ f <= l + 1
    OBVIOUS
  <2> QED
    BY <2>1, ConsecutivePlaces
<1> HIDE DEF s, t
<1>4. Len(s) = Len(t)
  BY <1>2, <1>3
<1>5. ASSUME NEW i \in 1 .. Len(s)
      PROVE  s[i] = t[i]
  <2>1. i \in 1 .. (l - f) \/ i = (l - f) + 1
    BY <1>2
  <2>2. t[i] = f + i
    BY <1>2, <1>3
  <2> QED
    BY <1>2, <2>1, <2>2
<1> QED
  BY <1>2, <1>3, <1>4, <1>5, SeqEqual DEF s, t

\* The batches w are consecutive pieces of the first n transactions, and batch is the
\* piece after them.
CutBy(c, w, n, batch) ==
  /\ c \in [0 .. Len(w) -> 0 .. n]
  /\ c[0] = 0
  /\ \A i, j \in DOMAIN c : i < j => c[i] < c[j]
  /\ \A i \in DOMAIN w : w[i] = Consecutive(c[i - 1], c[i])
  /\ batch = Consecutive(c[Len(w)], n)

Cut(w, n, batch) == \E c : CutBy(c, w, n, batch)

LEMMA KeptIsCut == TransactionsKept <=> Cut(Path, taken, currentBatch)
BY DEF TransactionsKept, Cut, CutBy

LEMMA CutGrows ==
  ASSUME NEW S, NEW w \in Seq(S), NEW n \in Nat, NEW batch, Cut(w, n, batch)
  PROVE  Cut(w, n + 1, Append(batch, n + 1))
<1>1. PICK c : CutBy(c, w, n, batch)
  BY DEF Cut
<1>2. Len(w) \in Nat /\ Len(w) \in 0 .. Len(w)
  OBVIOUS
<1>3. c[Len(w)] \in Nat /\ c[Len(w)] <= n
  BY <1>1, <1>2 DEF CutBy
<1>4. Append(batch, n + 1) = Consecutive(c[Len(w)], n + 1)
  BY <1>1, <1>3, ConsecutiveGrows DEF CutBy
<1>5. c \in [0 .. Len(w) -> 0 .. (n + 1)]
  BY <1>1 DEF CutBy
<1>6. CutBy(c, w, n + 1, Append(batch, n + 1))
  BY <1>1, <1>4, <1>5 DEF CutBy
<1> QED
  BY <1>6 DEF Cut

LEMMA CutSeals ==
  ASSUME NEW S, NEW w \in Seq(S), NEW n \in Nat, NEW batch, Cut(w, n, batch),
         batch # <<>>
  PROVE  /\ Cut(Append(w, batch), n, <<>>)
         /\ \E f \in 0 .. n : f < n /\ batch = Consecutive(f, n)
<1>1. PICK c : CutBy(c, w, n, batch)
  BY DEF Cut
<1>2. PICK k \in Nat : k = Len(w) /\ k \in 0 .. k
  OBVIOUS
<1>3. PICK f \in 0 .. n : f = c[k]
  BY <1>1, <1>2 DEF CutBy
<1>4. batch = Consecutive(f, n)
  BY <1>1, <1>2, <1>3 DEF CutBy
<1>5. \A x \in 0 .. n : x = n \/ x < n
  OBVIOUS
<1>6. Consecutive(n, n) = <<>>
  <2>1. Consecutive(n, n) \in Seq(Nat) /\ Len(Consecutive(n, n)) = n - n
    BY ConsecutivePlaces
  <2>2. n - n = 0
    OBVIOUS
  <2> QED
    BY <2>1, <2>2, EmptySeq
<1>7. f < n
  BY <1>4, <1>5, <1>6
<1> DEFINE v == Append(w, batch)
           d == [i \in 0 .. (k + 1) |-> IF i <= k THEN c[i] ELSE n]
<1>8. /\ DOMAIN w = 1 .. k /\ DOMAIN v = 1 .. (k + 1) /\ Len(v) = k + 1
      /\ \A i \in 1 .. k : v[i] = w[i]
      /\ v[k + 1] = batch
  <2>1. w \in Seq(S \cup {batch}) /\ batch \in S \cup {batch}
    OBVIOUS
  <2> QED
    BY <1>2, <2>1, AppendPlaces, Appended
<1>9. d \in [0 .. (k + 1) -> 0 .. n] /\ d[0] = 0 /\ d[k + 1] = n
  <2>1. \A i \in 0 .. (k + 1) : i <= k => i \in 0 .. k
    OBVIOUS
  <2>2. c \in [0 .. k -> 0 .. n] /\ c[0] = 0
    BY <1>1, <1>2 DEF CutBy
  <2> QED
    BY <2>1, <2>2
<1>10. \A i \in 0 .. k : d[i] = c[i]
  BY <1>2
<1> HIDE DEF v, d
<1>11. ASSUME NEW i \in DOMAIN v
       PROVE  v[i] = Consecutive(d[i - 1], d[i])
  <2>1. CASE i \in 1 .. k
    <3>1. i - 1 \in 0 .. k /\ i \in 0 .. k /\ i \in DOMAIN w
      BY <1>8, <2>1
    <3>2. d[i - 1] = c[i - 1] /\ d[i] = c[i]
      BY <1>10, <3>1
    <3> QED
      BY <1>1, <1>8, <2>1, <3>1, <3>2 DEF CutBy
  <2>2. CASE i = k + 1
    <3>1. i - 1 = k
      BY <2>2
    <3>2. d[i - 1] = f /\ d[i] = n
      BY <1>2, <1>3, <1>9, <1>10, <2>2, <3>1
    <3> QED
      BY <1>4, <1>7, <1>8, <2>2, <3>2
  <2> QED
    BY <1>8, <2>1, <2>2
<1>12. ASSUME NEW i \in 0 .. (k + 1), NEW j \in 0 .. (k + 1), i < j
       PROVE  d[i] < d[j]
  <2>1. DOMAIN c = 0 .. k /\ \A x \in 0 .. k : c[x] \in 0 .. n
    BY <1>1, <1>2 DEF CutBy
  <2>2. i \in 0 .. k /\ d[i] = c[i]
    BY <1>10, <1>12
  <2>3. CASE j \in 0 .. k
    BY <1>1, <1>10, <1>12, <2>1, <2>2, <2>3 DEF CutBy
  <2>4. CASE j = k + 1
    <3>1. c[i] <= c[k]
      <4>1. CASE i = k
        BY <2>1, <2>2, <4>1
      <4>2. CASE i < k
        BY <1>1, <1>2, <2>1, <2>2, <4>2 DEF CutBy
      <4> QED
        BY <1>2, <2>2, <4>1, <4>2
    <3> QED
      BY <1>3, <1>7, <1>9, <2>1, <2>2, <2>4, <3>1
  <2> QED
    BY <1>2, <2>3, <2>4
<1>13. CutBy(d, v, n, <<>>)
  BY <1>6, <1>8, <1>9, <1>11, <1>12 DEF CutBy
<1> QED
  BY <1>4, <1>7, <1>13 DEF Cut, v

\* No two batches are the same.
LEMMA CutDistinct ==
  ASSUME NEW S, NEW w \in Seq(S), NEW n \in Nat, NEW batch, Cut(w, n, batch)
  PROVE  \A i, j \in DOMAIN w : w[i] = w[j] => i = j
<1>1. PICK c : CutBy(c, w, n, batch)
  BY DEF Cut
<1>2. DOMAIN w = 1 .. Len(w) /\ Len(w) \in Nat /\ DOMAIN c = 0 .. Len(w)
  BY <1>1 DEF CutBy
<1>3. \A i \in 0 .. Len(w) : c[i] \in Nat
  BY <1>1 DEF CutBy
<1>4. \A i \in DOMAIN w : i - 1 \in DOMAIN c /\ i \in DOMAIN c /\ i - 1 < i
  BY <1>2
<1>5. ASSUME NEW i \in DOMAIN w
      PROVE  w[i][1] = c[i - 1] + 1
  <2>1. PICK f \in Nat, l \in Nat : f = c[i - 1] /\ l = c[i]
    BY <1>2, <1>3, <1>4
  <2>2. f < l
    BY <1>1, <1>4, <2>1 DEF CutBy
  <2>3. w[i] = Consecutive(f, l)
    BY <1>1, <2>1 DEF CutBy
  <2>4. f <= l /\ 1 \in 1 .. (l - f)
    BY <2>1, <2>2
  <2>5. Consecutive(f, l)[1] = f + 1
    BY <2>4, ConsecutivePlaces
  <2> QED
    BY <2>1, <2>3, <2>5
<1>6. \A i, j \in DOMAIN w : i < j => c[i - 1] < c[j - 1]
  <2>1. \A i, j \in DOMAIN w : i < j => i - 1 < j - 1
    BY <1>2
  <2> QED
    BY <1>1, <1>4, <2>1 DEF CutBy
<1>7. \A i, j \in DOMAIN w : i < j \/ j < i \/ i = j
  BY <1>2
<1>8. \A i \in DOMAIN w : c[i - 1] \in Nat
  BY <1>2, <1>3, <1>4
<1>9. ASSUME NEW i \in DOMAIN w, NEW j \in DOMAIN w, w[i] = w[j]
      PROVE  c[i - 1] = c[j - 1]
  <2>1. PICK x \in Nat, y \in Nat : x = c[i - 1] /\ y = c[j - 1]
    BY <1>8
  <2>2. x + 1 = y + 1
    BY <1>5, <1>9, <2>1
  <2> QED
    BY <2>1, <2>2
<1> QED
  BY <1>6, <1>7, <1>8, <1>9
-----------------------------------------------------------------------------
(* How often a sequence takes its elements from a set.                       *)

Places(s, T) == {i \in DOMAIN s : s[i] \in T}

Times(s, T) == Cardinality(Places(s, T))

\* 1 if it does.
Once(e, T) == IF e \in T THEN 1 ELSE 0

LEMMA PlacesFinite ==
  ASSUME NEW S, NEW s \in Seq(S), NEW T
  PROVE  IsFiniteSet(Places(s, T)) /\ Times(s, T) \in Nat
<1>1. IsFiniteSet(1 .. Len(s))
  BY FS_Interval
<1>2. Places(s, T) \in SUBSET (1 .. Len(s))
  BY DEF Places
<1>3. IsFiniteSet(Places(s, T))
  BY <1>1, <1>2, FS_Subset
<1> QED
  BY <1>3, FS_CardinalityType DEF Times

LEMMA TimesOfNone ==
  ASSUME NEW T
  PROVE  Times(<<>>, T) = 0
<1>1. Places(<<>>, T) = {}
  BY DEF Places
<1> QED
  BY <1>1, FS_EmptySet DEF Times

LEMMA TimesAppended ==
  ASSUME NEW S, NEW s \in Seq(S), NEW e \in S, NEW T
  PROVE  Times(Append(s, e), T) = Times(s, T) + Once(e, T)
<1> DEFINE t == Append(s, e)
           k == Len(s) + 1
<1>1. /\ DOMAIN s = 1 .. Len(s) /\ Len(s) \in Nat
      /\ DOMAIN t = 1 .. k
      /\ \A i \in 1 .. Len(s) : t[i] = s[i]
      /\ t[k] = e
  BY AppendPlaces
<1> HIDE DEF t
<1>2. IsFiniteSet(Places(s, T)) /\ Times(s, T) \in Nat
  BY PlacesFinite
<1>3. k \notin Places(s, T)
  BY <1>1 DEF Places
<1>4. CASE e \in T
  <2>1. Places(t, T) = Places(s, T) \cup {k}
    BY <1>1, <1>4 DEF Places
  <2>2. Cardinality(Places(s, T) \cup {k}) = Cardinality(Places(s, T)) + 1
    BY <1>2, <1>3, FS_AddElement
  <2> QED
    BY <1>4, <2>1, <2>2 DEF Times, Once, t
<1>5. CASE e \notin T
  <2>1. Places(t, T) = Places(s, T)
    BY <1>1, <1>5 DEF Places
  <2> QED
    BY <1>2, <1>5, <2>1 DEF Times, Once, t
<1> QED
  BY <1>4, <1>5

LEMMA TimesTail ==
  ASSUME NEW S, NEW s \in Seq(S), s # <<>>, NEW T
  PROVE  Times(s, T) = Times(Tail(s), T) + Once(Head(s), T)
<1> DEFINE t == Tail(s)
           P == Places(t, T)
           Q == {i + 1 : i \in P}
<1>1. /\ DOMAIN t = 1 .. (Len(s) - 1) /\ t \in Seq(S)
      /\ \A i \in DOMAIN t : i + 1 \in DOMAIN s /\ t[i] = s[i + 1]
      /\ 1 \in DOMAIN s /\ Head(s) = s[1] /\ DOMAIN s = 1 .. Len(s) /\ Len(s) \in Nat
  <2>1. /\ DOMAIN t = 1 .. (Len(s) - 1)
        /\ \A i \in DOMAIN t : i + 1 \in DOMAIN s /\ t[i] = s[i + 1]
        /\ 1 \in DOMAIN s /\ Head(s) = s[1]
    BY TailPlaces
  <2>2. t \in Seq(S)
    BY RangeHeadTail
  <2> QED
    BY <2>1, <2>2
<1>2. IsFiniteSet(P) /\ Times(t, T) \in Nat /\ P \subseteq Nat
  <2>1. IsFiniteSet(P) /\ Times(t, T) \in Nat
    BY <1>1, PlacesFinite
  <2>2. P \subseteq DOMAIN t /\ DOMAIN t \subseteq Nat
    BY <1>1 DEF Places
  <2> QED
    BY <2>1, <2>2
<1>3. IsFiniteSet(Q) /\ Cardinality(Q) = Cardinality(P)
  <2> DEFINE f == [i \in P |-> i + 1]
  <2>1. f \in Bijection(P, Q)
    <3>1. f \in [P -> Q] /\ \A q \in Q : \E i \in P : f[i] = q
      OBVIOUS
    <3>2. \A i, j \in P : f[i] = f[j] => i = j
      BY <1>2
    <3> QED
      BY <3>1, <3>2 DEF Bijection, Injection, Surjection, IsInjective
  <2>2. ExistsBijection(P, Q)
    BY <2>1 DEF ExistsBijection
  <2> QED
    BY <1>2, <2>2, FS_Bijection
<1>4. 1 \notin Q
  BY <1>1, <1>2 DEF Places
<1>5. ASSUME NEW i \in DOMAIN s
      PROVE  i # 1 => i - 1 \in DOMAIN t /\ s[i] = t[i - 1] /\ i = (i - 1) + 1
  BY <1>1
<1>6. Q = Places(s, T) \ {1}
  <2>1. Q \subseteq Places(s, T)
    BY <1>1 DEF Places
  <2>2. ASSUME NEW i \in Places(s, T) \ {1}
        PROVE  i \in Q
    <3>1. i \in DOMAIN s /\ i # 1 /\ s[i] \in T
      BY DEF Places
    <3>2. i - 1 \in P
      BY <1>5, <3>1 DEF Places
    <3> QED
      BY <1>5, <3>1, <3>2
  <2> QED
    BY <1>4, <2>1, <2>2
<1> HIDE DEF P, Q
<1>7. CASE Head(s) \in T
  <2>1. Places(s, T) = Q \cup {1}
    BY <1>1, <1>6, <1>7 DEF Places
  <2>2. Cardinality(Q \cup {1}) = Cardinality(Q) + 1
    BY <1>3, <1>4, FS_AddElement
  <2> QED
    BY <1>2, <1>3, <1>7, <2>1, <2>2 DEF Times, Once, P
<1>8. CASE Head(s) \notin T
  <2>1. Places(s, T) = Q
    BY <1>1, <1>6, <1>8 DEF Places
  <2> QED
    BY <1>2, <1>3, <1>8, <2>1 DEF Times, Once, P
<1> QED
  BY <1>7, <1>8
-----------------------------------------------------------------------------
(* The invariant.                                                            *)

\* A deadline is started after its batch is processed.
DeadlinesProcessed == IsFiniteSet(deadlines) /\ deadlines \subseteq Range(processed)

\* A cleanup speaks of batches that the core saw in a block.
CleanupsOrdered == \A i \in DOMAIN messages : messages[i].digests \subseteq ordered

\* What the proposer made of a digest it was handed, each time.
Holding(d) == {S \in SUBSET Digests : d \in S}

Passed(d) == Times(digests, {d}) + Once(d, buffer) + Times(blocks, Holding(d))

HandedOnce == \A d \in Digests : Passed(d) <= Handed(d)

\* The own batches of a digest.
BatchesOf(d) == {b \in OwnBatch : DigestOf(b) = d}

WaiterInv == DeadlinesProcessed /\ SlotsMatch

ProposerInv == CleanupsOrdered /\ HandedOnce /\ BatchesKept

Inv == TypeOK /\ TransactionsKept /\ WaiterInv /\ ProposerInv
-----------------------------------------------------------------------------
(* What follows from it.                                                     *)

LEMMA PathParts ==
  ASSUME TypeOK
  PROVE  /\ Path \in Seq(OwnBatch)
         /\ processed \in Seq(OwnBatch) /\ sealed \in Seq(OwnBatch)
         /\ waitingFor = <<>> \/ \E b \in OwnBatch : waitingFor = <<b>>
<1>1. processed \in Seq(OwnBatch) /\ sealed \in Seq(OwnBatch) /\ waitingFor \in Seq(OwnBatch)
  BY DEF TypeOK
<1>2. Path \in Seq(OwnBatch)
  BY <1>1, RangeOfThree DEF Path
<1>3. waitingFor # <<>> => \E b \in OwnBatch : waitingFor = <<b>>
  BY <1>1, OneElement DEF TypeOK
<1> QED
  BY <1>1, <1>2, <1>3

LEMMA PathStart ==
  ASSUME NEW S, NEW s \in Seq(S), NEW t \in Seq(S), NEW u \in Seq(S)
  PROVE  /\ DOMAIN s \subseteq DOMAIN (s \o t \o u)
         /\ \A i \in DOMAIN s : (s \o t \o u)[i] = s[i]
<1>1. /\ s \o t \in Seq(S) /\ Len(s \o t) = Len(s) + Len(t)
      /\ \A i \in 1 .. Len(s) : (s \o t)[i] = s[i]
  BY ConcatProperties
<1>2. /\ Len(s \o t \o u) = Len(s \o t) + Len(u) /\ s \o t \o u \in Seq(S)
      /\ \A i \in 1 .. Len(s \o t) : (s \o t \o u)[i] = (s \o t)[i]
  BY <1>1, ConcatProperties
<1>3. DOMAIN s = 1 .. Len(s) /\ Len(s) \in Nat /\ Len(t) \in Nat /\ Len(u) \in Nat
  OBVIOUS
<1>4. DOMAIN (s \o t \o u) = 1 .. (Len(s) + Len(t) + Len(u))
  BY <1>1, <1>2
<1>5. \A i \in DOMAIN s : i \in 1 .. Len(s \o t) /\ i \in 1 .. (Len(s) + Len(t) + Len(u))
  BY <1>1, <1>3
<1> QED
  BY <1>1, <1>2, <1>3, <1>4, <1>5

\* The batch that waits for its quorum is not processed yet, and no batch is twice.
LEMMA ProcessedOnce ==
  ASSUME TypeOK, TransactionsKept
  PROVE  /\ \A i, j \in DOMAIN processed : processed[i] = processed[j] => i = j
         /\ \A b \in OwnBatch : waitingFor = <<b>> => b \notin Range(processed)
<1>0. taken \in Nat
  BY DEF TypeOK
<1>1. /\ Path \in Seq(OwnBatch) /\ processed \in Seq(OwnBatch) /\ sealed \in Seq(OwnBatch)
      /\ waitingFor \in Seq(OwnBatch)
  BY PathParts DEF TypeOK
<1>2. \A i, j \in DOMAIN Path : Path[i] = Path[j] => i = j
  BY <1>0, <1>1, KeptIsCut, CutDistinct
<1>3. DOMAIN processed \subseteq DOMAIN Path /\ \A i \in DOMAIN processed : Path[i] = processed[i]
  BY <1>1, PathStart DEF Path
<1>4. ASSUME NEW b \in OwnBatch, waitingFor = <<b>>
      PROVE  b \notin Range(processed)
  <2>1. PICK v \in Seq(OwnBatch) : v = processed \o <<b>>
    BY <1>1, <1>4, ConcatProperties
  <2>2. Path = v \o sealed
    BY <1>4, <2>1 DEF Path
  <2>3. v = Append(processed, b)
    BY <1>1, <2>1, AppendIsConcat
  <2>4. /\ DOMAIN v = 1 .. (Len(processed) + 1) /\ v[Len(processed) + 1] = b
        /\ DOMAIN processed = 1 .. Len(processed) /\ Len(processed) \in Nat
    BY <1>1, <2>3, AppendPlaces
  <2>5. DOMAIN v \subseteq DOMAIN Path /\ \A i \in DOMAIN v : Path[i] = v[i]
    <3>1. <<>> \in Seq(OwnBatch)
      BY EmptySeq
    <3>2. Len(v \o sealed) = Len(v) + Len(sealed) /\ \A i \in 1 .. Len(v) : (v \o sealed)[i] = v[i]
      BY <1>1, ConcatProperties
    <3>3. \A i \in 1 .. Len(v) : i \in 1 .. (Len(v) + Len(sealed))
      BY <1>1
    <3>4. DOMAIN Path = 1 .. Len(Path) /\ DOMAIN v = 1 .. Len(v)
      BY <1>1
    <3> QED
      BY <2>2, <3>2, <3>3, <3>4
  <2>6. Len(processed) + 1 \in DOMAIN Path /\ Path[Len(processed) + 1] = b
    BY <2>4, <2>5
  <2>7. \A i \in DOMAIN processed : processed[i] # b
    BY <1>2, <1>3, <2>4, <2>6
  <2> QED
    BY <2>7 DEF Range
<1> QED
  BY <1>2, <1>3, <1>4

LEMMA HandedIs ==
  ASSUME NEW d
  PROVE  Handed(d) = Times(processed, BatchesOf(d)) + delivered[d]
BY DEF Handed, Times, Places, BatchesOf

LEMMA HandedIsNext ==
  ASSUME NEW d
  PROVE  Handed(d)' = Times(processed', BatchesOf(d)) + delivered'[d]
BY DEF Handed, Times, Places, BatchesOf

LEMMA DigestsNamed ==
  ASSUME NEW b \in OwnBatch
  PROVE  DigestOf(b) \in OwnDigests /\ DigestOf(b) \in Digests
BY DEF OwnDigests, Digests

LEMMA PassedTyped ==
  ASSUME TypeOK, NEW b \in Digests
  PROVE  /\ Times(digests, {b}) \in Nat /\ Times(blocks, Holding(b)) \in Nat
         /\ Once(b, buffer) \in {0, 1} /\ Handed(b) \in Nat
<1>1. /\ digests \in Seq(Digests) /\ blocks \in Seq(SUBSET Digests)
      /\ processed \in Seq(OwnBatch) /\ delivered \in [Digests -> Nat]
  BY DEF TypeOK
<1>2. /\ Times(digests, {b}) \in Nat /\ Times(blocks, Holding(b)) \in Nat
      /\ Times(processed, BatchesOf(b)) \in Nat
  BY <1>1, PlacesFinite
<1> QED
  BY <1>1, <1>2, HandedIs DEF Once

\* ProposedOncePerDelivery is a part of HandedOnce.
LEMMA HandedBoundsBlocks ==
  ASSUME Inv
  PROVE  ProposedOncePerDelivery
<1> SUFFICES ASSUME NEW d \in Digests
             PROVE  Cardinality({i \in DOMAIN blocks : d \in blocks[i]}) <= Handed(d)
  BY DEF ProposedOncePerDelivery
<1>1. TypeOK /\ blocks \in Seq(SUBSET Digests)
  BY DEF Inv, TypeOK
<1>2. {i \in DOMAIN blocks : d \in blocks[i]} = Places(blocks, Holding(d))
  <2>1. \A i \in DOMAIN blocks : blocks[i] \in SUBSET Digests
    BY <1>1
  <2> QED
    BY <2>1 DEF Places, Holding
<1>3. Passed(d) <= Handed(d)
  BY DEF Inv, ProposerInv, HandedOnce
<1>4. PICK x \in Nat, y \in Nat, z \in Nat, h \in Nat :
        /\ x = Times(digests, {d}) /\ y = Once(d, buffer) /\ z = Times(blocks, Holding(d))
        /\ h = Handed(d)
  BY <1>1, PassedTyped
<1>5. x + y + z <= h
  BY <1>3, <1>4 DEF Passed
<1>6. z <= h
  BY <1>5
<1> QED
  BY <1>2, <1>4, <1>6 DEF Times
-----------------------------------------------------------------------------
(* What a step leaves alone.                                                 *)

LEMMA KeptIsCutNext == TransactionsKept' <=> Cut(Path', taken', currentBatch')
BY DEF TransactionsKept, Cut, CutBy

LEMMA KeptAlone ==
  ASSUME TransactionsKept, Path' = Path, taken' = taken, currentBatch' = currentBatch
  PROVE  TransactionsKept'
BY KeptIsCut, KeptIsCutNext

LEMMA WaiterAlone ==
  ASSUME WaiterInv, UNCHANGED <<waiterVars, processed>>
  PROVE  WaiterInv'
BY DEF WaiterInv, DeadlinesProcessed, SlotsMatch, waiterVars

LEMMA ProposerAlone ==
  ASSUME ProposerInv,
         UNCHANGED <<processed, delivered, digests, messages, buffer, blocks, ordered>>
  PROVE  ProposerInv'
BY DEF ProposerInv, CleanupsOrdered, HandedOnce, Passed, Handed, BatchesKept, Stored

\* Only what the proposer was handed counts for its invariant.
LEMMA MempoolAlone ==
  ASSUME Inv, UNCHANGED <<processed, delivered, digests>>, UNCHANGED proposerVars
  PROVE  ProposerInv'
BY ProposerAlone DEF Inv, proposerVars
-----------------------------------------------------------------------------
(* The batch maker.                                                          *)

\* The batch, after the transaction that ends it, if any.
LEMMA SealKeeps ==
  ASSUME TypeOK, NEW n \in Nat, NEW batch, batch # <<>>, Cut(Path, n, batch),
         n <= Len(TxSize), taken' = n, Seal(batch), processed' = processed,
         waitingFor' = waitingFor
  PROVE  TransactionsKept' /\ sealed' \in Seq(OwnBatch)
<1>1. PICK w \in Seq(OwnBatch) : w = Path
  BY PathParts
<1>2. Cut(Append(w, batch), n, <<>>) /\ \E f \in 0 .. n : f < n /\ batch = Consecutive(f, n)
  BY <1>1, CutSeals
<1>3. batch \in OwnBatch
  <2>1. PICK f \in 0 .. n : f < n /\ batch = Consecutive(f, n)
    BY <1>2
  <2>2. Len(TxSize) \in Nat
    BY DisseminationAssumption
  <2>3. f \in 0 .. Len(TxSize) /\ n \in 0 .. Len(TxSize)
    BY <2>2
  <2>4. <<f, n>> \in (0 .. Len(TxSize)) \X (0 .. Len(TxSize)) /\ <<f, n>>[1] = f /\ <<f, n>>[2] = n
    BY <2>3
  <2> QED
    BY <2>1, <2>4 DEF OwnBatch
<1>4. sealed \in Seq(OwnBatch) /\ processed \in Seq(OwnBatch) /\ waitingFor \in Seq(OwnBatch)
  BY DEF TypeOK
<1>5. sealed' = Append(sealed, batch) /\ currentBatch' = <<>>
  BY DEF Seal
<1>6. sealed' \in Seq(OwnBatch)
  BY <1>3, <1>4, <1>5, Appended
<1>7. Path' = Append(w, batch)
  <2>1. PICK u \in Seq(OwnBatch) : u = processed \o waitingFor
    BY <1>4, ConcatProperties
  <2>2. w = u \o sealed
    BY <1>1, <2>1 DEF Path
  <2>3. Append(sealed, batch) = sealed \o <<batch>>
    BY <1>3, <1>4, AppendIsConcat
  <2>4. Append(w, batch) = w \o <<batch>>
    BY <1>3, AppendIsConcat
  <2>5. <<batch>> \in Seq(OwnBatch)
    BY <1>3
  <2>6. u \o (sealed \o <<batch>>) = (u \o sealed) \o <<batch>>
    BY <1>4, <2>5, ConcatAssociative
  <2>7. Path' = u \o Append(sealed, batch)
    BY <1>5, <2>1 DEF Path
  <2> QED
    BY <2>2, <2>3, <2>4, <2>6, <2>7, Zenon
<1>8. Cut(Path', taken', currentBatch')
  BY <1>2, <1>5, <1>7
<1> QED
  BY <1>6, <1>8, KeptIsCutNext

LEMMA ReceiveTransactionKeeps ==
  ASSUME Inv, ReceiveTransaction, UNCHANGED proposerVars
  PROVE  Inv'
<1> DEFINE batch == Append(currentBatch, taken + 1)
           size  == currentBatchSize + TxSize[taken + 1]
<1>1. /\ taken < Len(TxSize) /\ taken' = taken + 1 /\ currentBatchSize' = size
      /\ \/ Seal(batch)
         \/ currentBatch' = batch /\ sealed' = sealed
      /\ waitingFor' = waitingFor /\ acks' = acks /\ counted' = counted
      /\ deadlines' = deadlines /\ expired' = expired /\ pendingCounter' = pendingCounter
      /\ cancelled' = cancelled /\ processed' = processed /\ delivered' = delivered
      /\ digests' = digests
  BY DEF ReceiveTransaction, waiterVars
<1>2. TypeOK /\ TransactionsKept /\ WaiterInv
  BY DEF Inv
<1>3. taken \in Nat /\ taken + 1 \in Nat /\ Len(TxSize) \in Nat /\ taken + 1 <= Len(TxSize)
  BY <1>1, <1>2, DisseminationAssumption DEF TypeOK
<1>4. /\ taken' \in 0 .. Len(TxSize) /\ taken + 1 \in Transaction
      /\ size \in Nat
  <2>1. taken + 1 \in Transaction
    BY <1>3, DisseminationAssumption DEF Transaction
  <2>2. TxSize[taken + 1] \in Nat
    BY <2>1, DisseminationAssumption DEF Transaction
  <2> QED
    BY <1>1, <1>2, <1>3, <2>1, <2>2 DEF TypeOK
<1>5. /\ batch \in Seq(Transaction) /\ batch # <<>> /\ currentBatch \in Seq(Transaction)
  <2>1. currentBatch \in Seq(Transaction)
    BY <1>2 DEF TypeOK
  <2>2. batch \in Seq(Transaction) /\ Len(batch) = Len(currentBatch) + 1
    BY <1>4, <2>1, Appended
  <2>3. Len(batch) # 0
    BY <2>1, <2>2
  <2> QED
    BY <2>1, <2>2, <2>3, EmptySeq
<1>6. Cut(Path, taken + 1, batch)
  BY <1>2, <1>3, PathParts, KeptIsCut, CutGrows
<1> HIDE DEF batch, size
<1>7. TransactionsKept' /\ sealed' \in Seq(OwnBatch) /\ currentBatch' \in Seq(Transaction)
  <2>1. CASE Seal(batch)
    <3>1. currentBatch' = <<>> /\ <<>> \in Seq(Transaction)
      BY <2>1, EmptySeq DEF Seal
    <3> QED
      BY <1>1, <1>2, <1>3, <1>5, <1>6, <2>1, <3>1, SealKeeps
  <2>2. CASE currentBatch' = batch /\ sealed' = sealed
    <3>1. Path' = Path
      BY <1>1, <2>2 DEF Path
    <3>2. Cut(Path', taken', currentBatch')
      BY <1>1, <1>6, <2>2, <3>1
    <3> QED
      BY <1>2, <1>5, <2>2, <3>2, KeptIsCutNext DEF TypeOK
  <2> QED
    BY <1>1, <2>1, <2>2
<1>8. TypeOK'
  BY <1>1, <1>2, <1>4, <1>7 DEF TypeOK, proposerVars
<1>9. WaiterInv'
  BY <1>1, <1>2, WaiterAlone DEF waiterVars
<1>10. ProposerInv'
  BY <1>1, MempoolAlone
<1> QED
  BY <1>7, <1>8, <1>9, <1>10 DEF Inv

LEMMA MaxBatchDelayKeeps ==
  ASSUME Inv, MaxBatchDelay, UNCHANGED proposerVars
  PROVE  Inv'
<1>1. /\ currentBatch # <<>> /\ Seal(currentBatch)
      /\ currentBatchSize' = currentBatchSize /\ taken' = taken
      /\ waitingFor' = waitingFor /\ acks' = acks /\ counted' = counted
      /\ deadlines' = deadlines /\ expired' = expired /\ pendingCounter' = pendingCounter
      /\ cancelled' = cancelled /\ processed' = processed /\ delivered' = delivered
      /\ digests' = digests
  BY DEF MaxBatchDelay, waiterVars
<1>2. TypeOK /\ TransactionsKept /\ WaiterInv
  BY DEF Inv
<1>3. taken \in Nat /\ taken <= Len(TxSize)
  BY <1>2 DEF TypeOK
<1>4. Cut(Path, taken, currentBatch)
  BY <1>2, KeptIsCut
<1>5. TransactionsKept' /\ sealed' \in Seq(OwnBatch)
  BY <1>1, <1>2, <1>3, <1>4, SealKeeps
<1>6. currentBatch' \in Seq(Transaction)
  BY <1>1, EmptySeq DEF Seal
<1>7. TypeOK'
  BY <1>1, <1>2, <1>5, <1>6 DEF TypeOK, proposerVars
<1>8. WaiterInv'
  BY <1>1, <1>2, WaiterAlone DEF waiterVars
<1>9. ProposerInv'
  BY <1>1, MempoolAlone
<1> QED
  BY <1>5, <1>7, <1>8, <1>9 DEF Inv
-----------------------------------------------------------------------------
(* The quorum waiter.                                                        *)

LEMMA AckBatchKeeps ==
  ASSUME Inv, NEW n \in Node, AckBatch(n), UNCHANGED proposerVars
  PROVE  Inv'
<1>1. /\ waitingFor # <<>> /\ acks' = acks \cup {n}
      /\ currentBatch' = currentBatch /\ currentBatchSize' = currentBatchSize /\ taken' = taken
      /\ sealed' = sealed /\ waitingFor' = waitingFor /\ counted' = counted
      /\ deadlines' = deadlines /\ expired' = expired /\ pendingCounter' = pendingCounter
      /\ cancelled' = cancelled /\ processed' = processed /\ delivered' = delivered
      /\ digests' = digests
  BY DEF AckBatch, batchVars
<1>2. TypeOK /\ TransactionsKept /\ WaiterInv
  BY DEF Inv
<1>3. TypeOK'
  BY <1>1, <1>2 DEF TypeOK, proposerVars
<1>4. TransactionsKept'
  <2>1. Path' = Path
    BY <1>1 DEF Path
  <2> QED
    BY <1>1, <1>2, <2>1, KeptAlone
<1>5. WaiterInv'
  BY <1>1, <1>2 DEF WaiterInv, DeadlinesProcessed, SlotsMatch
<1>6. ProposerInv'
  BY <1>1, MempoolAlone
<1> QED
  BY <1>3, <1>4, <1>5, <1>6 DEF Inv

LEMMA TakeBatchKeeps ==
  ASSUME Inv, TakeBatch, UNCHANGED proposerVars
  PROVE  Inv'
<1>1. /\ waitingFor = <<>> /\ sealed # <<>>
      /\ waitingFor' = <<Head(sealed)>> /\ sealed' = Tail(sealed)
      /\ currentBatch' = currentBatch /\ currentBatchSize' = currentBatchSize /\ taken' = taken
      /\ acks' = acks /\ counted' = counted
      /\ deadlines' = deadlines /\ expired' = expired /\ pendingCounter' = pendingCounter
      /\ cancelled' = cancelled /\ processed' = processed /\ delivered' = delivered
      /\ digests' = digests
  BY DEF TakeBatch, batchVars
<1>2. TypeOK /\ TransactionsKept /\ WaiterInv
  BY DEF Inv
<1>3. sealed \in Seq(OwnBatch) /\ processed \in Seq(OwnBatch)
  BY <1>2 DEF TypeOK
<1>4. PICK h \in OwnBatch, t \in Seq(OwnBatch) : h = Head(sealed) /\ t = Tail(sealed)
  BY <1>1, <1>3, RangeHeadTail
<1>5. TypeOK'
  <2>1. \A r : r = <<h>> => r \in Seq(OwnBatch) /\ Len(r) = 1
    OBVIOUS
  <2>2. \A n : n = 1 => n <= 1
    OBVIOUS
  <2>3. waitingFor' \in Seq(OwnBatch) /\ Len(waitingFor') <= 1
    BY <1>1, <1>4, <2>1, <2>2
  <2> QED
    BY <1>1, <1>2, <1>4, <2>3 DEF TypeOK, proposerVars
<1>6. Path' = Path
  <2>1. sealed = <<h>> \o t
    BY <1>1, <1>3, <1>4, HeadFirst
  <2>2. processed \o <<>> = processed
    BY <1>3, ConcatEmptySeq
  <2>3. Path = processed \o sealed
    BY <1>1, <2>2, Zenon DEF Path
  <2>4. <<h>> \in Seq(OwnBatch)
    OBVIOUS
  <2>5. processed \o (<<h>> \o t) = (processed \o <<h>>) \o t
    BY <1>3, <2>4, ConcatAssociative
  <2>6. Path' = processed \o <<h>> \o t
    BY <1>1, <1>4 DEF Path
  <2> QED
    BY <2>1, <2>3, <2>5, <2>6, Zenon
<1>7. TransactionsKept'
  BY <1>1, <1>2, <1>6, KeptAlone
<1>8. WaiterInv'
  BY <1>1, <1>2 DEF WaiterInv, DeadlinesProcessed, SlotsMatch
<1>9. ProposerInv'
  BY <1>1, MempoolAlone
<1> QED
  BY <1>5, <1>7, <1>8, <1>9 DEF Inv

\* A batch is stored and its digest handed to the proposer.
LEMMA HandsOver ==
  ASSUME Inv, NEW b \in Digests, digests' = Append(digests, b), UNCHANGED proposerVars,
         \A c \in Digests : Handed(c)' = Handed(c) + Once(b, {c}),
         Stored' = Stored \cup {b}
  PROVE  ProposerInv'
<1>1. /\ messages' = messages /\ buffer' = buffer /\ blocks' = blocks /\ ordered' = ordered
  BY DEF proposerVars
<1>2. TypeOK /\ digests \in Seq(Digests)
  BY DEF Inv, TypeOK
<1>3. CleanupsOrdered'
  BY <1>1 DEF Inv, ProposerInv, CleanupsOrdered
<1>4. HandedOnce'
  <2>1. ASSUME NEW c \in Digests
        PROVE  Passed(c)' <= Handed(c)'
    <3>1. Times(digests', {c}) = Times(digests, {c}) + Once(b, {c})
      BY <1>2, TimesAppended
    <3>2. PICK x \in Nat, y \in Nat, z \in Nat, h \in Nat, o \in Nat :
            /\ x = Times(digests, {c}) /\ y = Once(c, buffer) /\ z = Times(blocks, Holding(c))
            /\ h = Handed(c) /\ o = Once(b, {c})
      <4>1. Once(b, {c}) \in Nat /\ Once(c, buffer) \in Nat
        BY DEF Once
      <4> QED
        BY <1>2, <4>1, PassedTyped
    <3>3. x + y + z <= h
      BY <3>2 DEF Inv, ProposerInv, HandedOnce, Passed
    <3>4. Passed(c)' = (x + o) + y + z
      BY <1>1, <3>1, <3>2 DEF Passed
    <3>5. Handed(c)' = h + o
      BY <3>2
    <3>6. (x + o) + y + z <= h + o
      BY <3>3
    <3> QED
      BY <3>4, <3>5, <3>6
  <2> QED
    BY <2>1 DEF HandedOnce
<1>5. BatchesKept'
  <2>1. Range(digests') = Range(digests) \cup {b}
    BY <1>2, Appended
  <2> QED
    BY <1>1, <2>1 DEF Inv, ProposerInv, BatchesKept
<1> QED
  BY <1>3, <1>4, <1>5 DEF ProposerInv

\* With a quorum.
LEMMA QuorumKeeps ==
  ASSUME Inv, NEW n \in Node, CountBatchAck(n), waitingFor' = <<>>, UNCHANGED proposerVars,
         waitingFor # <<>>
  PROVE  Inv'
<1>1. /\ acks' = {} /\ counted' = {}
      /\ processed' = processed \o waitingFor
      /\ digests' = Append(digests, DigestOf(waitingFor[1]))
      /\ \/ /\ pendingCounter <= QueueMax /\ pendingCounter' = pendingCounter + 1
            /\ deadlines' = deadlines \cup Range(waitingFor)
         \/ pendingCounter' = pendingCounter /\ deadlines' = deadlines
      /\ currentBatch' = currentBatch /\ currentBatchSize' = currentBatchSize /\ taken' = taken
      /\ sealed' = sealed /\ expired' = expired /\ cancelled' = cancelled
      /\ delivered' = delivered
  BY DEF CountBatchAck, batchVars
<1>2. TypeOK /\ TransactionsKept /\ WaiterInv
  BY DEF Inv
<1>3. PICK b \in OwnBatch : waitingFor = <<b>>
  BY <1>2, PathParts
<1>4. PICK digest \in Digests : digest = DigestOf(b)
  BY DigestsNamed
<1>5. /\ processed \in Seq(OwnBatch) /\ digests \in Seq(Digests) /\ sealed \in Seq(OwnBatch)
  BY <1>2 DEF TypeOK
<1>6. processed' = Append(processed, b) /\ digests' = Append(digests, digest)
  BY <1>1, <1>3, <1>4, <1>5, AppendIsConcat
<1>7. /\ processed' \in Seq(OwnBatch) /\ Range(processed') = Range(processed) \cup {b}
      /\ digests' \in Seq(Digests)
  BY <1>4, <1>5, <1>6, Appended
<1>8. Range(waitingFor) = {b}
  BY <1>3 DEF Range
<1>9. TypeOK'
  <2>1. waitingFor' \in Seq(OwnBatch) /\ Len(waitingFor') <= 1
    OBVIOUS
  <2>2. pendingCounter' \in Nat /\ deadlines' \subseteq OwnBatch
    BY <1>1, <1>2, <1>8 DEF TypeOK
  <2> QED
    BY <1>1, <1>2, <1>7, <2>1, <2>2 DEF TypeOK, proposerVars
<1>10. TransactionsKept'
  <2>1. PICK v : v = processed \o waitingFor
    OBVIOUS
  <2>2. v \in Seq(OwnBatch) /\ processed' = v
    BY <1>1, <1>7, <2>1
  <2>3. v \o <<>> = v
    BY <2>2, ConcatEmptySeq
  <2>4. Path = v \o sealed
    BY <2>1 DEF Path
  <2>5. Path' = v \o <<>> \o sealed
    BY <1>1, <2>2 DEF Path
  <2>6. Path' = Path
    BY <2>3, <2>4, <2>5, Zenon
  <2> QED
    BY <1>1, <1>2, <2>6, KeptAlone
<1>11. WaiterInv'
  <2>2. b \notin deadlines
    BY <1>2, <1>3, ProcessedOnce DEF WaiterInv, DeadlinesProcessed
  <2>3. IsFiniteSet(deadlines) /\ deadlines \subseteq Range(processed)
    BY <1>2 DEF WaiterInv, DeadlinesProcessed
  <2>4. PICK d \in Nat, e \in Nat, p \in Nat, q \in Nat :
          d = Cardinality(deadlines) /\ e = expired /\ p = pendingCounter /\ q = QueueMax
    BY <1>2, <2>3, FS_CardinalityType, DisseminationAssumption DEF TypeOK
  <2>5. p = d + e /\ p <= q + 1
    BY <1>2, <2>4 DEF WaiterInv, SlotsMatch
  <2>6. CASE /\ pendingCounter <= QueueMax /\ pendingCounter' = pendingCounter + 1
             /\ deadlines' = deadlines \cup Range(waitingFor)
    <3>1. /\ IsFiniteSet(deadlines') /\ Cardinality(deadlines') = d + 1
          /\ deadlines' \subseteq Range(processed')
      <4>1. deadlines' = deadlines \cup {b}
        BY <1>8, <2>6
      <4>2. /\ IsFiniteSet(deadlines \cup {b})
            /\ Cardinality(deadlines \cup {b}) = Cardinality(deadlines) + 1
        BY <2>2, <2>3, FS_AddElement
      <4> QED
        BY <1>7, <2>3, <2>4, <4>1, <4>2
    <3>2. p + 1 = (d + 1) + e /\ p + 1 <= q + 1
      BY <2>4, <2>5, <2>6
    <3> QED
      BY <1>1, <2>4, <2>6, <3>1, <3>2 DEF WaiterInv, DeadlinesProcessed, SlotsMatch
  <2>7. CASE pendingCounter' = pendingCounter /\ deadlines' = deadlines
    BY <1>1, <1>7, <2>3, <2>4, <2>5, <2>7 DEF WaiterInv, DeadlinesProcessed, SlotsMatch
  <2> QED
    BY <1>1, <2>6, <2>7
<1>12. ProposerInv'
  <2>1. Stored' = Stored \cup {digest}
    BY <1>1, <1>4, <1>7 DEF Stored
  <2>2. ASSUME NEW c \in Digests
        PROVE  Handed(c)' = Handed(c) + Once(digest, {c})
    <3>1. Times(processed', BatchesOf(c)) = Times(processed, BatchesOf(c)) + Once(b, BatchesOf(c))
      BY <1>5, <1>6, TimesAppended
    <3>2. Once(b, BatchesOf(c)) = Once(digest, {c})
      BY <1>4 DEF Once, BatchesOf
    <3>3. PICK t \in Nat, o \in Nat, e \in Nat :
            t = Times(processed, BatchesOf(c)) /\ o = Once(digest, {c}) /\ e = delivered[c]
      <4>1. Times(processed, BatchesOf(c)) \in Nat
        BY <1>5, PlacesFinite
      <4>2. Once(digest, {c}) \in Nat /\ delivered[c] \in Nat
        BY <1>2 DEF Once, TypeOK
      <4> QED
        BY <4>1, <4>2
    <3>4. Handed(c) = t + e /\ Handed(c)' = (t + o) + e
      BY <1>1, <3>1, <3>2, <3>3, HandedIs, HandedIsNext
    <3>5. (t + o) + e = (t + e) + o
      OBVIOUS
    <3> QED
      BY <3>3, <3>4, <3>5
  <2> QED
    BY <1>4, <1>6, <2>1, <2>2, HandsOver
<1> QED
  BY <1>9, <1>10, <1>11, <1>12 DEF Inv

LEMMA CountBatchAckKeeps ==
  ASSUME Inv, NEW n \in Node, CountBatchAck(n), UNCHANGED proposerVars
  PROVE  Inv'
<1>1. n \in Voters \ counted
  BY DEF CountBatchAck
<1>2. waitingFor # <<>>
  BY <1>1 DEF Voters
<1>3. CASE waitingFor' = <<>>
  BY <1>2, <1>3, QuorumKeeps
<1>4. CASE waitingFor' # <<>>
  <2>1. /\ counted' = counted \cup {n} /\ waitingFor' = waitingFor /\ acks' = acks
        /\ processed' = processed /\ digests' = digests /\ deadlines' = deadlines
        /\ pendingCounter' = pendingCounter
        /\ currentBatch' = currentBatch /\ currentBatchSize' = currentBatchSize /\ taken' = taken
        /\ sealed' = sealed /\ expired' = expired /\ cancelled' = cancelled
        /\ delivered' = delivered
    BY <1>4 DEF CountBatchAck, batchVars
  <2>2. TypeOK /\ TransactionsKept /\ WaiterInv
    BY DEF Inv
  <2>3. TypeOK'
    BY <2>1, <2>2 DEF TypeOK, proposerVars
  <2>4. TransactionsKept'
    <3>1. Path' = Path
      BY <2>1 DEF Path
    <3> QED
      BY <2>1, <2>2, <3>1, KeptAlone
  <2>5. WaiterInv'
    BY <1>1, <2>1, <2>2 DEF WaiterInv, DeadlinesProcessed, SlotsMatch
  <2>6. ProposerInv'
    BY <2>1, MempoolAlone
  <2> QED
    BY <2>3, <2>4, <2>5, <2>6 DEF Inv
<1> QED
  BY <1>3, <1>4

LEMMA DeadlineKeeps ==
  ASSUME Inv, NEW b \in deadlines, Deadline(b), UNCHANGED proposerVars
  PROVE  Inv'
<1>1. /\ deadlines' = deadlines \ {b} /\ expired' = expired + 1
      /\ cancelled' = cancelled \cup {b}
      /\ currentBatch' = currentBatch /\ currentBatchSize' = currentBatchSize /\ taken' = taken
      /\ sealed' = sealed /\ waitingFor' = waitingFor /\ counted' = counted /\ acks' = acks
      /\ pendingCounter' = pendingCounter /\ processed' = processed /\ delivered' = delivered
      /\ digests' = digests
  BY DEF Deadline, batchVars
<1>2. TypeOK /\ TransactionsKept /\ WaiterInv
  BY DEF Inv
<1>3. TypeOK'
  BY <1>1, <1>2 DEF TypeOK, proposerVars
<1>4. TransactionsKept'
  <2>1. Path' = Path
    BY <1>1 DEF Path
  <2> QED
    BY <1>1, <1>2, <2>1, KeptAlone
<1>5. WaiterInv'
  <2>1. IsFiniteSet(deadlines) /\ deadlines \subseteq Range(processed)
    BY <1>2 DEF WaiterInv, DeadlinesProcessed
  <2>2. PICK d \in Nat, e \in Nat, p \in Nat :
          d = Cardinality(deadlines) /\ e = expired /\ p = pendingCounter
    BY <1>2, <2>1, FS_CardinalityType DEF TypeOK
  <2>3. p = d + e /\ p <= QueueMax + 1
    BY <1>2, <2>2 DEF WaiterInv, SlotsMatch
  <2>4. IsFiniteSet(deadlines') /\ Cardinality(deadlines') = d - 1
    BY <1>1, <2>1, <2>2, FS_RemoveElement
  <2>5. p = (d - 1) + (e + 1)
    BY <2>2, <2>3
  <2>6. SlotsMatch'
    BY <1>1, <2>2, <2>3, <2>4, <2>5 DEF SlotsMatch
  <2> QED
    BY <1>1, <2>1, <2>4, <2>6 DEF WaiterInv, DeadlinesProcessed
<1>6. ProposerInv'
  BY <1>1, MempoolAlone
<1> QED
  BY <1>3, <1>4, <1>5, <1>6 DEF Inv

LEMMA TakeExpiredKeeps ==
  ASSUME Inv, TakeExpired, UNCHANGED proposerVars
  PROVE  Inv'
<1>1. /\ expired > 0 /\ expired' = expired - 1
      /\ pendingCounter' = IF pendingCounter > 0 THEN pendingCounter - 1 ELSE 0
      /\ currentBatch' = currentBatch /\ currentBatchSize' = currentBatchSize /\ taken' = taken
      /\ sealed' = sealed /\ waitingFor' = waitingFor /\ counted' = counted /\ acks' = acks
      /\ deadlines' = deadlines /\ cancelled' = cancelled
      /\ processed' = processed /\ delivered' = delivered /\ digests' = digests
  BY DEF TakeExpired, batchVars
<1>2. TypeOK /\ TransactionsKept /\ WaiterInv
  BY DEF Inv
<1>3. TypeOK'
  <2>1. expired \in Nat /\ pendingCounter \in Nat
    BY <1>2 DEF TypeOK
  <2>2. expired' \in Nat /\ pendingCounter' \in Nat
    BY <1>1, <2>1
  <2> QED
    BY <1>1, <1>2, <2>2 DEF TypeOK, proposerVars
<1>4. TransactionsKept'
  <2>1. Path' = Path
    BY <1>1 DEF Path
  <2> QED
    BY <1>1, <1>2, <2>1, KeptAlone
<1>5. WaiterInv'
  <2>1. IsFiniteSet(deadlines) /\ deadlines \subseteq Range(processed)
    BY <1>2 DEF WaiterInv, DeadlinesProcessed
  <2>2. PICK d \in Nat, e \in Nat, p \in Nat, q \in Nat :
          d = Cardinality(deadlines) /\ e = expired /\ p = pendingCounter /\ q = QueueMax
    BY <1>2, <2>1, FS_CardinalityType, DisseminationAssumption DEF TypeOK
  <2>3. p = d + e /\ p <= q + 1
    BY <1>2, <2>2 DEF WaiterInv, SlotsMatch
  <2>4. expired' = e - 1 /\ pendingCounter' = p - 1
    BY <1>1, <2>2, <2>3
  <2>5. p - 1 = d + (e - 1) /\ p - 1 <= q + 1
    BY <2>2, <2>3
  <2>6. SlotsMatch'
    BY <1>1, <2>2, <2>4, <2>5 DEF SlotsMatch
  <2> QED
    BY <1>1, <2>1, <2>6 DEF WaiterInv, DeadlinesProcessed
<1>6. ProposerInv'
  BY <1>1, MempoolAlone
<1> QED
  BY <1>3, <1>4, <1>5, <1>6 DEF Inv

LEMMA ReceiveBatchKeeps ==
  ASSUME Inv, NEW b \in Incoming, ReceiveBatch(b), UNCHANGED proposerVars
  PROVE  Inv'
<1>1. /\ delivered' = [delivered EXCEPT ![b] = @ + 1] /\ digests' = Append(digests, b)
      /\ currentBatch' = currentBatch /\ currentBatchSize' = currentBatchSize /\ taken' = taken
      /\ sealed' = sealed /\ waitingFor' = waitingFor /\ counted' = counted /\ acks' = acks
      /\ deadlines' = deadlines /\ cancelled' = cancelled /\ expired' = expired
      /\ pendingCounter' = pendingCounter /\ processed' = processed
  BY DEF ReceiveBatch, batchVars, waiterVars
<1>2. TypeOK /\ TransactionsKept /\ WaiterInv /\ delivered \in [Digests -> Nat]
  BY DEF Inv, TypeOK
<1>3. b \in Digests /\ digests \in Seq(Digests)
  <2>1. Range(Path) \subseteq OwnBatch
    <3>1. Path \in Seq(OwnBatch)
      BY <1>2, PathParts
    <3> QED
      BY <3>1 DEF Range
  <2> QED
    BY <1>2, <2>1, DigestsNamed DEF Incoming, Digests, TypeOK
<1>4. TypeOK'
  <2>1. digests' \in Seq(Digests)
    BY <1>1, <1>3, Appended
  <2>2. delivered' \in [Digests -> Nat]
    BY <1>1, <1>2, <1>3
  <2> QED
    BY <1>1, <1>2, <2>1, <2>2 DEF TypeOK, proposerVars
<1>5. TransactionsKept'
  <2>1. Path' = Path
    BY <1>1 DEF Path
  <2> QED
    BY <1>1, <1>2, <2>1, KeptAlone
<1>6. WaiterInv'
  BY <1>1, <1>2, WaiterAlone DEF waiterVars
<1>7. ProposerInv'
  <2>1. Stored' = Stored \cup {b}
    <3>1. \A c \in Digests : delivered'[c] > 0 <=> delivered[c] > 0 \/ c = b
      BY <1>1, <1>2, <1>3
    <3> QED
      BY <1>1, <1>3, <3>1 DEF Stored
  <2>2. ASSUME NEW c \in Digests
        PROVE  Handed(c)' = Handed(c) + Once(b, {c})
    <3>1. PICK t \in Nat, o \in Nat, e \in Nat :
            t = Times(processed, BatchesOf(c)) /\ o = Once(b, {c}) /\ e = delivered[c]
      <4>1. Times(processed, BatchesOf(c)) \in Nat
        <5>1. processed \in Seq(OwnBatch)
          BY <1>2 DEF TypeOK
        <5> QED
          BY <5>1, PlacesFinite
      <4>2. Once(b, {c}) \in Nat /\ delivered[c] \in Nat
        BY <1>2 DEF Once
      <4> QED
        BY <4>1, <4>2
    <3>2. delivered'[c] = e + o
      BY <1>1, <1>2, <3>1 DEF Once
    <3>3. Handed(c) = t + e /\ Handed(c)' = t + (e + o)
      BY <1>1, <3>1, <3>2, HandedIs, HandedIsNext
    <3>4. t + (e + o) = (t + e) + o
      OBVIOUS
    <3> QED
      BY <3>1, <3>3, <3>4
  <2> QED
    BY <1>1, <1>3, <2>1, <2>2, HandsOver
<1> QED
  BY <1>4, <1>5, <1>6, <1>7 DEF Inv
-----------------------------------------------------------------------------
(* The core and the proposer.                                                *)

\* A step of theirs leaves the mempool alone.
LEMMA ProposerSteps ==
  ASSUME Inv, TypeOK', ProposerInv', UNCHANGED <<batchVars, sealed, waiterVars, processed>>
  PROVE  Inv'
<1>1. Path' = Path /\ taken' = taken /\ currentBatch' = currentBatch
  BY DEF Path, batchVars, waiterVars
<1>2. TransactionsKept'
  BY <1>1, KeptAlone DEF Inv
<1>3. WaiterInv'
  BY WaiterAlone DEF Inv
<1> QED
  BY <1>2, <1>3 DEF Inv

\* The core adds a message.
LEMMA MessageKeeps ==
  ASSUME Inv, NEW m \in [t : {"make", "cleanup"}, digests : SUBSET Digests],
         messages' = Append(messages, m), asked' \in Nat, reports' \in Nat,
         ordered \subseteq ordered', ordered' \subseteq Digests, m.digests \subseteq ordered',
         UNCHANGED <<mempoolVars, buffer, blocks, proposing, blockCounted>>
  PROVE  Inv'
<1>1. /\ currentBatch' = currentBatch /\ currentBatchSize' = currentBatchSize /\ taken' = taken
      /\ sealed' = sealed /\ waitingFor' = waitingFor /\ counted' = counted /\ acks' = acks
      /\ deadlines' = deadlines /\ cancelled' = cancelled /\ expired' = expired
      /\ pendingCounter' = pendingCounter /\ processed' = processed
      /\ delivered' = delivered /\ digests' = digests
      /\ buffer' = buffer /\ blocks' = blocks /\ proposing' = proposing
      /\ blockCounted' = blockCounted
  BY DEF mempoolVars, batchVars, waiterVars
<1>2. TypeOK /\ messages \in Seq([t : {"make", "cleanup"}, digests : SUBSET Digests])
  BY DEF Inv, TypeOK
<1>3. /\ messages' \in Seq([t : {"make", "cleanup"}, digests : SUBSET Digests])
      /\ DOMAIN messages = 1 .. Len(messages) /\ Len(messages) \in Nat
      /\ DOMAIN messages' = 1 .. (Len(messages) + 1)
      /\ \A i \in 1 .. Len(messages) : messages'[i] = messages[i]
      /\ messages'[Len(messages) + 1] = m
  BY <1>2, Appended, AppendPlaces
<1>4. TypeOK'
  BY <1>1, <1>2, <1>3 DEF TypeOK
<1>5. CleanupsOrdered'
  BY <1>3 DEF Inv, ProposerInv, CleanupsOrdered
<1>6. HandedOnce'
  BY <1>1 DEF Inv, ProposerInv, HandedOnce, Passed, Handed
<1>7. BatchesKept'
  BY <1>1 DEF Inv, ProposerInv, BatchesKept, Stored
<1> QED
  BY <1>1, <1>4, <1>5, <1>6, <1>7, ProposerSteps DEF ProposerInv, batchVars, waiterVars

LEMMA AskForBlockKeeps ==
  ASSUME Inv, AskForBlock
  PROVE  Inv'
<1>1. Make \in [t : {"make", "cleanup"}, digests : SUBSET Digests] /\ Make.digests = {}
  BY DEF Make
<1>2. asked \in Nat /\ reports \in Nat /\ ordered \subseteq Digests
  BY DEF Inv, TypeOK
<1>3. /\ messages' = Append(messages, Make) /\ asked' = asked + 1
      /\ reports' = reports /\ ordered' = ordered
      /\ UNCHANGED <<mempoolVars, buffer, blocks, proposing, blockCounted>>
  BY DEF AskForBlock
<1>4. asked' \in Nat
  BY <1>2, <1>3
<1> QED
  BY <1>1, <1>2, <1>3, <1>4, MessageKeeps

LEMMA ReportOrderedKeeps ==
  ASSUME Inv, NEW S \in SUBSET Stored, ReportOrdered(S)
  PROVE  Inv'
<1>1. asked \in Nat /\ reports \in Nat /\ ordered \subseteq Digests /\ processed \in Seq(OwnBatch)
  BY DEF Inv, TypeOK
<1>2. S \subseteq Digests
  BY <1>1 DEF Stored, Digests, OwnDigests, Range
<1>3. /\ CleanupOf(S) \in [t : {"make", "cleanup"}, digests : SUBSET Digests]
      /\ CleanupOf(S).digests = S
  BY <1>2 DEF CleanupOf
<1>4. /\ messages' = Append(messages, CleanupOf(S)) /\ reports' = reports + 1
      /\ asked' = asked /\ ordered' = ordered \cup S
      /\ UNCHANGED <<mempoolVars, buffer, blocks, proposing, blockCounted>>
  BY DEF ReportOrdered
<1>5. reports' \in Nat /\ ordered' \subseteq Digests
  BY <1>1, <1>2, <1>4
<1> QED
  BY <1>1, <1>3, <1>4, <1>5, MessageKeeps

LEMMA TakeDigestKeeps ==
  ASSUME Inv, TakeDigest
  PROVE  Inv'
<1>1. /\ digests # <<>> /\ digests' = Tail(digests) /\ buffer' = buffer \cup {Head(digests)}
      /\ UNCHANGED <<batchVars, sealed, waiterVars, processed>>
      /\ delivered' = delivered /\ asked' = asked /\ messages' = messages /\ blocks' = blocks
      /\ proposing' = proposing /\ blockCounted' = blockCounted /\ reports' = reports
      /\ ordered' = ordered
  BY DEF TakeDigest
<1>2. processed' = processed
  BY <1>1
<1>3. TypeOK /\ digests \in Seq(Digests)
  BY DEF Inv, TypeOK
<1>4. PICK h \in Digests : h = Head(digests)
  BY <1>1, <1>3, RangeHeadTail
<1>5. digests' \in Seq(Digests) /\ Range(digests) = {h} \cup Range(digests')
  BY <1>1, <1>3, <1>4, RangeHeadTail
<1>6. TypeOK'
  BY <1>1, <1>3, <1>4, <1>5 DEF TypeOK, batchVars, waiterVars
<1>7. CleanupsOrdered'
  BY <1>1 DEF Inv, ProposerInv, CleanupsOrdered
<1>8. HandedOnce'
  <2>1. ASSUME NEW c \in Digests
        PROVE  Passed(c)' <= Handed(c)'
    <3>1. Times(digests, {c}) = Times(digests', {c}) + Once(h, {c})
      BY <1>1, <1>3, <1>4, TimesTail
    <3>2. Times(digests', {c}) \in Nat
      BY <1>5, PlacesFinite
    <3>3. PICK x \in Nat, y \in Nat, z \in Nat, g \in Nat, o \in Nat, n \in Nat :
            /\ x = Times(digests', {c}) /\ y = Once(c, buffer) /\ z = Times(blocks, Holding(c))
            /\ g = Handed(c) /\ o = Once(h, {c}) /\ n = Once(c, buffer')
      <4>1. Once(h, {c}) \in Nat /\ Once(c, buffer) \in Nat /\ Once(c, buffer') \in Nat
        BY DEF Once
      <4> QED
        BY <1>3, <3>2, <4>1, PassedTyped
    <3>4. n <= o + y
      <4>1. c = h \/ (c \in buffer' <=> c \in buffer)
        BY <1>1, <1>4
      <4>2. (c = h => o = 1) /\ (c # h => o = 0)
        BY <3>3 DEF Once
      <4>3. n = 0 \/ n = 1
        BY <3>3 DEF Once
      <4>4. CASE c = h
        BY <3>3, <4>2, <4>3, <4>4
      <4>5. CASE c # h
        <5>1. n = y
          BY <3>3, <4>1, <4>5 DEF Once
        <5> QED
          BY <3>3, <4>2, <4>5, <5>1
      <4> QED
        BY <4>4, <4>5
    <3>5. (x + o) + y + z <= g
      BY <3>1, <3>3 DEF Inv, ProposerInv, HandedOnce, Passed
    <3>6. x + n + z <= g
      BY <3>4, <3>5
    <3>7. Passed(c)' = x + n + z
      BY <1>1, <3>3 DEF Passed
    <3>8. Handed(c)' = g
      BY <1>1, <1>2, <3>3 DEF Handed
    <3> QED
      BY <3>6, <3>7, <3>8
  <2> QED
    BY <2>1 DEF HandedOnce
<1>9. BatchesKept'
  BY <1>1, <1>2, <1>4, <1>5 DEF Inv, ProposerInv, BatchesKept, Stored
<1> QED
  BY <1>1, <1>6, <1>7, <1>8, <1>9, ProposerSteps DEF ProposerInv

\* A message leaves the channel.
LEMMA MessageTaken ==
  ASSUME Inv, NEW t, TakeMessage(t)
  PROVE  /\ messages' \in Seq([t : {"make", "cleanup"}, digests : SUBSET Digests])
         /\ CleanupsOrdered' /\ Head(messages).digests \subseteq ordered
         /\ currentBatch' = currentBatch /\ currentBatchSize' = currentBatchSize
         /\ taken' = taken /\ sealed' = sealed /\ waitingFor' = waitingFor
         /\ counted' = counted /\ acks' = acks /\ deadlines' = deadlines
         /\ cancelled' = cancelled /\ expired' = expired /\ pendingCounter' = pendingCounter
         /\ processed' = processed /\ delivered' = delivered /\ digests' = digests
         /\ asked' = asked /\ reports' = reports /\ ordered' = ordered
<1>1. /\ messages # <<>> /\ messages' = Tail(messages) /\ ordered' = ordered
      /\ asked' = asked /\ reports' = reports /\ UNCHANGED mempoolVars
  BY DEF TakeMessage
<1>2. messages \in Seq([t : {"make", "cleanup"}, digests : SUBSET Digests])
  BY DEF Inv, TypeOK
<1>3. /\ DOMAIN messages' = 1 .. (Len(messages) - 1)
      /\ \A i \in DOMAIN messages' : i + 1 \in DOMAIN messages /\ messages'[i] = messages[i + 1]
      /\ 1 \in DOMAIN messages /\ Head(messages) = messages[1]
  BY <1>1, <1>2, TailPlaces
<1>4. messages' \in Seq([t : {"make", "cleanup"}, digests : SUBSET Digests])
  BY <1>1, <1>2, RangeHeadTail
<1>5. CleanupsOrdered
  BY DEF Inv, ProposerInv
<1>6. CleanupsOrdered'
  BY <1>1, <1>3, <1>5 DEF CleanupsOrdered
<1>7. Head(messages).digests \subseteq ordered
  BY <1>3, <1>5 DEF CleanupsOrdered
<1> QED
  BY <1>1, <1>4, <1>6, <1>7 DEF mempoolVars, batchVars, waiterVars

LEMMA MakeBlockKeeps ==
  ASSUME Inv, MakeBlock
  PROVE  Inv'
<1>1. /\ TakeMessage("make") /\ blocks' = Append(blocks, buffer) /\ buffer' = {}
      /\ proposing' = TRUE /\ blockCounted' = blockCounted
  BY DEF MakeBlock
<1>2. TypeOK /\ blocks \in Seq(SUBSET Digests) /\ buffer \in SUBSET Digests
  BY DEF Inv, TypeOK
<1>3. blocks' \in Seq(SUBSET Digests) /\ Range(blocks') = Range(blocks) \cup {buffer}
  BY <1>1, <1>2, Appended
<1>4. /\ messages' \in Seq([t : {"make", "cleanup"}, digests : SUBSET Digests])
      /\ CleanupsOrdered'
      /\ currentBatch' = currentBatch /\ currentBatchSize' = currentBatchSize
      /\ taken' = taken /\ sealed' = sealed /\ waitingFor' = waitingFor
      /\ counted' = counted /\ acks' = acks /\ deadlines' = deadlines
      /\ cancelled' = cancelled /\ expired' = expired /\ pendingCounter' = pendingCounter
      /\ processed' = processed /\ delivered' = delivered /\ digests' = digests
      /\ asked' = asked /\ reports' = reports /\ ordered' = ordered
  BY <1>1, MessageTaken
<1>5. TypeOK'
  BY <1>1, <1>2, <1>3, <1>4 DEF TypeOK
<1>6. HandedOnce'
  <2>1. ASSUME NEW c \in Digests
        PROVE  Passed(c)' <= Handed(c)'
    <3>1. Times(blocks', Holding(c)) = Times(blocks, Holding(c)) + Once(c, buffer)
      <4>1. Times(blocks', Holding(c)) = Times(blocks, Holding(c)) + Once(buffer, Holding(c))
        BY <1>1, <1>2, TimesAppended
      <4>2. Once(buffer, Holding(c)) = Once(c, buffer)
        BY <1>2 DEF Once, Holding
      <4> QED
        BY <4>1, <4>2
    <3>2. PICK x \in Nat, y \in Nat, z \in Nat, g \in Nat :
            /\ x = Times(digests, {c}) /\ y = Once(c, buffer) /\ z = Times(blocks, Holding(c))
            /\ g = Handed(c)
      <4>1. Once(c, buffer) \in Nat
        BY DEF Once
      <4> QED
        BY <1>2, <4>1, PassedTyped
    <3>3. x + y + z <= g
      BY <3>2 DEF Inv, ProposerInv, HandedOnce, Passed
    <3>4. Once(c, buffer') = 0
      BY <1>1 DEF Once
    <3>5. Passed(c)' = x + 0 + (z + y)
      BY <1>4, <3>1, <3>2, <3>4 DEF Passed
    <3>6. Handed(c)' = g
      BY <1>4, <3>2 DEF Handed
    <3>7. x + 0 + (z + y) <= g
      BY <3>3
    <3> QED
      BY <3>5, <3>6, <3>7
  <2> QED
    BY <2>1 DEF HandedOnce
<1>7. BatchesKept'
  BY <1>1, <1>3, <1>4 DEF Inv, ProposerInv, BatchesKept, Stored
<1> QED
  BY <1>4, <1>5, <1>6, <1>7, ProposerSteps DEF ProposerInv, batchVars, waiterVars

LEMMA CleanBufferKeeps ==
  ASSUME Inv, CleanBuffer
  PROVE  Inv'
<1>1. /\ TakeMessage("cleanup") /\ buffer' = buffer \ Head(messages).digests
      /\ blocks' = blocks /\ proposing' = proposing /\ blockCounted' = blockCounted
  BY DEF CleanBuffer
<1>2. TypeOK /\ buffer \in SUBSET Digests
  BY DEF Inv, TypeOK
<1>3. /\ messages' \in Seq([t : {"make", "cleanup"}, digests : SUBSET Digests])
      /\ CleanupsOrdered' /\ Head(messages).digests \subseteq ordered
      /\ currentBatch' = currentBatch /\ currentBatchSize' = currentBatchSize
      /\ taken' = taken /\ sealed' = sealed /\ waitingFor' = waitingFor
      /\ counted' = counted /\ acks' = acks /\ deadlines' = deadlines
      /\ cancelled' = cancelled /\ expired' = expired /\ pendingCounter' = pendingCounter
      /\ processed' = processed /\ delivered' = delivered /\ digests' = digests
      /\ asked' = asked /\ reports' = reports /\ ordered' = ordered
  BY <1>1, MessageTaken
<1>4. TypeOK'
  BY <1>1, <1>2, <1>3 DEF TypeOK
<1>5. HandedOnce'
  <2>1. ASSUME NEW c \in Digests
        PROVE  Passed(c)' <= Handed(c)'
    <3>1. PICK x \in Nat, y \in Nat, z \in Nat, g \in Nat, n \in Nat :
            /\ x = Times(digests, {c}) /\ y = Once(c, buffer) /\ z = Times(blocks, Holding(c))
            /\ g = Handed(c) /\ n = Once(c, buffer')
      <4>1. Once(c, buffer) \in Nat /\ Once(c, buffer') \in Nat
        BY DEF Once
      <4> QED
        BY <1>2, <4>1, PassedTyped
    <3>2. x + y + z <= g
      BY <3>1 DEF Inv, ProposerInv, HandedOnce, Passed
    <3>3. n <= y
      BY <1>1, <3>1 DEF Once
    <3>4. x + n + z <= g
      BY <3>2, <3>3
    <3>5. Passed(c)' = x + n + z
      BY <1>1, <1>3, <3>1 DEF Passed
    <3>6. Handed(c)' = g
      BY <1>3, <3>1 DEF Handed
    <3> QED
      BY <3>4, <3>5, <3>6
  <2> QED
    BY <2>1 DEF HandedOnce
<1>6. BatchesKept'
  <2>1. Stored' = Stored
    BY <1>3 DEF Stored
  <2>2. ASSUME NEW c \in Stored
        PROVE  c \in Range(digests) \cup buffer' \cup ordered \cup UNION Range(blocks)
    <3>1. c \in Range(digests) \cup buffer \cup ordered \cup UNION Range(blocks)
      BY DEF Inv, ProposerInv, BatchesKept
    <3>2. buffer \subseteq buffer' \cup ordered
      BY <1>1, <1>3
    <3> QED
      BY <3>1, <3>2
  <2> QED
    BY <1>1, <1>3, <2>1, <2>2 DEF BatchesKept
<1> QED
  BY <1>3, <1>4, <1>5, <1>6, ProposerSteps DEF ProposerInv, batchVars, waiterVars

LEMMA CountBlockAckKeeps ==
  ASSUME Inv, NEW n \in Node, CountBlockAck(n)
  PROVE  Inv'
<1>1. /\ proposing' \in BOOLEAN
      /\ blockCounted' = (IF proposing' THEN blockCounted \cup {n} ELSE {})
      /\ UNCHANGED mempoolVars
      /\ asked' = asked /\ messages' = messages /\ buffer' = buffer /\ blocks' = blocks
      /\ reports' = reports /\ ordered' = ordered
  BY DEF CountBlockAck
<1>2. UNCHANGED <<batchVars, sealed, waiterVars, processed, delivered, digests>>
  BY <1>1 DEF mempoolVars
<1>3. blockCounted' \subseteq Node
  BY <1>1 DEF Inv, TypeOK
<1>4. TypeOK'
  BY <1>1, <1>2, <1>3 DEF Inv, TypeOK, batchVars, waiterVars
<1>5. ProposerInv'
  BY <1>1, <1>2, ProposerAlone DEF Inv
<1> QED
  BY <1>2, <1>4, <1>5, ProposerSteps
-----------------------------------------------------------------------------
LEMMA PathStarts == Init => Inv
<1> SUFFICES ASSUME Init
             PROVE  Inv
  OBVIOUS
<1>1. /\ currentBatch = <<>> /\ currentBatchSize = 0 /\ taken = 0 /\ sealed = <<>>
      /\ waitingFor = <<>> /\ acks = {} /\ counted = {} /\ deadlines = {} /\ expired = 0
      /\ pendingCounter = 0 /\ cancelled = {} /\ processed = <<>> /\ digests = <<>>
      /\ delivered = [d \in Digests |-> 0]
      /\ asked = 0 /\ messages = <<>> /\ buffer = {} /\ blocks = <<>>
      /\ proposing = FALSE /\ blockCounted = {} /\ reports = 0 /\ ordered = {}
  BY DEF Init, MempoolInit
<1>2. Len(TxSize) \in Nat /\ QueueMax \in Nat
  BY DisseminationAssumption
<1>3. TypeOK
  <2>1. taken \in 0 .. Len(TxSize)
    BY <1>1, <1>2
  <2>2. /\ currentBatch \in Seq(Transaction) /\ sealed \in Seq(OwnBatch) /\ processed \in Seq(OwnBatch)
        /\ waitingFor \in Seq(OwnBatch) /\ digests \in Seq(Digests) /\ blocks \in Seq(SUBSET Digests)
        /\ messages \in Seq([t : {"make", "cleanup"}, digests : SUBSET Digests])
    BY <1>1, EmptySeq
  <2>3. Len(waitingFor) <= 1
    BY <1>1
  <2> QED
    BY <1>1, <2>1, <2>2, <2>3 DEF TypeOK
<1>4. TransactionsKept
  <2>1. PICK e \in Seq(OwnBatch) : e = <<>>
    <3>1. <<>> \in Seq(OwnBatch)
      BY EmptySeq
    <3> QED
      BY <3>1, Zenon
  <2>2. e \o e = e
    BY <2>1, ConcatEmptySeq
  <2>3. Path = e \o e \o e
    BY <1>1, <2>1 DEF Path
  <2>4. Path = <<>>
    BY <2>1, <2>2, <2>3, Zenon
  <2>5. Len(Path) = 0 /\ DOMAIN Path = {}
    BY <2>4
  <2> DEFINE c == [i \in 0 .. 0 |-> 0]
  <2>6. c \in [0 .. 0 -> 0 .. 0] /\ c[0] = 0 /\ DOMAIN c = 0 .. 0
    OBVIOUS
  <2>7. Consecutive(0, 0) = <<>>
    <3>1. Consecutive(0, 0) \in Seq(Nat) /\ Len(Consecutive(0, 0)) = 0 - 0
      BY ConsecutivePlaces
    <3>2. 0 - 0 = 0
      OBVIOUS
    <3> QED
      BY <3>1, <3>2, EmptySeq
  <2> HIDE DEF c
  <2>8. CutBy(c, Path, 0, <<>>)
    BY <2>5, <2>6, <2>7 DEF CutBy
  <2>9. Cut(Path, taken, currentBatch)
    BY <1>1, <2>8 DEF Cut
  <2> QED
    BY <2>9, KeptIsCut
<1>5. WaiterInv
  <2>1. IsFiniteSet(deadlines) /\ Cardinality(deadlines) = 0
    BY <1>1, FS_EmptySet
  <2>2. SlotsMatch
    BY <1>1, <1>2, <2>1 DEF SlotsMatch
  <2> QED
    BY <1>1, <2>1, <2>2 DEF WaiterInv, DeadlinesProcessed
<1>6. ProposerInv
  <2>1. CleanupsOrdered
    BY <1>1 DEF CleanupsOrdered
  <2>2. ASSUME NEW b \in Digests
        PROVE  Passed(b) <= Handed(b)
    <3>1. Times(digests, {b}) = 0 /\ Times(blocks, Holding(b)) = 0
          /\ Times(processed, BatchesOf(b)) = 0 /\ delivered[b] = 0
      BY <1>1, TimesOfNone
    <3>2. Once(b, buffer) = 0
      BY <1>1 DEF Once
    <3>3. Handed(b) = 0
      BY <3>1, HandedIs
    <3> QED
      BY <3>1, <3>2, <3>3 DEF Passed
  <2>3. Stored = {}
    BY <1>1, RangeOfNone DEF Stored
  <2> QED
    BY <2>1, <2>2, <2>3 DEF ProposerInv, HandedOnce, BatchesKept
<1> QED
  BY <1>3, <1>4, <1>5, <1>6 DEF Inv

LEMMA PathKeeps ==
  ASSUME Inv, [Next]_vars
  PROVE  Inv'
<1>1. CASE MempoolNext /\ UNCHANGED proposerVars
  BY <1>1, ReceiveTransactionKeeps, MaxBatchDelayKeeps, AckBatchKeeps, TakeBatchKeeps,
     CountBatchAckKeeps, DeadlineKeeps, TakeExpiredKeeps, ReceiveBatchKeeps DEF MempoolNext
<1>2. CASE ProposerNext
  BY <1>2, AskForBlockKeeps, ReportOrderedKeeps, TakeDigestKeeps, MakeBlockKeeps,
     CleanBufferKeeps, CountBlockAckKeeps DEF ProposerNext
<1>3. CASE UNCHANGED vars
  <2>1. UNCHANGED <<batchVars, sealed, waiterVars, processed, delivered, digests>>
    BY <1>3 DEF vars, mempoolVars
  <2>2. TypeOK'
    BY <1>3 DEF Inv, TypeOK, vars, mempoolVars, batchVars, waiterVars, proposerVars
  <2>3. ProposerInv'
    BY <1>3, <2>1, ProposerAlone DEF Inv, vars, proposerVars
  <2> QED
    BY <2>1, <2>2, <2>3, ProposerSteps
<1> QED
  BY <1>1, <1>2, <1>3 DEF Next

LEMMA Invariance == Spec => []Inv
<1>1. Init => Inv
  BY PathStarts
<1>2. Inv /\ [Next]_vars => Inv'
  BY PathKeeps
<1> QED
  BY <1>1, <1>2, PTL DEF Spec

\* The variables keep their types.
THEOREM TypeCorrect == Spec => []TypeOK
BY Invariance, PTL DEF Inv

\* From the batch maker to the processor the batches are consecutive pieces of the
\* transactions received: none is lost, repeated or reordered (BatchMaker.run and seal,
\* QuorumWaiter.run, Processor.run).
THEOREM NoTransactionLost == Spec => []TransactionsKept
BY Invariance, PTL DEF Inv

\* The slots in use are those of the deadlines that run or expired, and no more of them
\* than the queue has (QuorumWaiter.run, disseminationDeadline).
THEOREM SlotsAccounted == Spec => []SlotsMatch
BY Invariance, PTL DEF Inv, WaiterInv

\* The proposer puts a digest in no more blocks than it was handed it, for an own batch
\* that got its quorum or for a batch received (Proposer.run, makeBlock).
THEOREM ProposedAsHanded == Spec => []ProposedOncePerDelivery
BY Invariance, HandedBoundsBlocks, PTL

\* A batch that is stored is on the way to a block, in a block, or was seen in one
\* (Processor.run, Proposer.run, makeBlock and the cleanup).
THEOREM NoBatchForgotten == Spec => []BatchesKept
BY Invariance, PTL DEF Inv, ProposerInv
=============================================================================
