------------------------------ MODULE BasicLemmas ------------------------------
(***************************************************************************)
(* Facts cited by the proofs of several components: what is on a channel, as *)
(* a set and place by place, when an element is sent or received; and the    *)
(* greatest and least elements of a set of numbers, which stand in for       *)
(* induction where a definition runs over a channel, down a chain or over    *)
(* the members of a set.  The last section is about sums over a set.         *)
(***************************************************************************)
EXTENDS SequenceTheorems, FiniteSetTheorems, Functions, TLAPS

\* What is read from a channel and what stays on it were on it.
LEMMA RangeHeadTail ==
  ASSUME NEW S, NEW s \in Seq(S), s # <<>>
  PROVE  /\ Head(s) \in S /\ Tail(s) \in Seq(S)
         /\ Len(Tail(s)) = Len(s) - 1
         /\ Range(s) = {Head(s)} \cup Range(Tail(s))
<1>1. /\ Head(s) \in S /\ Tail(s) \in Seq(S)
      /\ Len(Tail(s)) = Len(s) - 1
      /\ \A i \in 1 .. Len(Tail(s)) : Tail(s)[i] = s[i + 1]
      /\ Len(s) \in Nat \ {0} /\ Head(s) = s[1]
  BY HeadTailProperties, EmptySeq
<1>2. /\ Range(s) = {s[i] : i \in 1 .. Len(s)}
      /\ Range(Tail(s)) = {Tail(s)[i] : i \in 1 .. Len(Tail(s))}
  BY <1>1, RangeEquality
<1>3. ASSUME NEW i \in 1 .. Len(s)
      PROVE  s[i] \in {Head(s)} \cup Range(Tail(s))
  <2>1. i = 1 \/ i - 1 \in 1 .. Len(Tail(s))
    BY <1>1
  <2> QED
    BY <1>1, <1>2, <2>1
<1>4. ASSUME NEW i \in 1 .. Len(Tail(s))
      PROVE  Tail(s)[i] \in Range(s)
  BY <1>1, <1>2
<1> QED
  BY <1>1, <1>2, <1>3, <1>4

LEMMA RangeAppended ==
  ASSUME NEW S, NEW s \in Seq(S), NEW e \in S
  PROVE  /\ s \o <<e>> \in Seq(S)
         /\ Len(s \o <<e>>) = Len(s) + 1
         /\ Range(s \o <<e>>) = Range(s) \cup {e}
<1>1. <<e>> \in Seq(S) /\ Len(<<e>>) = 1 /\ Range(<<e>>) = {e}
  BY DEF Range
<1>2. s \o <<e>> \in Seq(S) /\ Len(s \o <<e>>) = Len(s) + Len(<<e>>)
  BY <1>1, ConcatProperties
<1>3. Range(s \o <<e>>) = Range(s) \cup Range(<<e>>)
  BY <1>1, RangeConcatenation
<1> QED
  BY <1>1, <1>2, <1>3

LEMMA Appended ==
  ASSUME NEW S, NEW s \in Seq(S), NEW e \in S
  PROVE  /\ Append(s, e) \in Seq(S)
         /\ Len(Append(s, e)) = Len(s) + 1
         /\ Range(Append(s, e)) = Range(s) \cup {e}
<1>1. Append(s, e) = s \o <<e>>
  BY AppendIsConcat
<1> QED
  BY <1>1, RangeAppended

LEMMA RangeOfNone == Range(<<>>) = {}
BY DEF Range

\* A channel-like variable that holds one element at most.
LEMMA OneElement ==
  ASSUME NEW S, NEW s \in Seq(S), Len(s) <= 1, s # <<>>
  PROVE  \E e \in S : s = <<e>>
<1>1. \A n \in Nat : n <= 1 /\ n # 0 => n = 1
  OBVIOUS
<1>2. Len(s) = 1
  BY <1>1
<1>3. s[1] \in S
  BY <1>2, ElementOfSeq
<1>4. <<s[1]>> \in Seq(S) /\ Len(<<s[1]>>) = 1 /\ <<s[1]>>[1] = s[1]
  BY <1>3
<1>5. s = <<s[1]>>
  BY <1>2, <1>4, SeqEqual
<1> QED
  BY <1>3, <1>5

LEMMA RangeOfThree ==
  ASSUME NEW S, NEW s \in Seq(S), NEW t \in Seq(S), NEW u \in Seq(S)
  PROVE  /\ s \o t \in Seq(S) /\ s \o t \o u \in Seq(S)
         /\ Range(s \o t \o u) = Range(s) \cup Range(t) \cup Range(u)
<1>1. s \o t \in Seq(S) /\ s \o t \o u \in Seq(S)
  BY ConcatProperties
<1>2. Range(s \o t) = Range(s) \cup Range(t)
  BY RangeConcatenation
<1>3. Range(s \o t \o u) = Range(s \o t) \cup Range(u)
  BY <1>1, RangeConcatenation
<1> QED
  BY <1>1, <1>2, <1>3

LEMMA RangeOfFour ==
  ASSUME NEW S, NEW s \in Seq(S), NEW t \in Seq(S), NEW u \in Seq(S), NEW v \in Seq(S)
  PROVE  Range(s \o t \o u \o v) = Range(s) \cup Range(t) \cup Range(u) \cup Range(v)
<1>1. s \o t \in Seq(S) /\ s \o t \o u \in Seq(S)
  BY ConcatProperties
<1>2. Range(s \o t) = Range(s) \cup Range(t)
  BY RangeConcatenation
<1>3. Range(s \o t \o u) = Range(s \o t) \cup Range(u)
  BY <1>1, RangeConcatenation
<1>4. Range(s \o t \o u \o v) = Range(s \o t \o u) \cup Range(v)
  BY <1>1, RangeConcatenation
<1> QED
  BY <1>2, <1>3, <1>4

\* Receiving moves every other element one place ahead.
LEMMA TailPlaces ==
  ASSUME NEW S, NEW s \in Seq(S), s # <<>>
  PROVE  /\ DOMAIN Tail(s) = 1 .. (Len(s) - 1)
         /\ \A i \in DOMAIN Tail(s) : i + 1 \in DOMAIN s /\ Tail(s)[i] = s[i + 1]
         /\ 1 \in DOMAIN s /\ Head(s) = s[1]
<1>1. /\ Tail(s) \in Seq(S)
      /\ Len(Tail(s)) = Len(s) - 1
      /\ \A i \in 1 .. Len(Tail(s)) : Tail(s)[i] = s[i + 1]
      /\ Len(s) \in Nat \ {0} /\ Head(s) = s[1]
  BY HeadTailProperties, EmptySeq
<1>2. DOMAIN Tail(s) = 1 .. Len(Tail(s)) /\ DOMAIN s = 1 .. Len(s)
  BY <1>1
<1> QED
  BY <1>1, <1>2

LEMMA HeadFirst ==
  ASSUME NEW S, NEW s \in Seq(S), s # <<>>
  PROVE  s = <<Head(s)>> \o Tail(s)
<1>1. /\ DOMAIN Tail(s) = 1 .. (Len(s) - 1)
      /\ \A i \in DOMAIN Tail(s) : Tail(s)[i] = s[i + 1]
      /\ Head(s) = s[1]
  BY TailPlaces
<1>2. /\ Head(s) \in S /\ Tail(s) \in Seq(S) /\ Len(Tail(s)) = Len(s) - 1 /\ Len(s) \in Nat \ {0}
  BY RangeHeadTail, EmptySeq
<1>3. /\ <<Head(s)>> \in Seq(S) /\ Len(<<Head(s)>>) = 1 /\ <<Head(s)>>[1] = Head(s)
  BY <1>2
<1> DEFINE w == <<Head(s)>> \o Tail(s)
<1>4. /\ w \in Seq(S) /\ Len(w) = 1 + (Len(s) - 1)
      /\ \A i \in 1 .. (1 + (Len(s) - 1)) :
           w[i] = IF i <= 1 THEN <<Head(s)>>[i] ELSE Tail(s)[i - 1]
  BY <1>2, <1>3, ConcatProperties
<1>5. 1 + (Len(s) - 1) = Len(s)
  BY <1>2
<1> HIDE DEF w
<1>6. ASSUME NEW i \in 1 .. Len(s)
      PROVE  w[i] = s[i]
  <2>1. CASE i = 1
    BY <1>1, <1>2, <1>3, <1>4, <1>5, <2>1
  <2>2. CASE i # 1
    <3>1. i - 1 \in 1 .. (Len(s) - 1) /\ (i - 1) + 1 = i /\ ~ (i <= 1)
      BY <1>2, <2>2
    <3>2. Tail(s)[i - 1] = s[i]
      BY <1>1, <3>1
    <3> QED
      BY <1>4, <1>5, <3>1, <3>2
  <2> QED
    BY <2>1, <2>2
<1>7. w = s
  BY <1>4, <1>5, <1>6, SeqEqual
<1> QED
  BY <1>7 DEF w

LEMMA Association ==
  ASSUME NEW S, NEW s \in Seq(S), NEW t \in Seq(S), NEW u \in Seq(S), NEW v \in Seq(S),
         v = t \o u
  PROVE  s \o v = s \o t \o u
BY ConcatAssociative, SMTT(30)

\* The first element of a sequence that is followed and preceded by others.
LEMMA MiddleFirst ==
  ASSUME NEW S, NEW s \in Seq(S), NEW t \in Seq(S), NEW u \in Seq(S), t # <<>>,
         NEW one, one = <<Head(t)>>, NEW r, r = Tail(t)
  PROVE  /\ s \o t \o u = s \o one \o r \o u
         /\ s \o t \o u = s \o one \o (r \o u)
         /\ s \o r \o u = s \o (r \o u)
         /\ r \o u \in Seq(S) /\ one \in Seq(S) /\ r \in Seq(S)
<1>1. one \in Seq(S) /\ r \in Seq(S)
  <2>1. Head(t) \in S /\ Tail(t) \in Seq(S)
    BY RangeHeadTail
  <2> QED
    BY <2>1
<1>2. t = one \o r
  BY HeadFirst
<1>3. PICK w \in Seq(S) : w = s \o one
  BY <1>1, ConcatProperties
<1>4. PICK x \in Seq(S) : x = r \o u
  BY <1>1, ConcatProperties
<1>5. x = r \o u /\ r \in Seq(S)
  BY <1>1, <1>4
<1>6. s \o t = s \o one \o r
  BY <1>1, <1>2, Association
<1>7. w \o x = w \o r \o u
  BY <1>5, Association
<1>8. s \o x = s \o r \o u
  BY <1>5, Association
<1> QED
  BY <1>1, <1>3, <1>5, <1>6, <1>7, <1>8, Zenon

\* h is the first element of t, r the rest, s is before and u after t.
Split(s, t, u, h, r) ==
  /\ h = Head(t) /\ r = Tail(t)
  /\ Range(t) = {h} \cup Range(r)
  /\ s \o t \o u = s \o <<h>> \o r \o u
  /\ s \o t \o u = s \o <<h>> \o (r \o u)
  /\ s \o r \o u = s \o (r \o u)

LEMMA MiddleSplit ==
  ASSUME NEW S, NEW s \in Seq(S), NEW t \in Seq(S), NEW u \in Seq(S), t # <<>>
  PROVE  \E h \in S, r \in Seq(S) : Split(s, t, u, h, r) /\ r \o u \in Seq(S)
<1>1. PICK h, r : h = Head(t) /\ r = Tail(t)
  OBVIOUS
<1>2. h \in S /\ r \in Seq(S) /\ Range(t) = {h} \cup Range(r)
  BY <1>1, RangeHeadTail
<1>3. PICK one : one = <<h>>
  OBVIOUS
<1>4. one = <<Head(t)>> /\ r = Tail(t)
  BY <1>1, <1>3
<1>5. s \o t \o u = s \o one \o r \o u
  BY <1>4, MiddleFirst
<1>6. s \o t \o u = s \o one \o (r \o u)
  BY <1>4, MiddleFirst
<1>7. s \o r \o u = s \o (r \o u)
  BY <1>4, MiddleFirst
<1>8. r \o u \in Seq(S)
  BY <1>4, MiddleFirst
<1> QED
  BY <1>1, <1>2, <1>3, <1>5, <1>6, <1>7, <1>8, Zenon DEF Split

\* What stays of a sequence without its first elements.
LEMMA RestOf ==
  ASSUME NEW S, NEW s \in Seq(S), NEW k \in Nat, k <= Len(s)
  PROVE  /\ SubSeq(s, k + 1, Len(s)) \in Seq(S)
         /\ Len(SubSeq(s, k + 1, Len(s))) = Len(s) - k
         /\ \A i \in 1 .. (Len(s) - k) : SubSeq(s, k + 1, Len(s))[i] = s[k + i]
<1>1. Len(s) \in Nat
  OBVIOUS
<1>2. \A i \in (k + 1) .. Len(s) : s[i] \in S
  BY ElementOfSeq
<1>3. PICK m \in Int, n \in Int : m = k + 1 /\ n = Len(s)
  BY <1>1
<1>4. /\ SubSeq(s, m, n) \in Seq(S)
      /\ Len(SubSeq(s, m, n)) = IF m <= n THEN n - m + 1 ELSE 0
      /\ \A i \in 1 .. n - m + 1 : SubSeq(s, m, n)[i] = s[m + i - 1]
  BY <1>2, <1>3, SubSeqProperties
<1>5. n - m + 1 = Len(s) - k /\ (~(m <= n) => Len(s) - k = 0)
  BY <1>1, <1>3
<1>6. \A i \in 1 .. (Len(s) - k) : i \in 1 .. n - m + 1 /\ m + i - 1 = k + i
  BY <1>1, <1>3
<1> QED
  BY <1>3, <1>4, <1>5, <1>6

\* Sending leaves the places of what is on the channel.
LEMMA AppendPlaces ==
  ASSUME NEW S, NEW s \in Seq(S), NEW e \in S
  PROVE  /\ DOMAIN s = 1 .. Len(s) /\ Len(s) \in Nat
         /\ DOMAIN Append(s, e) = 1 .. (Len(s) + 1)
         /\ \A i \in 1 .. Len(s) : Append(s, e)[i] = s[i]
         /\ Append(s, e)[Len(s) + 1] = e
BY AppendProperties

\* A finite set of numbers has a greatest element.
LEMMA GreatestElement ==
  ASSUME NEW T, T \subseteq Int, T # {}, IsFiniteSet(T)
  PROVE  \E x \in T : \A y \in T : y <= x
<1> DEFINE above(i) == {j \in T : j >= i}
           F == {above(i) : i \in T}
<1>1. F \subseteq SUBSET T /\ F # {}
  OBVIOUS
<1>w. IsWellFoundedOn(StrictSubsetOrdering(T), SUBSET T)
  <2>1. IsWellFoundedOn(StrictSubsetOrdering(T), FiniteSubsetsOf(T))
    BY FS_StrictSubsetOrderingWellFounded
  <2>2. FiniteSubsetsOf(T) = SUBSET T
    BY FS_Subset DEF FiniteSubsetsOf
  <2> QED
    BY <2>1, <2>2
<1>2. PICK X \in F : \A Y \in F : <<Y, X>> \notin StrictSubsetOrdering(T)
  <2> HIDE DEF F
  <2> QED
  BY <1>1, <1>w, WFMin
<1>3. PICK x \in T : X = above(x)
  OBVIOUS
<1>4. ASSUME NEW y \in T, y > x
      PROVE  FALSE
  <2>1. above(y) \in F /\ above(y) \subseteq T /\ X \subseteq T
    BY <1>3
  <2>2. \A j \in T : j >= y => j >= x
    BY <1>4
  <2>3. ~(x >= y) /\ x >= x
    BY <1>4
  <2>4. above(y) \subseteq X /\ x \notin above(y) /\ x \in X
    BY <1>3, <2>2, <2>3
  <2>5. <<above(y), X>> \in StrictSubsetOrdering(T)
    BY <2>1, <2>4 DEF StrictSubsetOrdering
  <2> QED
    BY <1>2, <2>1, <2>5
<1> QED
  BY <1>4

\* A set of natural numbers has a least element.
LEMMA LeastElement ==
  ASSUME NEW T, T \subseteq Nat, T # {}
  PROVE  \E x \in T : \A y \in T : x <= y
<1>1. PICK n \in T : TRUE
  OBVIOUS
<1> DEFINE below == {n - j : j \in {i \in T : i <= n}}
<1>2. below \subseteq 0 .. n /\ n - n \in below
  BY <1>1
<1>3. IsFiniteSet(below)
  <2>1. IsFiniteSet(0 .. n)
    BY <1>1, FS_Interval
  <2> QED
    BY <1>2, <2>1, FS_Subset
<1>4. PICK d \in below : \A e \in below : e <= d
  <2>1. below \subseteq Int /\ below # {}
    BY <1>1, <1>2
  <2> HIDE DEF below
  <2> QED
    BY <1>3, <2>1, GreatestElement
<1>5. PICK x \in T : x <= n /\ d = n - x
  BY <1>4
<1>6. ASSUME NEW y \in T
      PROVE  x <= y
  <2>1. CASE y <= n
    <3>1. n - y <= n - x
      BY <1>4, <1>5, <2>1
    <3> QED
      BY <1>1, <1>5, <3>1
  <2>2. CASE y > n
    BY <1>1, <1>5, <2>2
  <2> QED
    BY <1>1, <2>1, <2>2
<1> QED
  BY <1>5, <1>6

\* The walk from every element of D, as long as it is in Go, along up.
IsWalk(D, Go, up, w) ==
  /\ w = [x \in D |-> w[x]]
  /\ \A x \in Go : w[x] = <<up[x]>> \o w[up[x]]
  /\ \A x \in D \ Go : w[x] = <<>>

\* A walk that goes down in rank, collecting what it comes past, is well defined.
LEMMA WalkDefined ==
  ASSUME NEW D, NEW rank \in [D -> Nat], NEW Go \in SUBSET D, NEW up \in [Go -> D],
         \A x \in Go : rank[up[x]] < rank[x]
  PROVE  \E w : IsWalk(D, Go, up, w)
<1> DEFINE Low(r) == {x \in D : rank[x] < r}
           Walk(v, A) == v = [x \in A |-> IF x \in Go THEN <<up[x]>> \o v[up[x]] ELSE <<>>]
           bad == {r \in Nat : ~\E v : Walk(v, Low(r))}
<1>1. bad = {}
  <2> SUFFICES ASSUME bad # {} PROVE FALSE
    OBVIOUS
  <2>1. bad \subseteq Nat
    OBVIOUS
  <2>2. PICK r \in bad : \A k \in bad : r <= k
    <3> HIDE DEF bad
    <3> QED
      BY <2>1, LeastElement
  <2>3. CASE r = 0
    <3>1. Low(r) = {}
      BY <2>3
    <3>2. Walk([x \in {} |-> <<>>], {})
      OBVIOUS
    <3> QED
      BY <2>2, <3>1, <3>2
  <2>4. CASE r # 0
    <3>1. r \in Nat /\ r - 1 \in Nat /\ ~(r <= r - 1)
      BY <2>1, <2>4
    <3>2. PICK v : Walk(v, Low(r - 1))
      BY <2>2, <3>1
    <3> DEFINE u == [x \in Low(r) |-> IF x \in Go THEN <<up[x]>> \o v[up[x]] ELSE <<>>]
    <3>3. ASSUME NEW x \in Low(r), x \in Go
          PROVE  v[up[x]] = u[up[x]]
      <4>1. up[x] \in D /\ rank[up[x]] \in Nat /\ rank[x] \in Nat /\ rank[up[x]] < rank[x]
        BY <3>3
      <4>2. up[x] \in Low(r - 1) /\ up[x] \in Low(r)
        BY <3>1, <4>1
      <4> QED
        BY <3>2, <4>2
    <3>4. Walk(u, Low(r))
      BY <3>3
    <3> QED
      BY <2>2, <3>4
  <2> QED
    BY <2>3, <2>4
<1>2. \A r \in Nat : \E v : Walk(v, Low(r))
  BY <1>1
<1>3. ASSUME NEW r \in Nat, NEW q \in Nat, NEW v, NEW u, Walk(v, Low(r)), Walk(u, Low(q)),
             NEW x \in Low(r) \cap Low(q)
      PROVE  v[x] = u[x]
  <2> DEFINE differ == {y \in Low(r) \cap Low(q) : v[y] # u[y]}
             ranks == {rank[y] : y \in differ}
  <2> SUFFICES ASSUME differ # {} PROVE FALSE
    OBVIOUS
  <2>1. ranks \subseteq Nat /\ ranks # {}
    OBVIOUS
  <2>2. PICK k \in ranks : \A j \in ranks : k <= j
    <3> HIDE DEF ranks
    <3> QED
      BY <2>1, LeastElement
  <2>3. PICK y \in differ : rank[y] = k
    OBVIOUS
  <2>4. ASSUME y \in Go PROVE v[up[y]] = u[up[y]]
    <3>1. up[y] \in D /\ rank[up[y]] \in Nat /\ rank[y] \in Nat /\ rank[up[y]] < rank[y]
      BY <2>4
    <3>2. up[y] \in Low(r) \cap Low(q)
      BY <3>1
    <3>3. ~(k <= rank[up[y]])
      BY <2>3, <3>1
    <3>4. up[y] \notin differ
      BY <2>2, <3>3
    <3> QED
      BY <3>2, <3>4
  <2> QED
    BY <1>3, <2>3, <2>4
<1> DEFINE one(x) == CHOOSE v : Walk(v, Low(rank[x] + 1))
           w == [x \in D |-> one(x)[x]]
<1>4. \A x \in D : Walk(one(x), Low(rank[x] + 1)) /\ x \in Low(rank[x] + 1)
  <2> SUFFICES ASSUME NEW x \in D
               PROVE  Walk(one(x), Low(rank[x] + 1)) /\ x \in Low(rank[x] + 1)
    OBVIOUS
  <2>1. rank[x] \in Nat /\ rank[x] + 1 \in Nat /\ rank[x] < rank[x] + 1
    OBVIOUS
  <2>2. \E v : Walk(v, Low(rank[x] + 1))
    BY <1>2, <2>1
  <2> QED
    BY <2>1, <2>2
<1>5. ASSUME NEW x \in D, x \in Go
      PROVE  one(x)[up[x]] = w[up[x]]
  <2>1. up[x] \in D /\ rank[up[x]] \in Nat /\ rank[x] \in Nat /\ rank[up[x]] < rank[x]
    BY <1>5
  <2>2. /\ up[x] \in Low(rank[x] + 1) \cap Low(rank[up[x]] + 1)
        /\ rank[x] + 1 \in Nat /\ rank[up[x]] + 1 \in Nat
    BY <2>1
  <2>3. Walk(one(x), Low(rank[x] + 1)) /\ Walk(one(up[x]), Low(rank[up[x]] + 1))
    BY <1>4, <2>1
  <2> HIDE DEF one, Walk
  <2> QED
    BY <1>3, <2>1, <2>2, <2>3
<1>6. ASSUME NEW x \in D
      PROVE  one(x)[x] = IF x \in Go THEN <<up[x]>> \o one(x)[up[x]] ELSE <<>>
  <2> DEFINE v == one(x)
  <2>1. Walk(v, Low(rank[x] + 1)) /\ x \in Low(rank[x] + 1)
    BY <1>4
  <2> HIDE DEF v
  <2>2. v[x] = IF x \in Go THEN <<up[x]>> \o v[up[x]] ELSE <<>>
    BY <2>1
  <2> QED
    BY <2>2 DEF v
<1>7. ASSUME NEW x \in D
      PROVE  w[x] = IF x \in Go THEN <<up[x]>> \o w[up[x]] ELSE <<>>
  <2>1. w[x] = one(x)[x]
    OBVIOUS
  <2> HIDE DEF w, one
  <2> QED
    BY <1>5, <1>6, <2>1
<1>8. w = [x \in D |-> w[x]]
  <2> HIDE DEF one
  <2> QED
    OBVIOUS
<1> HIDE DEF w
<1> QED
  BY <1>7, <1>8 DEF IsWalk

\* One more element in front.
Pushed(S, y, v, w) ==
  /\ w \in Seq(S) /\ Range(w) = {y} \cup Range(v)
  /\ \A i \in DOMAIN w : i \in Nat \ {0}
  /\ \A i \in DOMAIN w : i = 1 => w[i] = y
  /\ \A i \in DOMAIN w : i # 1 => i - 1 \in DOMAIN v /\ w[i] = v[i - 1]

LEMMA PushedFirst ==
  ASSUME NEW S, NEW y \in S, NEW v \in Seq(S), NEW w, w = <<y>> \o v
  PROVE  Pushed(S, y, v, w)
<1> DEFINE one == <<y>>
<1>1. one \in Seq(S) /\ Len(one) = 1 /\ one[1] = y /\ Range(one) = {y}
  BY DEF Range
<1> HIDE DEF one
<1>2. w = one \o v
  BY DEF one
<1>3. w \in Seq(S) /\ Len(w) = 1 + Len(v)
  BY <1>1, <1>2, ConcatProperties
<1>4. \A i \in 1 .. Len(w) : w[i] = IF i <= 1 THEN one[i] ELSE v[i - 1]
  BY <1>1, <1>2, ConcatProperties
<1>5. Range(w) = {y} \cup Range(v)
  BY <1>1, <1>2, RangeConcatenation
<1>6. DOMAIN w = 1 .. Len(w) /\ DOMAIN v = 1 .. Len(v) /\ Len(v) \in Nat /\ Len(w) \in Nat
  BY <1>3
<1>7. \A i \in DOMAIN w : i # 1 => i - 1 \in DOMAIN v /\ w[i] = v[i - 1]
  BY <1>3, <1>4, <1>6
<1>8. \A i \in DOMAIN w : i = 1 => w[i] = y
  BY <1>1, <1>3, <1>4, <1>6
<1> QED
  BY <1>3, <1>5, <1>6, <1>7, <1>8 DEF Pushed

\* A sequence q, then w and one more element b.
Joined(S, q, w, b, t, m, k, l) ==
  /\ m = Len(q) /\ k = Len(w) /\ l = Len(t) /\ l = m + k + 1
  /\ t \in Seq(S) /\ Range(t) = Range(q) \cup Range(w) \cup {b}
  /\ DOMAIN q = 1 .. m /\ DOMAIN w = 1 .. k /\ DOMAIN t = 1 .. l
  /\ \A i \in 1 .. m : t[i] = q[i]
  /\ \A i \in 1 .. l : i > m /\ i # l => i - m \in 1 .. k /\ t[i] = w[i - m]
  /\ t[l] = b

LEMMA JoinedPlaces ==
  ASSUME NEW S, NEW q \in Seq(S), NEW w \in Seq(S), NEW b \in S,
         NEW t, t = q \o Append(w, b)
  PROVE  \E m \in Nat, k \in Nat, l \in Nat : Joined(S, q, w, b, t, m, k, l)
<1>1. PICK u : u = Append(w, b)
  OBVIOUS
<1>2. u \in Seq(S) /\ Len(u) = Len(w) + 1 /\ Range(u) = Range(w) \cup {b}
  BY <1>1, Appended
<1>3. /\ \A i \in 1 .. Len(w) : u[i] = w[i]
      /\ u[Len(w) + 1] = b
  BY <1>1, AppendPlaces
<1>0. t = q \o u
  BY <1>1
<1>4. t \in Seq(S) /\ Len(t) = Len(q) + Len(u)
  BY <1>0, <1>2, ConcatProperties
<1>5. \A i \in 1 .. Len(t) : t[i] = IF i <= Len(q) THEN q[i] ELSE u[i - Len(q)]
  BY <1>0, <1>2, ConcatProperties
<1>6. Range(t) = Range(q) \cup Range(u)
  BY <1>0, <1>2, RangeConcatenation
<1>7. /\ Len(q) \in Nat /\ Len(w) \in Nat /\ Len(t) \in Nat
      /\ DOMAIN q = 1 .. Len(q) /\ DOMAIN w = 1 .. Len(w) /\ DOMAIN t = 1 .. Len(t)
  BY <1>4
<1>8. PICK m \in Nat, k \in Nat, l \in Nat : m = Len(q) /\ k = Len(w) /\ l = Len(t)
  BY <1>7
<1>9. l = m + k + 1
  BY <1>2, <1>4, <1>8
<1>10. \A i \in 1 .. l : t[i] = IF i <= m THEN q[i] ELSE u[i - m]
  BY <1>5, <1>8
<1>11. /\ \A i \in 1 .. m : i \in 1 .. l /\ i <= m
       /\ \A i \in 1 .. l : i > m /\ i # l => i - m \in 1 .. k /\ ~(i <= m)
       /\ l \in 1 .. l /\ ~(l <= m) /\ l - m = k + 1
  BY <1>9
<1>12. /\ \A i \in 1 .. m : t[i] = q[i]
       /\ \A i \in 1 .. l : i > m /\ i # l => t[i] = u[i - m]
       /\ t[l] = u[k + 1]
  BY <1>10, <1>11
<1>13. \A i \in 1 .. k : u[i] = w[i]
  BY <1>3, <1>8
<1>14. \A i \in 1 .. l : i > m /\ i # l => i - m \in 1 .. k /\ t[i] = w[i - m]
  BY <1>11, <1>12, <1>13
<1>15. t[l] = b
  BY <1>3, <1>8, <1>12
<1>16. Joined(S, q, w, b, t, m, k, l)
  BY <1>2, <1>4, <1>6, <1>7, <1>8, <1>9, <1>12, <1>14, <1>15 DEF Joined
<1> QED
  BY <1>16
-----------------------------------------------------------------------------
(* Sums over the members of a finite set, in whatever order they are taken.  *)

\* Of some subsets of a finite set one contains no other.
LEMMA SmallestSet ==
  ASSUME NEW N, IsFiniteSet(N), NEW B, B \subseteq SUBSET N, B # {}
  PROVE  \E S \in B : \A T \in B : T \subseteq S => T = S
<1> DEFINE sizes == {Cardinality(S) : S \in B}
<1>1. \A S \in B : IsFiniteSet(S) /\ Cardinality(S) \in Nat
  <2> TAKE S \in B
  <2>1. S \in SUBSET N
    OBVIOUS
  <2> QED
    BY <2>1, FS_Subset, FS_CardinalityType
<1>2. PICK k \in sizes : \A j \in sizes : k <= j
  <2>1. sizes \subseteq Nat /\ sizes # {}
    BY <1>1
  <2> HIDE DEF sizes
  <2> QED
    BY <2>1, LeastElement
<1>3. PICK S \in B : Cardinality(S) = k
  OBVIOUS
<1>4. ASSUME NEW T \in B, T \subseteq S
      PROVE  T = S
  <2>1. T \in SUBSET S /\ Cardinality(S) <= Cardinality(T)
    BY <1>2, <1>3, <1>4
  <2>2. Cardinality(T) <= Cardinality(S) /\ Cardinality(S) \in Nat /\ Cardinality(T) \in Nat
    BY <1>1, <2>1, FS_Subset
  <2> QED
    BY <1>1, <2>1, <2>2, FS_Subset
<1> QED
  BY <1>3, <1>4

Chosen(s) == CHOOSE x \in s : TRUE

\* The function that the fold behind SumFunctionOnSet recurs on.
IsSum(f, S, w) ==
  w = [s \in SUBSET S |-> IF s = {} THEN 0 ELSE f[Chosen(s)] + w[s \ {Chosen(s)}]]

LEMMA SumUnique ==
  ASSUME NEW S, IsFiniteSet(S), NEW f, NEW w, NEW R, NEW v, NEW T, IsSum(f, R, w), IsSum(f, T, v), S \subseteq R, S \subseteq T
  PROVE  w[S] = v[S]
<1> DEFINE bad == {s \in SUBSET S : w[s] # v[s]}
<1> SUFFICES ASSUME bad # {} PROVE FALSE
  OBVIOUS
<1>1. PICK s \in bad : \A t \in bad : t \subseteq s => t = s
  <2>1. bad \subseteq SUBSET S
    OBVIOUS
  <2> HIDE DEF bad
  <2> QED
    BY <2>1, SmallestSet
<1>2. s \in SUBSET R /\ s \in SUBSET T
  OBVIOUS
<1>3. CASE s = {}
  BY <1>1, <1>2, <1>3 DEF IsSum
<1>4. CASE s # {}
  <2>1. Chosen(s) \in s
    BY <1>4 DEF Chosen
  <2> DEFINE t == s \ {Chosen(s)}
  <2>2. t \in SUBSET S /\ t \notin bad
    BY <1>1, <2>1
  <2>3. w[t] = v[t]
    BY <2>2
  <2> QED
    BY <1>1, <1>2, <1>4, <2>3 DEF IsSum
<1> QED
  BY <1>3, <1>4

LEMMA SumDefined ==
  ASSUME NEW S, IsFiniteSet(S), NEW f
  PROVE  \E w : IsSum(f, S, w)
<1> DEFINE Low(k) == {s \in SUBSET S : Cardinality(s) <= k}
           Upto(k, w) == w = [s \in Low(k) |-> IF s = {} THEN 0 ELSE f[Chosen(s)] + w[s \ {Chosen(s)}]]
           bad == {k \in Nat : ~\E w : Upto(k, w)}
<1>1. \A s \in SUBSET S : IsFiniteSet(s) /\ Cardinality(s) \in Nat
  BY FS_Subset, FS_CardinalityType
<1>2. bad = {}
  <2> SUFFICES ASSUME bad # {} PROVE FALSE
    OBVIOUS
  <2>1. PICK k \in bad : \A j \in bad : k <= j
    <3>1. bad \subseteq Nat
      OBVIOUS
    <3> HIDE DEF bad
    <3> QED
      BY <3>1, LeastElement
  <2>2. CASE k = 0
    <3> DEFINE w == [s \in Low(0) |-> 0]
    <3>1. \A s \in Low(0) : s = {}
      BY <1>1, FS_EmptySet
    <3>2. Upto(0, w)
      BY <3>1
    <3> QED
      BY <2>1, <2>2, <3>2
  <2>3. CASE k # 0
    <3>1. k \in Nat /\ k - 1 \in Nat /\ ~(k <= k - 1)
      BY <2>1, <2>3
    <3>2. PICK v : Upto(k - 1, v)
      BY <2>1, <3>1
    <3> DEFINE u == [s \in Low(k) |-> IF s = {} THEN 0 ELSE f[Chosen(s)] + v[s \ {Chosen(s)}]]
    <3>3. ASSUME NEW s \in Low(k), s # {}
          PROVE  v[s \ {Chosen(s)}] = u[s \ {Chosen(s)}]
      <4> DEFINE t == s \ {Chosen(s)}
      <4>1. Chosen(s) \in s
        BY <3>3 DEF Chosen
      <4>2. Cardinality(t) = Cardinality(s) - 1 /\ Cardinality(s) \in Nat /\ Cardinality(s) <= k
        BY <1>1, <4>1, FS_RemoveElement
      <4>3. t \in SUBSET S
        OBVIOUS
      <4>4. t \in Low(k - 1) /\ t \in Low(k)
        BY <3>1, <4>2, <4>3
      <4> HIDE DEF t
      <4>5. v[t] = IF t = {} THEN 0 ELSE f[Chosen(t)] + v[t \ {Chosen(t)}]
        BY <3>2, <4>4
      <4>6. u[t] = IF t = {} THEN 0 ELSE f[Chosen(t)] + v[t \ {Chosen(t)}]
        BY <4>4
      <4> QED
        BY <4>5, <4>6 DEF t
    <3>4. Upto(k, u)
      BY <3>3
    <3> QED
      BY <2>1, <3>4
  <2> QED
    BY <2>2, <2>3
<1>3. Cardinality(S) \in Nat
  BY FS_CardinalityType
<1>4. PICK w : Upto(Cardinality(S), w)
  BY <1>2, <1>3
<1>5. Low(Cardinality(S)) = SUBSET S
  BY FS_Subset
<1> QED
  BY <1>4, <1>5 DEF IsSum

LEMMA SumIsFold ==
  ASSUME NEW S, IsFiniteSet(S), NEW f
  PROVE  \E w : IsSum(f, S, w) /\ SumFunctionOnSet(f, S) = w[S]
<1> DEFINE w == CHOOSE w : IsSum(f, S, w)
<1>1. IsSum(f, S, w)
  BY SumDefined
<1>2. SumFunctionOnSet(f, S) = w[S]
  BY DEF SumFunctionOnSet, FoldFunctionOnSet, MapThenFoldSet, IsSum, Chosen
<1> QED
  BY <1>1, <1>2

\* The sums over the subsets of a finite set.
SumsOver(f, N) == [S \in SUBSET N |-> SumFunctionOnSet(f, S)]

\* One member at a time: the one that the fold takes first.
LEMMA SumTakesOne ==
  ASSUME NEW N, IsFiniteSet(N), NEW f
  PROVE  \A S \in SUBSET N :
           SumsOver(f, N)[S] = IF S = {} THEN 0
                               ELSE f[Chosen(S)] + SumsOver(f, N)[S \ {Chosen(S)}]
<1> SUFFICES ASSUME NEW S \in SUBSET N
             PROVE  SumsOver(f, N)[S] = IF S = {} THEN 0
                                        ELSE f[Chosen(S)] + SumsOver(f, N)[S \ {Chosen(S)}]
  OBVIOUS
<1> DEFINE T == S \ {Chosen(S)}
<1>1. T \in SUBSET N /\ T \subseteq S /\ T \subseteq T /\ IsFiniteSet(S) /\ IsFiniteSet(T)
  BY FS_Subset
<1>2. PICK w : IsSum(f, S, w) /\ SumFunctionOnSet(f, S) = w[S]
  BY <1>1, SumIsFold
<1>3. PICK v : IsSum(f, T, v) /\ SumFunctionOnSet(f, T) = v[T]
  BY <1>1, SumIsFold
<1>4. v[T] = w[T]
  BY <1>1, <1>2, <1>3, SumUnique
<1>5. w[S] = IF S = {} THEN 0 ELSE f[Chosen(S)] + w[T]
  BY <1>2 DEF IsSum
<1>6. SumsOver(f, N)[S] = w[S] /\ SumsOver(f, N)[T] = v[T]
  BY <1>1, <1>2, <1>3 DEF SumsOver
<1> QED
  BY <1>4, <1>5, <1>6

LEMMA SumIsNat ==
  ASSUME NEW N, IsFiniteSet(N), NEW f \in [N -> Nat]
  PROVE  \A S \in SUBSET N : SumsOver(f, N)[S] \in Nat
<1> DEFINE bad == {S \in SUBSET N : SumsOver(f, N)[S] \notin Nat}
<1> SUFFICES ASSUME bad # {} PROVE FALSE
  OBVIOUS
<1>1. PICK S \in bad : \A T \in bad : T \subseteq S => T = S
  <2>1. bad \subseteq SUBSET N
    OBVIOUS
  <2> HIDE DEF bad
  <2> QED
    BY <2>1, SmallestSet
<1>2. PICK sum : sum = SumsOver(f, N)
  OBVIOUS
<1>3. /\ S \in SUBSET N /\ sum[S] \notin Nat
      /\ sum[S] = IF S = {} THEN 0 ELSE f[Chosen(S)] + sum[S \ {Chosen(S)}]
  BY <1>2, SumTakesOne
<1>4. S # {}
  BY <1>3
<1>5. Chosen(S) \in S
  BY <1>4 DEF Chosen
<1>6. S \ {Chosen(S)} \in SUBSET N /\ S \ {Chosen(S)} \notin bad
  BY <1>1, <1>3, <1>5
<1>7. sum[S \ {Chosen(S)}] \in Nat /\ f[Chosen(S)] \in Nat
  BY <1>2, <1>3, <1>5, <1>6
<1> QED
  BY <1>3, <1>4, <1>7

\* In whatever order: any member can be taken first.
LEMMA SumTakesAny ==
  ASSUME NEW N, IsFiniteSet(N), NEW f \in [N -> Nat]
  PROVE  \A S \in SUBSET N : \A x \in S :
           SumsOver(f, N)[S] = f[x] + SumsOver(f, N)[S \ {x}]
<1> DEFINE sum == SumsOver(f, N)
           bad == {S \in SUBSET N : \E x \in S : sum[S] # f[x] + sum[S \ {x}]}
<1> SUFFICES ASSUME bad # {} PROVE FALSE
  OBVIOUS
<1>1. PICK S \in bad : \A T \in bad : T \subseteq S => T = S
  <2>1. bad \subseteq SUBSET N
    OBVIOUS
  <2> HIDE DEF bad
  <2> QED
    BY <2>1, SmallestSet
<1>2. PICK x \in S : sum[S] # f[x] + sum[S \ {x}]
  OBVIOUS
<1>3. PICK y : y = Chosen(S)
  OBVIOUS
<1>4. y \in S /\ sum[S] = f[y] + sum[S \ {y}]
  <2>1. sum[S] = IF S = {} THEN 0 ELSE f[Chosen(S)] + sum[S \ {Chosen(S)}]
    BY SumTakesOne
  <2>2. S # {} /\ y \in S
    BY <1>2, <1>3 DEF Chosen
  <2> HIDE DEF sum
  <2> QED
    BY <1>3, <2>1, <2>2
<1>5. x # y
  BY <1>2, <1>4
<1>6. PICK A, B, C : A = S \ {x} /\ B = S \ {y} /\ C = S \ {x, y}
  OBVIOUS
<1>7. /\ A \in SUBSET N /\ A \notin bad /\ y \in A /\ A \ {y} = C
      /\ B \in SUBSET N /\ B \notin bad /\ x \in B /\ B \ {x} = C
      /\ C \in SUBSET N
  BY <1>1, <1>4, <1>5, <1>6
<1>8. sum[A] = f[y] + sum[C] /\ sum[B] = f[x] + sum[C]
  BY <1>7
<1>9. sum[A] \in Nat /\ sum[B] \in Nat /\ sum[C] \in Nat /\ f[x] \in Nat /\ f[y] \in Nat
  BY <1>4, <1>7, SumIsNat
<1>10. sum[S] # f[x] + sum[A] /\ sum[S] = f[y] + sum[B]
  BY <1>2, <1>4, <1>6
<1> HIDE DEF sum
<1> QED
  BY <1>8, <1>9, <1>10

\* A union and an intersection have together what the two sets have.
LEMMA SumOfUnion ==
  ASSUME NEW N, IsFiniteSet(N), NEW f \in [N -> Nat]
  PROVE  \A S, T \in SUBSET N :
           SumsOver(f, N)[S \cup T] + SumsOver(f, N)[S \cap T]
             = SumsOver(f, N)[S] + SumsOver(f, N)[T]
<1> DEFINE sum == SumsOver(f, N)
<1> SUFFICES ASSUME NEW S \in SUBSET N
             PROVE  \A T \in SUBSET N : sum[S \cup T] + sum[S \cap T] = sum[S] + sum[T]
  OBVIOUS
<1> DEFINE bad == {T \in SUBSET N : sum[S \cup T] + sum[S \cap T] # sum[S] + sum[T]}
<1> SUFFICES ASSUME bad # {} PROVE FALSE
  OBVIOUS
<1>1. PICK T \in bad : \A U \in bad : U \subseteq T => U = T
  <2>1. bad \subseteq SUBSET N
    OBVIOUS
  <2> HIDE DEF bad
  <2> QED
    BY <2>1, SmallestSet
<1>2. \A U \in SUBSET N : sum[U] \in Nat
  BY SumIsNat
<1>3. \A U \in SUBSET N : \A x \in U : sum[U] = f[x] + sum[U \ {x}]
  BY SumTakesAny
<1>4. T # {}
  <2>1. SUFFICES ASSUME T = {} PROVE FALSE
    OBVIOUS
  <2>2. S \cup T = S /\ S \cap T = T
    BY <2>1
  <2> HIDE DEF sum
  <2> QED
    BY <1>1, <1>2, <2>2
<1>5. PICK x \in T : TRUE
  BY <1>4
<1>6. PICK R, U, V, P, Q : /\ R = T \ {x} /\ U = S \cup R /\ V = S \cap R
                           /\ P = S \cup T /\ Q = S \cap T
  OBVIOUS
<1>7. R \in SUBSET N /\ R \notin bad /\ U \in SUBSET N /\ V \in SUBSET N
  BY <1>1, <1>5, <1>6
<1>8. sum[U] + sum[V] = sum[S] + sum[R]
  BY <1>6, <1>7
<1>9. sum[T] = f[x] + sum[R] /\ f[x] \in Nat
  BY <1>3, <1>5, <1>6
<1>10. /\ sum[S] \in Nat /\ sum[T] \in Nat /\ sum[R] \in Nat
       /\ sum[U] \in Nat /\ sum[V] \in Nat
  BY <1>2, <1>7
<1>11. CASE x \in S
  <2>1. P = U /\ Q \in SUBSET N /\ x \in Q /\ Q \ {x} = V
    BY <1>5, <1>6, <1>11
  <2>2. sum[Q] = f[x] + sum[V]
    BY <1>3, <2>1
  <2>3. sum[P] + sum[Q] = sum[S] + sum[T]
    <3> HIDE DEF sum
    <3> QED
      BY <1>8, <1>9, <1>10, <2>1, <2>2
  <2> QED
    BY <1>1, <1>6, <2>3
<1>12. CASE x \notin S
  <2>1. Q = V /\ P \in SUBSET N /\ x \in P /\ P \ {x} = U
    BY <1>5, <1>6, <1>12
  <2>2. sum[P] = f[x] + sum[U]
    BY <1>3, <2>1
  <2>3. sum[P] + sum[Q] = sum[S] + sum[T]
    <3> HIDE DEF sum
    <3> QED
      BY <1>8, <1>9, <1>10, <2>1, <2>2
  <2> QED
    BY <1>1, <1>6, <2>3
<1> QED
  BY <1>11, <1>12

\* What the proofs use of a sum over a set.
LEMMA SumLaws ==
  ASSUME NEW N, IsFiniteSet(N), NEW f \in [N -> Nat]
  PROVE  /\ SumsOver(f, N)[{}] = 0
         /\ \A S \in SUBSET N : SumsOver(f, N)[S] \in Nat
         /\ \A n \in N : SumsOver(f, N)[{n}] = f[n]
         /\ \A S, T \in SUBSET N :
              SumsOver(f, N)[S \cup T] + SumsOver(f, N)[S \cap T]
                = SumsOver(f, N)[S] + SumsOver(f, N)[T]
         /\ \A S, T \in SUBSET N :
              S \subseteq T => SumsOver(f, N)[S] <= SumsOver(f, N)[T]
<1> DEFINE sum == SumsOver(f, N)
<1>1. sum[{}] = 0
  BY SumTakesOne
<1>2. \A S \in SUBSET N : sum[S] \in Nat
  BY SumIsNat
<1>3. ASSUME NEW n \in N
      PROVE  sum[{n}] = f[n]
  <2>1. {n} \in SUBSET N /\ n \in {n} /\ {n} \ {n} = {}
    OBVIOUS
  <2>2. sum[{n}] = f[n] + sum[{n} \ {n}]
    BY <2>1, SumTakesAny
  <2>3. f[n] \in Nat
    OBVIOUS
  <2> HIDE DEF sum
  <2> QED
    BY <1>1, <2>1, <2>2, <2>3
<1>4. \A S, T \in SUBSET N : sum[S \cup T] + sum[S \cap T] = sum[S] + sum[T]
  BY SumOfUnion
<1>5. ASSUME NEW S \in SUBSET N, NEW T \in SUBSET N, S \subseteq T
      PROVE  sum[S] <= sum[T]
  <2>1. PICK R : R = T \ S
    OBVIOUS
  <2>2. R \in SUBSET N /\ S \cup R = T /\ S \cap R = {}
    BY <1>5, <2>1
  <2>3. sum[T] + sum[{}] = sum[S] + sum[R]
    BY <1>4, <2>2
  <2>4. sum[S] \in Nat /\ sum[T] \in Nat /\ sum[R] \in Nat
    BY <1>2, <2>2
  <2> HIDE DEF sum
  <2> QED
    BY <1>1, <2>3, <2>4
<1> QED
  BY <1>1, <1>2, <1>3, <1>4, <1>5
=============================================================================
