---------------------------- MODULE NetworkProofs ----------------------------
(***************************************************************************)
(* Proofs about the senders, for any number of messages and of streams, and  *)
(* any capacity of the channels.                                             *)
(***************************************************************************)
EXTENDS MCNetwork, BasicLemmas

(* The reliable sender.                                                      *)

\* u holds elements of s once and in the order of s.
InOrder(u, s) ==
  \A i, j \in DOMAIN u, p, q \in DOMAIN s :
    i < j /\ u[i] = s[p] /\ u[j] = s[q] => p < q

\* What is on a stream was passed to Send.
StreamsSent == \A i \in DOMAIN streams : Range(streams[i].data) \subseteq Range(sent)

ReceivedSent == received \subseteq Range(sent)

\* The loop of keepAlive starts with a stream and with nothing pending.
PendingOnStream ==
  /\ phase = "connected" => streams # <<>>
  /\ phase # "connected" => pendingReplies = <<>>

\* AcksMatchPending, element by element.
StreamMatches ==
  phase = "connected" =>
    LET s == streams[Len(streams)]
        n == Len(pendingReplies)
    IN  /\ s.acks <= n
        /\ \A i \in 1 .. s.acks : pendingReplies[i] \in received
        /\ ~s.broken => /\ Len(s.data) + s.acks = n
                        /\ \A i \in 1 .. Len(s.data) : s.data[i] = pendingReplies[s.acks + i]

SenderInv ==
  /\ TypeOK
  /\ StreamsSent
  /\ ReceivedSent
  /\ PendingOnStream
  /\ StreamMatches
  /\ KeptInOrder
-----------------------------------------------------------------------------
(* Sequences in the order of another.                                        *)

LEMMA AppendedInOrder ==
  ASSUME NEW S, NEW u \in Seq(S), NEW s \in Seq(S), NEW m \in S,
         m \notin Range(s), Range(u) \subseteq Range(s), InOrder(u, s)
  PROVE  InOrder(Append(u, m), Append(s, m))
<1> DEFINE v == Append(u, m)
           t == Append(s, m)
<1> SUFFICES ASSUME NEW i \in DOMAIN v, NEW j \in DOMAIN v,
                    NEW p \in DOMAIN t, NEW q \in DOMAIN t,
                    i < j, v[i] = t[p], v[j] = t[q]
             PROVE  p < q
  BY DEF InOrder
<1>1. /\ DOMAIN u = 1 .. Len(u) /\ Len(u) \in Nat
      /\ DOMAIN v = 1 .. (Len(u) + 1)
      /\ \A x \in 1 .. Len(u) : v[x] = u[x]
      /\ v[Len(u) + 1] = m
  BY AppendPlaces
<1>2. /\ DOMAIN s = 1 .. Len(s) /\ Len(s) \in Nat
      /\ DOMAIN t = 1 .. (Len(s) + 1)
      /\ \A x \in 1 .. Len(s) : t[x] = s[x]
      /\ t[Len(s) + 1] = m
  BY AppendPlaces
<1> HIDE DEF v, t
<1>3. i \in DOMAIN u /\ v[i] = u[i]
  BY <1>1
<1>4. \A x \in DOMAIN s : s[x] # m
  BY DEF Range
<1>5. \A x \in DOMAIN u : u[x] # m
  BY DEF Range
<1>6. ASSUME NEW r \in DOMAIN t, t[r] # m
      PROVE  r \in DOMAIN s /\ t[r] = s[r]
  <2>1. r # Len(s) + 1
    BY <1>2, <1>6
  <2>2. r \in 1 .. Len(s)
    BY <1>2, <2>1
  <2> QED
    BY <1>2, <2>2
<1>7. p \in DOMAIN s /\ t[p] = s[p]
  <2>1. t[p] # m
    BY <1>3, <1>5
  <2> QED
    BY <1>6, <2>1
<1>8. CASE j = Len(u) + 1
  <2>1. q \notin DOMAIN s
    BY <1>1, <1>2, <1>4, <1>8
  <2> QED
    BY <1>2, <1>7, <2>1
<1>9. CASE j \in DOMAIN u
  <2>1. v[j] = u[j] /\ u[j] # m
    BY <1>1, <1>5, <1>9
  <2>2. q \in DOMAIN s /\ t[q] = s[q]
    BY <1>6, <2>1
  <2> QED
    BY <1>3, <1>7, <1>9, <2>1, <2>2 DEF InOrder
<1> QED
  BY <1>1, <1>8, <1>9

\* One element is taken out.
LEMMA TakenInOrder ==
  ASSUME NEW S, NEW u \in Seq(S), NEW v \in Seq(S), NEW m \in S, NEW s \in Seq(S),
         InOrder(u \o <<m>> \o v, s)
  PROVE  InOrder(u \o v, s)
<1> DEFINE w == u \o <<m>> \o v
           z == u \o v
           f(i) == IF i <= Len(u) THEN i ELSE i + 1
<1>1. <<m>> \in Seq(S) /\ Len(<<m>>) = 1
  OBVIOUS
<1>2. /\ u \o <<m>> \in Seq(S) /\ Len(u \o <<m>>) = Len(u) + 1
      /\ \A i \in 1 .. Len(u) : (u \o <<m>>)[i] = u[i]
  BY <1>1, ConcatProperties
<1>3. /\ Len(w) = Len(u) + 1 + Len(v) /\ w \in Seq(S)
      /\ \A i \in 1 .. (Len(u) + 1 + Len(v)) :
           w[i] = IF i <= Len(u) + 1 THEN (u \o <<m>>)[i] ELSE v[i - (Len(u) + 1)]
  BY <1>2, ConcatProperties
<1>4. /\ Len(z) = Len(u) + Len(v) /\ z \in Seq(S)
      /\ \A i \in 1 .. (Len(u) + Len(v)) : z[i] = IF i <= Len(u) THEN u[i] ELSE v[i - Len(u)]
  BY ConcatProperties
<1>5. DOMAIN w = 1 .. (Len(u) + 1 + Len(v)) /\ DOMAIN z = 1 .. (Len(u) + Len(v))
      /\ Len(u) \in Nat /\ Len(v) \in Nat
  BY <1>3, <1>4
<1> HIDE DEF w, z
<1>6. ASSUME NEW i \in DOMAIN z
      PROVE  f(i) \in DOMAIN w /\ z[i] = w[f(i)]
  <2>1. CASE i <= Len(u)
    BY <1>2, <1>3, <1>4, <1>5, <2>1
  <2>2. CASE i > Len(u)
    <3>1. f(i) = i + 1 /\ i + 1 \in DOMAIN w /\ ~ (i + 1 <= Len(u) + 1)
      BY <1>5, <2>2
    <3>2. w[i + 1] = v[(i + 1) - (Len(u) + 1)]
      BY <1>3, <1>5, <3>1
    <3>3. (i + 1) - (Len(u) + 1) = i - Len(u)
      BY <1>5
    <3>4. z[i] = v[i - Len(u)]
      BY <1>4, <1>5, <2>2
    <3> QED
      BY <3>1, <3>2, <3>3, <3>4
  <2> QED
    BY <1>5, <2>1, <2>2
<1>7. \A i, j \in DOMAIN z : i < j => f(i) < f(j)
  BY <1>5
<1> SUFFICES ASSUME NEW i \in DOMAIN z, NEW j \in DOMAIN z,
                    NEW p \in DOMAIN s, NEW q \in DOMAIN s,
                    i < j, z[i] = s[p], z[j] = s[q]
             PROVE  p < q
  BY DEF InOrder, z
<1>8. InOrder(w, s)
  BY DEF w
<1>9. f(i) < f(j) /\ f(i) \in DOMAIN w /\ f(j) \in DOMAIN w /\ w[f(i)] = s[p] /\ w[f(j)] = s[q]
  BY <1>6, <1>7
<1> HIDE DEF f
<1> QED
  BY <1>8, <1>9 DEF InOrder

\* It was there once.
LEMMA TakenOnce ==
  ASSUME NEW S, NEW v \in Seq(S), NEW m \in S, NEW s \in Seq(S),
         InOrder(<<m>> \o v, s), m \in Range(s)
  PROVE  m \notin Range(v)
<1> SUFFICES ASSUME m \in Range(v)
             PROVE  FALSE
  OBVIOUS
<1>1. <<m>> \in Seq(S) /\ Len(<<m>>) = 1 /\ <<m>>[1] = m
  OBVIOUS
<1>2. /\ <<m>> \o v \in Seq(S) /\ Len(<<m>> \o v) = 1 + Len(v)
      /\ \A i \in 1 .. (1 + Len(v)) : (<<m>> \o v)[i] = IF i <= 1 THEN <<m>>[i] ELSE v[i - 1]
  BY <1>1, ConcatProperties
<1>3. PICK p \in DOMAIN s : s[p] = m
  BY DEF Range
<1>4. PICK k \in DOMAIN v : v[k] = m
  BY DEF Range
<1>5. DOMAIN v = 1 .. Len(v) /\ Len(v) \in Nat /\ DOMAIN s = 1 .. Len(s)
  OBVIOUS
<1>6. 1 \in 1 .. (1 + Len(v)) /\ k + 1 \in 1 .. (1 + Len(v)) /\ ~ (k + 1 <= 1) /\ (k + 1) - 1 = k /\ 1 < k + 1
  BY <1>4, <1>5
<1>7. (<<m>> \o v)[1] = m /\ (<<m>> \o v)[k + 1] = m
  BY <1>1, <1>2, <1>4, <1>6
<1>8. DOMAIN (<<m>> \o v) = 1 .. (1 + Len(v))
  BY <1>2
<1>9. p < p
  BY <1>3, <1>6, <1>7, <1>8 DEF InOrder
<1> QED
  BY <1>5, <1>9
-----------------------------------------------------------------------------
LEMMA KeptParts ==
  ASSUME TypeOK
  PROVE  /\ Kept \in Seq(Msg) /\ pendingReplies \o buffer \in Seq(Msg)
         /\ Range(Kept) = Range(pendingReplies) \cup Range(buffer) \cup Range(offered)
<1>1. pendingReplies \in Seq(Msg) /\ buffer \in Seq(Msg) /\ offered \in Seq(Msg)
  BY DEF TypeOK
<1> QED
  BY <1>1, RangeOfThree DEF Kept

\* The order only depends on what is kept.
LEMMA OrderKept ==
  ASSUME SenderInv, Kept' = Kept, sent' = sent, answered' = answered,
         cancelled \subseteq cancelled', cancelled' \subseteq cancelled \cup Range(sent)
  PROVE  KeptInOrder'
BY DEF SenderInv, KeptInOrder

LEMMA StreamTypes ==
  ASSUME TypeOK, NEW i \in DOMAIN streams
  PROVE  /\ streams[i] \in Stream /\ streams[i].data \in Seq(Msg)
         /\ streams[i].acks \in Nat /\ streams[i].broken \in BOOLEAN
         /\ DOMAIN streams = 1 .. Len(streams) /\ Len(streams) \in Nat
<1>1. streams[i] \in Stream
  BY ElementOfSeq DEF TypeOK
<1> QED
  BY <1>1 DEF Stream, TypeOK

LEMMA SenderStarts == Init => SenderInv
<1> SUFFICES ASSUME Init
             PROVE  SenderInv
  OBVIOUS
<1>1. TypeOK
  BY DEF Init, TypeOK
<1>2. StreamsSent /\ ReceivedSent /\ PendingOnStream /\ StreamMatches
  BY DEF Init, StreamsSent, ReceivedSent, PendingOnStream, StreamMatches
<1>3. /\ Range(sent) = {} /\ Range(pendingReplies) = {} /\ Range(buffer) = {}
      /\ Range(offered) = {} /\ DOMAIN sent = {}
  BY RangeOfNone DEF Init
<1>4. KeptInOrder
  <2>1. Range(Kept) = {}
    BY <1>1, <1>3, KeptParts
  <2> QED
    BY <1>3, <2>1 DEF KeptInOrder, Init
<1> QED
  BY <1>1, <1>2, <1>4 DEF SenderInv

LEMMA SendKeeps ==
  ASSUME SenderInv, NEW m \in Msg, Send(m)
  PROVE  SenderInv'
<1>1. /\ offered = <<>> /\ m \notin Range(sent)
      /\ sent' = Append(sent, m) /\ offered' = <<m>>
      /\ phase' = (IF phase = "none" THEN "dialing" ELSE phase)
      /\ cancelled' = cancelled /\ buffer' = buffer /\ pendingReplies' = pendingReplies
      /\ streams' = streams /\ received' = received /\ answered' = answered
  BY DEF Send
<1>2. TypeOK
  BY DEF SenderInv
<1>3. sent' \in Seq(Msg) /\ Range(sent') = Range(sent) \cup {m}
  BY <1>1, <1>2, Appended DEF TypeOK
<1>4. TypeOK'
  <2>1. \A r : r = <<m>> => r \in Seq(Msg) /\ Len(r) = 1
    OBVIOUS
  <2>2. \A n : n = 1 => n <= 1
    OBVIOUS
  <2>3. offered' \in Seq(Msg) /\ Len(offered') <= 1
    BY <1>1, <2>1, <2>2
  <2> QED
    BY <1>1, <1>2, <1>3, <2>3 DEF TypeOK
<1>5. StreamsSent' /\ ReceivedSent' /\ PendingOnStream' /\ StreamMatches'
  BY <1>1, <1>3 DEF SenderInv, StreamsSent, ReceivedSent, PendingOnStream, StreamMatches
<1>6. KeptInOrder'
  <2>1. /\ Kept \in Seq(Msg) /\ pendingReplies \o buffer \in Seq(Msg)
        /\ Range(Kept) \subseteq Range(sent) /\ sent \in Seq(Msg)
        /\ Range(Kept) \cap answered = {} /\ InOrder(Kept, sent)
    BY <1>2, KeptParts DEF SenderInv, KeptInOrder, TypeOK, InOrder
  <2>2. Kept = pendingReplies \o buffer
    BY <1>1, <2>1, ConcatEmptySeq DEF Kept
  <2>3. Kept' = Append(Kept, m)
    BY <1>1, <2>1, <2>2, AppendIsConcat DEF Kept
  <2>4. InOrder(Kept', sent')
    BY <1>1, <2>1, <2>3, AppendedInOrder
  <2>5. Range(Kept') = Range(Kept) \cup {m}
    BY <2>1, <2>3, Appended
  <2> QED
    BY <1>1, <1>3, <2>1, <2>4, <2>5 DEF SenderInv, KeptInOrder, InOrder
<1> QED
  BY <1>4, <1>5, <1>6 DEF SenderInv

\* The steps that leave the messages where they are.
LEMMA CancelKeeps ==
  ASSUME SenderInv, NEW m \in Msg, Cancel(m)
  PROVE  SenderInv'
<1>1. /\ m \in Range(sent) /\ cancelled' = cancelled \cup {m}
      /\ sent' = sent /\ offered' = offered /\ phase' = phase /\ buffer' = buffer
      /\ pendingReplies' = pendingReplies
      /\ streams' = streams /\ received' = received /\ answered' = answered
  BY DEF Cancel
<1>2. TypeOK'
  BY <1>1 DEF SenderInv, TypeOK
<1>3. StreamsSent' /\ ReceivedSent' /\ PendingOnStream' /\ StreamMatches'
  BY <1>1 DEF SenderInv, StreamsSent, ReceivedSent, PendingOnStream, StreamMatches
<1>4. Kept' = Kept
  BY <1>1 DEF Kept
<1>5. KeptInOrder'
  BY <1>1, <1>4, OrderKept
<1> QED
  BY <1>2, <1>3, <1>5 DEF SenderInv

LEMMA ConnectKeeps ==
  ASSUME SenderInv, Connect
  PROVE  SenderInv'
<1> DEFINE new == [data |-> <<>>, acks |-> 0, broken |-> FALSE]
<1>1. /\ phase = "dialing" /\ phase' = "connected" /\ streams' = Append(streams, new)
      /\ sent' = sent /\ offered' = offered /\ cancelled' = cancelled /\ buffer' = buffer
      /\ pendingReplies' = pendingReplies /\ received' = received /\ answered' = answered
  BY DEF Connect
<1>2. new \in Stream /\ new.data = <<>> /\ new.acks = 0 /\ new.broken = FALSE
  BY DEF Stream
<1> HIDE DEF new
<1>3. TypeOK /\ streams \in Seq(Stream) /\ pendingReplies = <<>>
  BY <1>1 DEF SenderInv, TypeOK, PendingOnStream
<1>4. /\ streams' \in Seq(Stream) /\ Len(streams') = Len(streams) + 1
      /\ DOMAIN streams = 1 .. Len(streams) /\ Len(streams) \in Nat
      /\ DOMAIN streams' = 1 .. (Len(streams) + 1)
      /\ \A i \in 1 .. Len(streams) : streams'[i] = streams[i]
      /\ streams'[Len(streams) + 1] = new
  BY <1>1, <1>2, <1>3, Appended, AppendPlaces
<1>5. TypeOK'
  BY <1>1, <1>3, <1>4 DEF TypeOK
<1>6. StreamsSent'
  <2>1. ASSUME NEW i \in DOMAIN streams'
        PROVE  Range(streams'[i].data) \subseteq Range(sent)
    <3>1. CASE i \in DOMAIN streams
      BY <1>4, <3>1 DEF SenderInv, StreamsSent
    <3>2. CASE i = Len(streams) + 1
      BY <1>2, <1>4, <3>2, RangeOfNone
    <3> QED
      BY <1>4, <3>1, <3>2
  <2> QED
    BY <1>1, <2>1 DEF StreamsSent
<1>7. ReceivedSent'
  BY <1>1 DEF SenderInv, ReceivedSent
<1>8. PendingOnStream'
  BY <1>1, <1>4 DEF PendingOnStream
<1>9. StreamMatches'
  <2>1. streams'[Len(streams')] = new /\ Len(pendingReplies') = 0
    BY <1>1, <1>3, <1>4
  <2> QED
    BY <1>2, <2>1 DEF StreamMatches
<1>10. KeptInOrder'
  BY <1>1, OrderKept DEF Kept
<1> QED
  BY <1>5, <1>6, <1>7, <1>8, <1>9, <1>10 DEF SenderInv

\* ConnectFails and RetryDelay.
LEMMA PhaseKeeps ==
  ASSUME SenderInv, phase \in {"dialing", "waiting"}, phase' \in {"dialing", "waiting"},
         UNCHANGED <<sent, offered, cancelled, buffer, pendingReplies, streams, received, answered>>
  PROVE  SenderInv'
<1>1. TypeOK' /\ StreamsSent' /\ ReceivedSent'
  BY DEF SenderInv, TypeOK, StreamsSent, ReceivedSent
<1>2. PendingOnStream' /\ StreamMatches'
  BY DEF SenderInv, PendingOnStream, StreamMatches
<1>3. KeptInOrder'
  BY OrderKept DEF Kept
<1> QED
  BY <1>1, <1>2, <1>3 DEF SenderInv

LEMMA TakeMessageKeeps ==
  ASSUME SenderInv, TakeMessage
  PROVE  SenderInv'
<1>1. /\ buffer' = buffer \o offered /\ offered' = <<>>
      /\ sent' = sent /\ cancelled' = cancelled /\ phase' = phase
      /\ pendingReplies' = pendingReplies /\ streams' = streams /\ received' = received
      /\ answered' = answered
  BY DEF TakeMessage
<1>2. pendingReplies \in Seq(Msg) /\ buffer \in Seq(Msg) /\ offered \in Seq(Msg)
  BY DEF SenderInv, TypeOK
<1>3. buffer' \in Seq(Msg)
  BY <1>1, <1>2, ConcatProperties
<1>4. TypeOK'
  <2>1. offered' \in Seq(Msg) /\ Len(offered') <= 1
    BY <1>1
  <2> QED
    BY <1>1, <1>3, <2>1 DEF SenderInv, TypeOK
<1>5. StreamsSent' /\ ReceivedSent' /\ PendingOnStream' /\ StreamMatches'
  BY <1>1 DEF SenderInv, StreamsSent, ReceivedSent, PendingOnStream, StreamMatches
<1>6. Kept' = Kept
  <2>1. pendingReplies \o (buffer \o offered) = Kept
    BY <1>2, ConcatAssociative DEF Kept
  <2>2. pendingReplies \o (buffer \o offered) \in Seq(Msg)
    BY <1>2, <1>1, <1>3, ConcatProperties
  <2> QED
    BY <1>1, <2>1, <2>2, ConcatEmptySeq DEF Kept
<1>7. KeptInOrder'
  BY <1>1, <1>6, OrderKept
<1> QED
  BY <1>4, <1>5, <1>7 DEF SenderInv

\* The end of keepAlive, for whatever reason.
LEMMA LeaveStreamKeeps ==
  ASSUME SenderInv, LeaveStream
  PROVE  SenderInv'
<1>1. /\ phase' = "dialing" /\ buffer' = pendingReplies \o buffer /\ pendingReplies' = <<>>
      /\ sent' = sent /\ offered' = offered /\ cancelled' = cancelled
      /\ streams' = streams /\ received' = received /\ answered' = answered
  BY DEF LeaveStream
<1>2. pendingReplies \in Seq(Msg) /\ buffer \in Seq(Msg)
  BY DEF SenderInv, TypeOK
<1>3. buffer' \in Seq(Msg)
  BY <1>1, <1>2, ConcatProperties
<1>4. TypeOK'
  BY <1>1, <1>3 DEF SenderInv, TypeOK
<1>5. StreamsSent' /\ ReceivedSent' /\ PendingOnStream' /\ StreamMatches'
  BY <1>1 DEF SenderInv, StreamsSent, ReceivedSent, PendingOnStream, StreamMatches
<1>6. Kept' = Kept
  <2>1. <<>> \o (pendingReplies \o buffer) = pendingReplies \o buffer
    BY <1>1, <1>3, ConcatEmptySeq
  <2> QED
    BY <1>1, <2>1 DEF Kept
<1>7. KeptInOrder'
  BY <1>1, <1>6, OrderKept
<1> QED
  BY <1>4, <1>5, <1>7 DEF SenderInv

\* The first message of the buffer among those kept.
LEMMA BufferSplit ==
  ASSUME TypeOK, buffer # <<>>
  PROVE  \E h \in Msg, t \in Seq(Msg) :
           /\ h = Head(buffer) /\ t = Tail(buffer)
           /\ t \o offered \in Seq(Msg)
           /\ Range(buffer) = {h} \cup Range(t)
           /\ Kept = pendingReplies \o <<h>> \o t \o offered
           /\ Kept = pendingReplies \o <<h>> \o (t \o offered)
           /\ pendingReplies \o t \o offered = pendingReplies \o (t \o offered)
<1>1. pendingReplies \in Seq(Msg) /\ buffer \in Seq(Msg) /\ offered \in Seq(Msg)
  BY DEF TypeOK
<1>2. \E h \in Msg, t \in Seq(Msg) :
        Split(pendingReplies, buffer, offered, h, t) /\ t \o offered \in Seq(Msg)
  BY <1>1, MiddleSplit
<1> QED
  BY <1>2, Zenon DEF Kept, Split

LEMMA SkipCancelledKeeps ==
  ASSUME SenderInv, SkipCancelled
  PROVE  SenderInv'
<1>1. PICK h \in Msg, t \in Seq(Msg) :
        /\ h = Head(buffer) /\ t = Tail(buffer)
        /\ t \o offered \in Seq(Msg)
        /\ Range(buffer) = {h} \cup Range(t)
        /\ Kept = pendingReplies \o <<h>> \o (t \o offered)
        /\ pendingReplies \o t \o offered = pendingReplies \o (t \o offered)
  BY BufferSplit DEF SkipCancelled, SenderInv
<1>2. /\ buffer # <<>> /\ h \in cancelled /\ buffer' = t /\ pendingReplies' = pendingReplies
      /\ sent' = sent /\ offered' = offered /\ cancelled' = cancelled /\ phase' = phase
      /\ streams' = streams /\ received' = received /\ answered' = answered
  BY <1>1 DEF SkipCancelled
<1>3. /\ TypeOK /\ pendingReplies \in Seq(Msg) /\ sent \in Seq(Msg)
  BY DEF SenderInv, TypeOK
<1>4. TypeOK'
  BY <1>2, <1>3 DEF TypeOK
<1>5. StreamsSent' /\ ReceivedSent' /\ PendingOnStream' /\ StreamMatches'
  BY <1>2 DEF SenderInv, StreamsSent, ReceivedSent, PendingOnStream, StreamMatches
<1>6. KeptInOrder'
  <2>1. Kept' = pendingReplies \o (t \o offered)
    BY <1>1, <1>2 DEF Kept
  <2>2. InOrder(Kept, sent) /\ Range(Kept) \cap answered = {}
        /\ Range(sent) = Range(Kept) \cup answered \cup cancelled
    BY DEF SenderInv, KeptInOrder, InOrder
  <2>3. InOrder(Kept', sent')
    BY <1>1, <1>2, <1>3, <2>1, <2>2, TakenInOrder
  <2>4. /\ Range(Kept) = Range(pendingReplies) \cup Range(buffer) \cup Range(offered)
        /\ Range(Kept') = Range(pendingReplies') \cup Range(buffer') \cup Range(offered')
    BY <1>3, <1>4, RangeOfThree DEF Kept, TypeOK
  <2>5. Range(Kept) = Range(Kept') \cup {h}
    BY <1>1, <1>2, <2>4
  <2>6. /\ Range(sent') = Range(Kept') \cup answered' \cup cancelled'
        /\ Range(Kept') \cap answered' = {}
    BY <1>2, <2>2, <2>5
  <2> QED
    BY <2>3, <2>6 DEF KeptInOrder, InOrder
<1> QED
  BY <1>4, <1>5, <1>6 DEF SenderInv

\* What changes when one stream is replaced.
LEMMA StreamReplaced ==
  ASSUME TypeOK, NEW i \in DOMAIN streams, NEW s \in Stream,
         streams' = [streams EXCEPT ![i] = s]
  PROVE  /\ streams' \in Seq(Stream) /\ Len(streams') = Len(streams)
         /\ DOMAIN streams' = DOMAIN streams
         /\ streams'[i] = s
         /\ \A j \in DOMAIN streams : j # i => streams'[j] = streams[j]
<1>1. streams \in Seq(Stream)
  BY DEF TypeOK
<1> QED
  BY <1>1

LEMMA WriteKeeps ==
  ASSUME SenderInv, Write
  PROVE  SenderInv'
<1>0. TypeOK /\ pendingReplies \in Seq(Msg) /\ streams # <<>> /\ streams \in Seq(Stream)
  BY DEF SenderInv, Write, PendingOnStream, TypeOK
<1>1. PICK h \in Msg, t \in Seq(Msg) :
        /\ h = Head(buffer) /\ t = Tail(buffer)
        /\ Range(buffer) = {h} \cup Range(t)
        /\ Kept = pendingReplies \o <<h>> \o t \o offered
  BY BufferSplit DEF Write, SenderInv
<1>2. PICK c : c = Len(streams)
  OBVIOUS
<1>3. c \in DOMAIN streams /\ c \in Nat
  BY <1>0, <1>2, EmptySeq
<1>4. /\ streams[c] \in Stream /\ streams[c].data \in Seq(Msg)
      /\ streams[c].acks \in Nat /\ streams[c].broken \in BOOLEAN
  BY <1>0, <1>3, StreamTypes
<1>5. /\ phase = "connected" /\ buffer # <<>> /\ buffer' = t
      /\ pendingReplies' = Append(pendingReplies, h)
      /\ streams' = (IF streams[c].broken THEN streams
                     ELSE [streams EXCEPT ![c].data = Append(@, h)])
      /\ sent' = sent /\ offered' = offered /\ cancelled' = cancelled /\ phase' = phase
      /\ received' = received /\ answered' = answered
  BY <1>1, <1>2 DEF Write, Current
<1>6. h \in Range(sent)
  BY <1>0, <1>1, KeptParts DEF SenderInv, KeptInOrder
<1>7. PICK s \in Stream :
        /\ s.acks = streams[c].acks /\ s.broken = streams[c].broken
        /\ s.data = IF streams[c].broken THEN streams[c].data ELSE Append(streams[c].data, h)
        /\ streams' = [streams EXCEPT ![c] = s]
  <2>1. CASE streams[c].broken
    <3>1. streams' = [streams EXCEPT ![c] = streams[c]]
      BY <1>0, <1>3, <1>5, <2>1
    <3> QED
      BY <1>4, <2>1, <3>1
  <2>2. CASE ~streams[c].broken
    <3> DEFINE s == [streams[c] EXCEPT !.data = Append(streams[c].data, h)]
    <3>1. streams' = [streams EXCEPT ![c] = s]
      BY <1>3, <1>5, <2>2
    <3>2. Append(streams[c].data, h) \in Seq(Msg)
      BY <1>4
    <3>3. /\ s \in Stream /\ s.acks = streams[c].acks /\ s.broken = streams[c].broken
          /\ s.data = Append(streams[c].data, h)
      BY <1>4, <3>2 DEF Stream
    <3> QED
      BY <2>2, <3>1, <3>3
  <2> QED
    BY <2>1, <2>2
<1>8. /\ streams' \in Seq(Stream) /\ Len(streams') = c
      /\ DOMAIN streams' = DOMAIN streams /\ streams'[c] = s
      /\ \A j \in DOMAIN streams : j # c => streams'[j] = streams[j]
  BY <1>0, <1>2, <1>3, <1>7, StreamReplaced
<1>9. /\ pendingReplies' \in Seq(Msg) /\ Len(pendingReplies') = Len(pendingReplies) + 1
      /\ Len(pendingReplies) \in Nat
      /\ \A i \in 1 .. Len(pendingReplies) : pendingReplies'[i] = pendingReplies[i]
      /\ pendingReplies'[Len(pendingReplies) + 1] = h
  BY <1>0, <1>5, Appended, AppendPlaces
<1>10. TypeOK'
  BY <1>0, <1>1, <1>5, <1>8, <1>9 DEF TypeOK
<1>11. StreamsSent'
  <2>1. Range(s.data) \subseteq Range(sent)
    <3>1. Range(streams[c].data) \subseteq Range(sent)
      BY <1>3 DEF SenderInv, StreamsSent
    <3>2. Range(Append(streams[c].data, h)) = Range(streams[c].data) \cup {h}
      BY <1>4, Appended
    <3> QED
      BY <1>6, <1>7, <3>1, <3>2
  <2> QED
    BY <1>5, <1>8, <2>1 DEF SenderInv, StreamsSent
<1>12. ReceivedSent' /\ PendingOnStream'
  BY <1>0, <1>3, <1>5, <1>8, EmptySeq DEF SenderInv, ReceivedSent, PendingOnStream
<1>13. StreamMatches'
  <2>1. /\ streams[c].acks <= Len(pendingReplies)
        /\ \A i \in 1 .. streams[c].acks : pendingReplies[i] \in received
        /\ ~streams[c].broken =>
             /\ Len(streams[c].data) + streams[c].acks = Len(pendingReplies)
             /\ \A i \in 1 .. Len(streams[c].data) :
                  streams[c].data[i] = pendingReplies[streams[c].acks + i]
    BY <1>2, <1>5 DEF SenderInv, StreamMatches
  <2>2. s.acks <= Len(pendingReplies')
    BY <1>4, <1>7, <1>9, <2>1
  <2>3. \A i \in 1 .. s.acks : pendingReplies'[i] \in received'
    <3>1. \A i \in 1 .. s.acks : i \in 1 .. Len(pendingReplies)
      BY <1>4, <1>7, <1>9, <2>1
    <3> QED
      BY <1>5, <1>7, <1>9, <2>1, <3>1
  <2>4. ASSUME ~s.broken
        PROVE  /\ Len(s.data) + s.acks = Len(pendingReplies')
               /\ \A i \in 1 .. Len(s.data) : s.data[i] = pendingReplies'[s.acks + i]
    <3> DEFINE d == streams[c].data
    <3>1. /\ s.data = Append(d, h) /\ Len(s.data) = Len(d) + 1 /\ Len(d) \in Nat
          /\ \A i \in 1 .. Len(d) : s.data[i] = d[i]
          /\ s.data[Len(d) + 1] = h
      BY <1>4, <1>7, <2>4, Appended, AppendPlaces
    <3> HIDE DEF d
    <3>2. /\ Len(d) + s.acks = Len(pendingReplies) /\ s.acks \in Nat
          /\ \A i \in 1 .. Len(d) : d[i] = pendingReplies[s.acks + i]
      BY <1>4, <1>7, <2>1, <2>4 DEF d
    <3>3. ASSUME NEW i \in 1 .. Len(s.data)
          PROVE  s.data[i] = pendingReplies'[s.acks + i]
      <4>1. CASE i \in 1 .. Len(d)
        <5>1. s.acks + i \in 1 .. Len(pendingReplies)
          BY <1>9, <3>1, <3>2, <4>1
        <5> QED
          BY <1>9, <3>1, <3>2, <4>1, <5>1
      <4>2. CASE i = Len(d) + 1
        <5>1. s.acks + i = Len(pendingReplies) + 1
          BY <3>1, <3>2, <4>2
        <5> QED
          BY <1>9, <3>1, <4>2, <5>1
      <4> QED
        BY <3>1, <4>1, <4>2
    <3> QED
      BY <1>9, <3>1, <3>2, <3>3
  <2> QED
    BY <1>8, <2>2, <2>3, <2>4 DEF StreamMatches
<1>14. KeptInOrder'
  <2>1. pendingReplies' = pendingReplies \o <<h>>
    BY <1>0, <1>5, AppendIsConcat
  <2>2. Kept' = Kept
    BY <1>1, <1>5, <2>1 DEF Kept
  <2> QED
    BY <1>5, <2>2, OrderKept
<1> QED
  BY <1>10, <1>11, <1>12, <1>13, <1>14 DEF SenderInv

LEMMA BreakKeeps ==
  ASSUME SenderInv, Break
  PROVE  SenderInv'
<1>1. PICK c : c = Len(streams)
  OBVIOUS
<1>2. TypeOK /\ streams # <<>> /\ streams \in Seq(Stream)
  BY DEF SenderInv, Break, PendingOnStream, TypeOK
<1>3. c \in DOMAIN streams /\ c \in Nat
  BY <1>1, <1>2, EmptySeq
<1>4. /\ streams' = [streams EXCEPT ![c].broken = TRUE]
      /\ sent' = sent /\ offered' = offered /\ cancelled' = cancelled /\ phase' = phase
      /\ buffer' = buffer /\ pendingReplies' = pendingReplies
      /\ received' = received /\ answered' = answered
  BY <1>1 DEF Break, Current
<1>5. PICK s \in Stream : /\ s.data = streams[c].data /\ s.acks = streams[c].acks
                          /\ s.broken = TRUE
                          /\ streams' = [streams EXCEPT ![c] = s]
  <2> DEFINE s == [streams[c] EXCEPT !.broken = TRUE]
  <2>1. streams' = [streams EXCEPT ![c] = s]
    BY <1>3, <1>4
  <2>2. s \in Stream /\ s.data = streams[c].data /\ s.acks = streams[c].acks /\ s.broken = TRUE
    BY <1>2, <1>3, StreamTypes DEF Stream
  <2> QED
    BY <2>1, <2>2
<1>6. /\ streams' \in Seq(Stream) /\ Len(streams') = c
      /\ DOMAIN streams' = DOMAIN streams /\ streams'[c] = s
      /\ \A j \in DOMAIN streams : j # c => streams'[j] = streams[j]
  BY <1>1, <1>2, <1>3, <1>5, StreamReplaced
<1>7. TypeOK'
  BY <1>2, <1>4, <1>6 DEF TypeOK
<1>8. StreamsSent' /\ ReceivedSent'
  BY <1>3, <1>4, <1>5, <1>6 DEF SenderInv, StreamsSent, ReceivedSent
<1>9. PendingOnStream'
  BY <1>3, <1>4, <1>6, EmptySeq DEF SenderInv, PendingOnStream
<1>10. StreamMatches'
  BY <1>1, <1>4, <1>5, <1>6 DEF SenderInv, StreamMatches
<1>11. KeptInOrder'
  BY <1>4, OrderKept DEF Kept
<1> QED
  BY <1>7, <1>8, <1>9, <1>10, <1>11 DEF SenderInv

LEMMA DispatchKeeps ==
  ASSUME SenderInv, NEW i \in 1 .. Current, Dispatch(i)
  PROVE  SenderInv'
<1>1. PICK c : c = Len(streams)
  OBVIOUS
<1>2. TypeOK /\ streams \in Seq(Stream) /\ DOMAIN streams = 1 .. c /\ c \in Nat /\ i \in 1 .. c
  BY <1>1 DEF SenderInv, TypeOK, Current
<1>3. /\ streams[i] \in Stream /\ streams[i].data \in Seq(Msg)
      /\ streams[i].acks \in Nat /\ streams[i].broken \in BOOLEAN
  BY <1>2, StreamTypes
<1>4. PICK d, a, b : d = streams[i].data /\ a = streams[i].acks /\ b = streams[i].broken
  OBVIOUS
<1>5. /\ d # <<>> /\ d \in Seq(Msg) /\ a \in Nat
      /\ received' = received \cup {Head(d)}
      /\ sent' = sent /\ offered' = offered /\ cancelled' = cancelled /\ phase' = phase
      /\ buffer' = buffer /\ pendingReplies' = pendingReplies /\ answered' = answered
  BY <1>3, <1>4 DEF Dispatch
<1>6. /\ Head(d) \in Msg /\ Tail(d) \in Seq(Msg) /\ Len(Tail(d)) = Len(d) - 1
      /\ Range(d) = {Head(d)} \cup Range(Tail(d))
      /\ Len(d) \in Nat \ {0}
  BY <1>5, RangeHeadTail, EmptySeq
<1>7. PICK s \in Stream :
        /\ s.data = Tail(d) /\ s.acks = (IF b THEN a ELSE a + 1) /\ s.broken = b
        /\ streams' = [streams EXCEPT ![i] = s]
  <2> DEFINE s == [streams[i] EXCEPT !.data = Tail(@), !.acks = IF b THEN @ ELSE @ + 1]
  <2>1. streams' = [streams EXCEPT ![i] = s]
    BY <1>2, <1>4 DEF Dispatch
  <2>2. s.data = Tail(d) /\ s.acks = (IF b THEN a ELSE a + 1) /\ s.broken = b
    BY <1>3, <1>4 DEF Stream
  <2>3. (IF b THEN a ELSE a + 1) \in Nat
    BY <1>5
  <2>4. s \in Stream
    BY <1>3, <1>4, <1>6, <2>3 DEF Stream
  <2> QED
    BY <2>1, <2>2, <2>4
<1>8. /\ streams' \in Seq(Stream) /\ Len(streams') = c
      /\ DOMAIN streams' = DOMAIN streams /\ streams'[i] = s
      /\ \A j \in DOMAIN streams : j # i => streams'[j] = streams[j]
  BY <1>1, <1>2, <1>7, StreamReplaced
<1>9. TypeOK'
  BY <1>2, <1>5, <1>6, <1>8 DEF TypeOK
<1>10. StreamsSent' /\ ReceivedSent'
  <2>1. Range(d) \subseteq Range(sent)
    BY <1>2, <1>4 DEF SenderInv, StreamsSent
  <2> QED
    BY <1>5, <1>6, <1>7, <1>8, <2>1 DEF SenderInv, StreamsSent, ReceivedSent
<1>11. PendingOnStream'
  BY <1>1, <1>2, <1>5, <1>8, EmptySeq DEF SenderInv, PendingOnStream
<1>12. StreamMatches'
  <2> SUFFICES ASSUME phase = "connected"
               PROVE  StreamMatches'
    BY <1>5 DEF StreamMatches
  <2>1. /\ streams[c].acks <= Len(pendingReplies)
        /\ \A k \in 1 .. streams[c].acks : pendingReplies[k] \in received
        /\ ~streams[c].broken =>
             /\ Len(streams[c].data) + streams[c].acks = Len(pendingReplies)
             /\ \A k \in 1 .. Len(streams[c].data) :
                  streams[c].data[k] = pendingReplies[streams[c].acks + k]
    BY <1>1 DEF SenderInv, StreamMatches
  <2>2. CASE i # c
    <3>1. streams'[c] = streams[c]
      BY <1>2, <1>8, <2>2
    <3> QED
      BY <1>5, <1>8, <2>1, <3>1 DEF StreamMatches
  <2>3. CASE i = c /\ b
    <3>1. s.acks = a /\ s.broken /\ streams'[c] = s
      BY <1>7, <1>8, <2>3
    <3> QED
      BY <1>4, <1>5, <1>8, <2>1, <2>3, <3>1 DEF StreamMatches
  <2>4. CASE i = c /\ ~b
    <3>1. s.acks = a + 1 /\ streams'[c] = s /\ s.data = Tail(d)
      BY <1>7, <1>8, <2>4
    <3>2. /\ Len(d) + a = Len(pendingReplies)
          /\ \A k \in 1 .. a : pendingReplies[k] \in received
          /\ \A k \in 1 .. Len(d) : d[k] = pendingReplies[a + k]
      BY <1>4, <2>1, <2>4
    <3>3. a + 1 <= Len(pendingReplies)
      BY <1>5, <1>6, <3>2
    <3>4. /\ \A k \in 1 .. (Len(d) - 1) : Tail(d)[k] = d[k + 1]
          /\ Head(d) = d[1] /\ 1 \in 1 .. Len(d)
      <4>1. /\ DOMAIN Tail(d) = 1 .. (Len(d) - 1)
            /\ \A k \in DOMAIN Tail(d) : Tail(d)[k] = d[k + 1]
            /\ Head(d) = d[1]
        BY <1>5, TailPlaces
      <4> QED
        BY <1>6, <4>1
    <3>5. ASSUME NEW k \in 1 .. (a + 1)
          PROVE  pendingReplies[k] \in received'
      <4>1. CASE k = a + 1
        BY <1>5, <3>2, <3>4, <4>1
      <4>2. CASE k \in 1 .. a
        BY <1>5, <3>2, <4>2
      <4> QED
        BY <1>5, <4>1, <4>2
    <3>6. Len(Tail(d)) + (a + 1) = Len(pendingReplies)
      BY <1>5, <1>6, <3>2
    <3>7. ASSUME NEW k \in 1 .. Len(Tail(d))
          PROVE  Tail(d)[k] = pendingReplies[(a + 1) + k]
      <4>1. k \in 1 .. (Len(d) - 1) /\ k + 1 \in 1 .. Len(d) /\ a + (k + 1) = (a + 1) + k
        BY <1>5, <1>6
      <4> QED
        BY <3>2, <3>4, <4>1
    <3> QED
      BY <1>5, <1>8, <3>1, <3>3, <3>5, <3>6, <3>7 DEF StreamMatches
  <2> QED
    BY <2>2, <2>3, <2>4
<1>13. KeptInOrder'
  BY <1>5, OrderKept DEF Kept
<1> QED
  BY <1>9, <1>10, <1>11, <1>12, <1>13 DEF SenderInv

\* The oldest message of those kept, when all of the buffer is written.
LEMMA PendingSplit ==
  ASSUME TypeOK, buffer = <<>>, pendingReplies # <<>>
  PROVE  \E h \in Msg, v \in Seq(Msg) :
           /\ h = Head(pendingReplies) /\ v = Tail(pendingReplies) \o <<>> \o offered
           /\ Range(pendingReplies) = {h} \cup Range(Tail(pendingReplies))
           /\ Kept = <<>> \o <<h>> \o v /\ Kept = <<h>> \o v /\ v = <<>> \o v
           /\ Range(Kept) = {h} \cup Range(v)
<1>1. pendingReplies \in Seq(Msg) /\ offered \in Seq(Msg) /\ <<>> \in Seq(Msg)
  BY DEF TypeOK
<1>2. PICK h \in Msg, t \in Seq(Msg) :
        Split(<<>>, pendingReplies, offered, h, t) /\ t \o offered \in Seq(Msg)
  BY <1>1, MiddleSplit
<1>3. PICK v \in Seq(Msg) : v = t \o offered
  BY <1>2
<1>4. PICK one \in Seq(Msg) : one = <<h>>
  <2>1. <<h>> \in Seq(Msg)
    OBVIOUS
  <2> QED
    BY <2>1, Zenon
<1>5. /\ <<>> \o pendingReplies = pendingReplies /\ pendingReplies \o <<>> = pendingReplies
      /\ <<>> \o one = one /\ <<>> \o v = v /\ t \o <<>> = t
  BY <1>1, ConcatEmptySeq
<1>6. /\ h = Head(pendingReplies) /\ t = Tail(pendingReplies)
      /\ Range(pendingReplies) = {h} \cup Range(t)
      /\ <<>> \o pendingReplies \o offered = <<>> \o one \o v
  BY <1>2, <1>3, <1>4, Zenon DEF Split
<1>7. Kept = <<>> \o pendingReplies \o offered
  BY <1>5, Zenon DEF Kept
<1>8. Kept = <<>> \o one \o v /\ Kept = one \o v
  BY <1>5, <1>6, <1>7, Zenon
<1>9. Range(one) = {h}
  BY <1>4 DEF Range
<1>10. Range(Kept) = {h} \cup Range(v)
  BY <1>8, <1>9, RangeConcatenation
<1> QED
  BY <1>3, <1>4, <1>5, <1>6, <1>8, <1>10, Zenon

LEMMA ReadAckKeeps ==
  ASSUME SenderInv, ReadAck, pendingReplies # <<>>
  PROVE  SenderInv'
<1>0. /\ TypeOK /\ streams # <<>> /\ streams \in Seq(Stream)
      /\ pendingReplies \in Seq(Msg) /\ sent \in Seq(Msg)
  BY DEF SenderInv, ReadAck, PendingOnStream, TypeOK
<1>1. PICK c : c = Len(streams)
  OBVIOUS
<1>2. c \in DOMAIN streams /\ c \in Nat
  BY <1>0, <1>1, EmptySeq
<1>3. PICK h \in Msg, v \in Seq(Msg) :
        /\ h = Head(pendingReplies) /\ v = Tail(pendingReplies) \o <<>> \o offered
        /\ Range(pendingReplies) = {h} \cup Range(Tail(pendingReplies))
        /\ Kept = <<>> \o <<h>> \o v /\ Kept = <<h>> \o v /\ v = <<>> \o v
        /\ Range(Kept) = {h} \cup Range(v)
  BY <1>0, PendingSplit DEF ReadAck
<1>4. PICK a, t : a = streams[c].acks /\ t = Tail(pendingReplies)
  OBVIOUS
<1>5. /\ phase = "connected" /\ buffer = <<>> /\ a > 0
      /\ answered' = answered \cup {h} /\ pendingReplies' = t
      /\ streams' = [streams EXCEPT ![c].acks = @ - 1]
      /\ sent' = sent /\ offered' = offered /\ cancelled' = cancelled /\ phase' = phase
      /\ buffer' = buffer /\ received' = received
  BY <1>1, <1>3, <1>4 DEF ReadAck, Current
<1>6. /\ a \in Nat \ {0} /\ streams[c] \in Stream /\ streams[c].data \in Seq(Msg)
  BY <1>0, <1>2, <1>4, <1>5, StreamTypes
<1>7. PICK s \in Stream :
        /\ s.data = streams[c].data /\ s.acks = a - 1 /\ s.broken = streams[c].broken
        /\ streams' = [streams EXCEPT ![c] = s]
  <2> DEFINE s == [streams[c] EXCEPT !.acks = a - 1]
  <2>1. streams' = [streams EXCEPT ![c] = s]
    BY <1>2, <1>4, <1>5
  <2>2. s.data = streams[c].data /\ s.acks = a - 1 /\ s.broken = streams[c].broken
    BY <1>6 DEF Stream
  <2>3. a - 1 \in Nat
    BY <1>6
  <2>4. s \in Stream
    BY <1>6, <2>3 DEF Stream
  <2> QED
    BY <2>1, <2>2, <2>4
<1>8. /\ streams' \in Seq(Stream) /\ Len(streams') = c
      /\ DOMAIN streams' = DOMAIN streams /\ streams'[c] = s
      /\ \A j \in DOMAIN streams : j # c => streams'[j] = streams[j]
  BY <1>0, <1>1, <1>2, <1>7, StreamReplaced
<1>9. /\ t \in Seq(Msg) /\ Len(t) = Len(pendingReplies) - 1
      /\ Len(pendingReplies) \in Nat \ {0}
      /\ \A i \in 1 .. (Len(pendingReplies) - 1) : t[i] = pendingReplies[i + 1]
      /\ pendingReplies[1] = h
  <2>1. /\ DOMAIN t = 1 .. (Len(pendingReplies) - 1)
        /\ \A i \in DOMAIN t : t[i] = pendingReplies[i + 1]
        /\ Head(pendingReplies) = pendingReplies[1]
    BY <1>0, <1>4, TailPlaces
  <2>2. t \in Seq(Msg) /\ Len(t) = Len(pendingReplies) - 1 /\ Len(pendingReplies) \in Nat \ {0}
    BY <1>0, <1>4, RangeHeadTail, EmptySeq
  <2> QED
    BY <1>3, <2>1, <2>2
<1>10. TypeOK'
  BY <1>0, <1>3, <1>5, <1>8, <1>9 DEF TypeOK
<1>11. StreamsSent' /\ ReceivedSent'
  BY <1>2, <1>5, <1>7, <1>8 DEF SenderInv, StreamsSent, ReceivedSent
<1>12. PendingOnStream'
  BY <1>2, <1>5, <1>8, EmptySeq DEF SenderInv, PendingOnStream
<1>13. StreamMatches'
  <2>1. /\ a <= Len(pendingReplies)
        /\ \A i \in 1 .. a : pendingReplies[i] \in received
        /\ ~s.broken => /\ Len(s.data) + a = Len(pendingReplies)
                        /\ \A i \in 1 .. Len(s.data) : s.data[i] = pendingReplies[a + i]
    BY <1>1, <1>4, <1>5, <1>7 DEF SenderInv, StreamMatches
  <2>2. a - 1 <= Len(t)
    BY <1>6, <1>9, <2>1
  <2>3. ASSUME NEW i \in 1 .. (a - 1)
        PROVE  t[i] \in received
    <3>1. i \in 1 .. (Len(pendingReplies) - 1) /\ i + 1 \in 1 .. a
      BY <1>6, <1>9, <2>1
    <3> QED
      BY <1>9, <2>1, <3>1
  <2>4. ASSUME ~s.broken
        PROVE  /\ Len(s.data) + (a - 1) = Len(t)
               /\ \A i \in 1 .. Len(s.data) : s.data[i] = t[(a - 1) + i]
    <3>1. Len(s.data) \in Nat
      BY <1>6, <1>7
    <3>2. Len(s.data) + (a - 1) = Len(t)
      BY <1>6, <1>9, <2>1, <2>4, <3>1
    <3>3. ASSUME NEW i \in 1 .. Len(s.data)
          PROVE  s.data[i] = t[(a - 1) + i]
      <4>1. (a - 1) + i \in 1 .. (Len(pendingReplies) - 1) /\ ((a - 1) + i) + 1 = a + i
        BY <1>6, <1>9, <2>1, <2>4, <3>1
      <4>2. t[(a - 1) + i] = pendingReplies[a + i]
        BY <1>9, <4>1
      <4> QED
        BY <2>1, <2>4, <4>2
    <3> QED
      BY <3>2, <3>3
  <2> QED
    BY <1>5, <1>7, <1>8, <2>2, <2>3, <2>4 DEF StreamMatches
<1>14. KeptInOrder'
  <2>1. Kept' = v
    BY <1>3, <1>4, <1>5, Zenon DEF Kept
  <2>2. /\ InOrder(Kept, sent) /\ Range(Kept) \cap answered = {}
        /\ Range(sent) = Range(Kept) \cup answered \cup cancelled
    BY DEF SenderInv, KeptInOrder, InOrder
  <2>3. InOrder(v, sent)
    <3>1. InOrder(<<>> \o <<h>> \o v, sent)
      BY <1>3, <2>2, Zenon
    <3>2. PICK e \in Seq(Msg) : e = <<>>
      <4>1. <<>> \in Seq(Msg)
        BY EmptySeq
      <4> QED
        BY <4>1, Zenon
    <3>3. InOrder(e \o <<h>> \o v, sent)
      BY <3>1, <3>2, Zenon
    <3>4. InOrder(e \o v, sent)
      BY <1>0, <3>3, TakenInOrder
    <3> QED
      BY <1>3, <3>2, <3>4, Zenon
  <2>4. h \notin Range(v)
    <3>1. InOrder(<<h>> \o v, sent)
      BY <1>3, <2>2, Zenon
    <3>2. h \in Range(sent)
      BY <1>3, <2>2
    <3> QED
      BY <1>0, <3>1, <3>2, TakenOnce
  <2>5. /\ Range(sent) = Range(v) \cup answered' \cup cancelled
        /\ Range(v) \cap answered' = {}
    BY <1>3, <1>5, <2>2, <2>4
  <2> QED
    BY <1>5, <2>1, <2>3, <2>5 DEF KeptInOrder, InOrder
<1> QED
  BY <1>10, <1>11, <1>12, <1>13, <1>14 DEF SenderInv
-----------------------------------------------------------------------------
LEMMA SenderKeeps ==
  ASSUME SenderInv, [Next]_vars
  PROVE  SenderInv'
<1>1. ASSUME NEW m \in Msg, Send(m) \/ Cancel(m)
      PROVE  SenderInv'
  BY <1>1, SendKeeps, CancelKeeps
<1>2. CASE Connect
  BY <1>2, ConnectKeeps
<1>3. CASE ConnectFails \/ RetryDelay
  <2>1. /\ phase \in {"dialing", "waiting"} /\ phase' \in {"dialing", "waiting"}
        /\ UNCHANGED <<sent, offered, cancelled, buffer, pendingReplies, streams, received, answered>>
    BY <1>3 DEF ConnectFails, RetryDelay
  <2> QED
    BY <2>1, PhaseKeeps
<1>4. CASE TakeMessage
  BY <1>4, TakeMessageKeeps
<1>5. CASE SkipCancelled
  BY <1>5, SkipCancelledKeeps
<1>6. CASE Write
  BY <1>6, WriteKeeps
<1>7. CASE WriteFails \/ ReadFails
  BY <1>7, LeaveStreamKeeps DEF WriteFails, ReadFails
<1>8. CASE ReadAck
  <2>1. CASE pendingReplies = <<>>
    BY <1>8, <2>1, LeaveStreamKeeps DEF ReadAck
  <2>2. CASE pendingReplies # <<>>
    BY <1>8, <2>2, ReadAckKeeps
  <2> QED
    BY <2>1, <2>2
<1>9. CASE Break
  BY <1>9, BreakKeeps
<1>10. ASSUME NEW i \in 1 .. Current, Dispatch(i)
       PROVE  SenderInv'
  BY <1>10, DispatchKeeps
<1>11. CASE UNCHANGED vars
  <2>1. /\ sent' = sent /\ offered' = offered /\ cancelled' = cancelled /\ phase' = phase
        /\ buffer' = buffer /\ pendingReplies' = pendingReplies /\ streams' = streams
        /\ received' = received /\ answered' = answered
    BY <1>11 DEF vars
  <2>2. TypeOK' /\ StreamsSent' /\ ReceivedSent' /\ PendingOnStream' /\ StreamMatches'
    BY <2>1 DEF SenderInv, TypeOK, StreamsSent, ReceivedSent, PendingOnStream, StreamMatches
  <2>3. KeptInOrder'
    BY <2>1, OrderKept DEF Kept
  <2> QED
    BY <2>2, <2>3 DEF SenderInv
<1> QED
  BY <1>1, <1>2, <1>3, <1>4, <1>5, <1>6, <1>7, <1>8, <1>9, <1>10, <1>11 DEF Next

LEMMA SenderInvariance == Spec => []SenderInv
<1>1. Init => SenderInv
  BY SenderStarts
<1>2. SenderInv /\ [Next]_vars => SenderInv'
  BY SenderKeeps
<1> QED
  BY <1>1, <1>2, PTL DEF Spec

\* The acks and messages of the stream are those of the pending messages.
LEMMA MatchesPending ==
  ASSUME SenderInv
  PROVE  AcksMatchPending
<1> SUFFICES ASSUME phase = "connected"
             PROVE  LET s == streams[Len(streams)]
                        n == Len(pendingReplies)
                    IN  /\ s.acks <= n
                        /\ \A i \in 1 .. s.acks : pendingReplies[i] \in received
                        /\ ~s.broken => s.data = SubSeq(pendingReplies, s.acks + 1, n)
  BY DEF AcksMatchPending, Current
<1>1. /\ TypeOK /\ streams # <<>> /\ streams \in Seq(Stream)
      /\ pendingReplies \in Seq(Msg)
  BY DEF SenderInv, PendingOnStream, TypeOK
<1>2. PICK c : c = Len(streams)
  OBVIOUS
<1>3. c \in DOMAIN streams
  BY <1>1, <1>2, EmptySeq
<1>4. PICK p \in Seq(Msg), d \in Seq(Msg), a \in Nat :
        p = pendingReplies /\ d = streams[c].data /\ a = streams[c].acks
  BY <1>1, <1>3, StreamTypes
<1>5. /\ a <= Len(p) /\ \A i \in 1 .. a : p[i] \in received
      /\ ~streams[c].broken => /\ Len(d) + a = Len(p)
                               /\ \A i \in 1 .. Len(d) : d[i] = p[a + i]
  BY <1>2, <1>4 DEF SenderInv, StreamMatches
<1>6. ASSUME ~streams[c].broken
      PROVE  d = SubSeq(p, a + 1, Len(p))
  <2>1. /\ SubSeq(p, a + 1, Len(p)) \in Seq(Msg)
        /\ Len(SubSeq(p, a + 1, Len(p))) = Len(p) - a
        /\ \A i \in 1 .. (Len(p) - a) : SubSeq(p, a + 1, Len(p))[i] = p[a + i]
    BY <1>5, RestOf
  <2>2. Len(p) - a = Len(d)
    BY <1>5, <1>6
  <2> DEFINE u == SubSeq(p, a + 1, Len(p))
  <2>3. Len(u) = Len(d) /\ \A i \in 1 .. Len(d) : u[i] = d[i]
    BY <1>5, <1>6, <2>1, <2>2
  <2>4. u \in Seq(Msg)
    BY <2>1
  <2> HIDE DEF u
  <2>5. u = d
    BY <1>4, <2>3, <2>4, SeqEqual
  <2> QED
    BY <2>5 DEF u
<1> QED
  BY <1>2, <1>4, <1>5, <1>6

\* The variables of the reliable sender keep their types.
THEOREM TypeCorrect == Spec => []TypeOK
BY SenderInvariance, PTL DEF SenderInv

\* keepAlive pairs each ack with the oldest pending message: it belongs to it, and no ack
\* comes when nothing is pending (reliablesender.go:191-245, receiver.go).
THEOREM AcksAnswerPending == Spec => []AcksMatchPending
BY SenderInvariance, MatchesPending, PTL

\* Through any number of broken streams the sender keeps what it was handed, once and in
\* the order of the calls, until it is answered or given up (reliablesender.go:150-250).
THEOREM NoMessageLost == Spec => []KeptInOrder
BY SenderInvariance, PTL DEF SenderInv
-----------------------------------------------------------------------------
(* The reliable sender implements ReliableDelivery.                          *)

\* What is kept was passed to Send and has no answer yet.
LEMMA KeptUnanswered ==
  ASSUME SenderInv
  PROVE  Range(pendingReplies) \subseteq Range(sent) \ answered
<1>1. Range(pendingReplies) \subseteq Range(Kept)
  BY KeptParts DEF SenderInv
<1> QED
  BY <1>1 DEF SenderInv, KeptInOrder

LEMMA PromiseStarts == Init => Delivery!Init
BY RangeOfNone DEF Init, Delivery!Init

\* The end of keepAlive, and every other step that the callers do not see.
LEMMA UnseenStutters ==
  ASSUME UNCHANGED <<sent, cancelled, received, answered>>
  PROVE  UNCHANGED Delivery!vars
BY DEF Delivery!vars

LEMMA SendRequests ==
  ASSUME SenderInv, NEW m \in Msg, Send(m)
  PROVE  Delivery!Request(m)
<1>1. /\ m \notin Range(sent) /\ sent' = Append(sent, m)
      /\ cancelled' = cancelled /\ received' = received /\ answered' = answered
  BY DEF Send
<1>2. Range(sent') = Range(sent) \cup {m}
  BY <1>1, Appended DEF SenderInv, TypeOK
<1> QED
  BY <1>1, <1>2 DEF Delivery!Request

LEMMA CancelCancels ==
  ASSUME NEW m \in Msg, Cancel(m)
  PROVE  Delivery!Cancel(m)
BY DEF Cancel, Delivery!Cancel

LEMMA DispatchReceives ==
  ASSUME SenderInv, NEW i \in 1 .. Current, Dispatch(i)
  PROVE  \E m \in Msg : Delivery!Receive(m)
<1>1. i \in DOMAIN streams
  BY DEF SenderInv, TypeOK, Current
<1>2. PICK d \in Seq(Msg) : d = streams[i].data
  BY <1>1, StreamTypes DEF SenderInv
<1>3. /\ d # <<>> /\ received' = received \cup {Head(d)}
      /\ sent' = sent /\ cancelled' = cancelled /\ answered' = answered
  BY <1>2 DEF Dispatch
<1>4. Head(d) \in Msg /\ Head(d) \in Range(d)
  BY <1>3, RangeHeadTail
<1>5. Head(d) \in Range(sent)
  BY <1>1, <1>2, <1>4 DEF SenderInv, StreamsSent
<1>6. Delivery!Receive(Head(d))
  BY <1>3, <1>5 DEF Delivery!Receive
<1> QED
  BY <1>4, <1>6

\* The ack that is read answers a message that the peer took, for the first time.
LEMMA ReadAckAnswers ==
  ASSUME SenderInv, ReadAck, pendingReplies # <<>>
  PROVE  \E m \in Msg : Delivery!Answer(m)
<1>1. PICK c, h : c = Len(streams) /\ h = Head(pendingReplies)
  OBVIOUS
<1>2. /\ phase = "connected" /\ streams[c].acks > 0
      /\ answered' = answered \cup {h}
      /\ sent' = sent /\ cancelled' = cancelled /\ received' = received
  BY <1>1 DEF ReadAck, Current
<1>3. /\ pendingReplies \in Seq(Msg) /\ streams \in Seq(Stream) /\ streams # <<>>
  BY <1>2 DEF SenderInv, TypeOK, PendingOnStream
<1>4. c \in DOMAIN streams
  BY <1>1, <1>3, EmptySeq
<1>5. streams[c].acks \in Nat
  BY <1>4, StreamTypes DEF SenderInv
<1>6. 1 \in 1 .. streams[c].acks
  BY <1>2, <1>5
<1>7. pendingReplies[1] \in received
  BY <1>1, <1>2, <1>6 DEF SenderInv, StreamMatches
<1>8. h = pendingReplies[1]
  BY <1>1, <1>3, TailPlaces
<1>9. h \in Msg /\ h \in Range(pendingReplies)
  BY <1>1, <1>3, RangeHeadTail
<1>10. Delivery!Answer(h)
  BY <1>2, <1>7, <1>8, <1>9, KeptUnanswered DEF Delivery!Answer
<1> QED
  BY <1>9, <1>10

\* Each step of the sender is one of the promise, or invisible.
LEMMA PromiseStep ==
  ASSUME SenderInv, [Next]_vars
  PROVE  [Delivery!Next]_(Delivery!vars)
<1>1. ASSUME NEW m \in Msg, Send(m)
      PROVE  Delivery!Next
  BY <1>1, SendRequests DEF Delivery!Next
<1>2. ASSUME NEW m \in Msg, Cancel(m)
      PROVE  Delivery!Next
  BY <1>2, CancelCancels DEF Delivery!Next
<1>3. CASE Connect \/ ConnectFails \/ RetryDelay \/ TakeMessage
  <2>1. UNCHANGED <<sent, cancelled, received, answered>>
    BY <1>3 DEF Connect, ConnectFails, RetryDelay, TakeMessage
  <2> QED
    BY <2>1, UnseenStutters
<1>4. CASE SkipCancelled \/ Write \/ WriteFails \/ ReadFails \/ Break
  <2>1. UNCHANGED <<sent, cancelled, received, answered>>
    BY <1>4 DEF SkipCancelled, Write, WriteFails, ReadFails, Break, LeaveStream
  <2> QED
    BY <2>1, UnseenStutters
<1>5. CASE ReadAck
  <2>1. CASE pendingReplies = <<>>
    <3>1. UNCHANGED <<sent, cancelled, received, answered>>
      BY <1>5, <2>1 DEF ReadAck, LeaveStream
    <3> QED
      BY <3>1, UnseenStutters
  <2>2. CASE pendingReplies # <<>>
    BY <1>5, <2>2, ReadAckAnswers DEF Delivery!Next
  <2> QED
    BY <2>1, <2>2
<1>6. ASSUME NEW i \in 1 .. Current, Dispatch(i)
      PROVE  Delivery!Next
  BY <1>6, DispatchReceives DEF Delivery!Next
<1>7. CASE UNCHANGED vars
  BY <1>7, UnseenStutters DEF vars
<1> QED
  BY <1>1, <1>2, <1>3, <1>4, <1>5, <1>6, <1>7 DEF Next

\* The sender does what ReliableDelivery promises its callers: an answer only for a
\* message that the peer has taken, and at most one (ReliableSender.Send, run, keepAlive).
THEOREM ImplementsDelivery == Spec => KeepsPromise
<1>1. Init => Delivery!Init
  BY PromiseStarts
<1>2. SenderInv /\ [Next]_vars => [Delivery!Next]_(Delivery!vars)
  BY PromiseStep
<1> QED
  BY <1>1, <1>2, SenderInvariance, PTL DEF Spec, KeepsPromise, Delivery!Spec
-----------------------------------------------------------------------------
(* The simple sender.                                                        *)

\* The call that waits has a connection: the one of the map, or a new one.
CallPlaced ==
  sending # Simple!NoCall =>
    /\ sending.message \in 1 .. MaxCalls
    /\ sending.to \in DOMAIN connections
    /\ ~sending.spawned => sending.to = held

\* The new connection has not lost its error to anyone: it will be stored with it.
NewNoticed ==
  refused = {} /\ sending # Simple!NoCall /\ sending.spawned
    /\ connections[sending.to].phase = "ended"
  => connections[sending.to].errCh

SimpleInv ==
  /\ Simple!TypeOK
  /\ CallPlaced
  /\ NewNoticed
  /\ Simple!DeadConnectionNoticed

LEMMA SimpleStarts == Simple!Init => SimpleInv
<1> SUFFICES ASSUME Simple!Init
             PROVE  SimpleInv
  OBVIOUS
<1>1. connections = <<>> /\ Len(connections) = 0 /\ connections \in Seq(Simple!Connection)
  BY DEF Simple!Init
<1>2. /\ calls = 0 /\ sending = Simple!NoCall /\ held = 0 /\ refused = {} /\ written = {}
  BY DEF Simple!Init
<1>3. Simple!TypeOK
  BY <1>1, <1>2, SimpleSenderAssumption DEF Simple!TypeOK, Simple!NoCall
<1> QED
  BY <1>2, <1>3 DEF SimpleInv, CallPlaced, NewNoticed, Simple!DeadConnectionNoticed

\* A step of the goroutine of connection i, or of its stream.
LEMMA ConnectionKeeps ==
  ASSUME SimpleInv, NEW i \in DOMAIN connections, NEW c \in Simple!Connection,
         connections' = [connections EXCEPT ![i] = c],
         c.phase = "ended" => c.errCh,
         calls' = calls, sending' = sending, held' = held, refused' = refused,
         written' \subseteq 1 .. MaxCalls
  PROVE  SimpleInv'
<1>1. connections \in Seq(Simple!Connection) /\ DOMAIN connections = 1 .. Len(connections)
  BY DEF SimpleInv, Simple!TypeOK
<1>2. /\ connections' \in Seq(Simple!Connection) /\ Len(connections') = Len(connections)
      /\ DOMAIN connections' = DOMAIN connections /\ connections'[i] = c
      /\ \A j \in DOMAIN connections : j # i => connections'[j] = connections[j]
  BY <1>1
<1>3. Simple!TypeOK'
  BY <1>2 DEF SimpleInv, Simple!TypeOK
<1>4. CallPlaced'
  BY <1>2 DEF SimpleInv, CallPlaced
<1>5. NewNoticed'
  BY <1>2 DEF SimpleInv, NewNoticed, CallPlaced
<1>6. Simple!DeadConnectionNoticed'
  <2>1. held # 0 => held \in DOMAIN connections
    BY <1>1 DEF SimpleInv, Simple!TypeOK
  <2> QED
    BY <1>2, <2>1 DEF SimpleInv, Simple!DeadConnectionNoticed
<1> QED
  BY <1>3, <1>4, <1>5, <1>6 DEF SimpleInv

LEMMA ConnectionTypes ==
  ASSUME Simple!TypeOK, NEW i \in DOMAIN connections
  PROVE  /\ connections[i] \in Simple!Connection
         /\ connections[i].receiver \in Seq(1 .. MaxCalls)
         /\ connections[i].errCh \in BOOLEAN
<1>1. connections[i] \in Simple!Connection
  BY ElementOfSeq DEF Simple!TypeOK
<1> QED
  BY <1>1 DEF Simple!Connection

LEMMA RunKeeps ==
  ASSUME SimpleInv, NEW i \in 1 .. Len(connections), Simple!Run(i) \/ Simple!Stall(i) \/ Simple!Break(i)
  PROVE  SimpleInv'
<1>1. i \in DOMAIN connections
  BY DEF SimpleInv, Simple!TypeOK
<1>2. PICK c \in Simple!Connection : c = connections[i] /\ c.receiver \in Seq(1 .. MaxCalls)
  BY <1>1, ConnectionTypes DEF SimpleInv
<1>3. written \subseteq 1 .. MaxCalls
  BY DEF SimpleInv, Simple!TypeOK
<1>4. CASE Simple!Dial(i)
  <2>1. PICK d \in {[c EXCEPT !.phase = "open"], Simple!Ended(c)} :
          connections' = [connections EXCEPT ![i] = d]
    BY <1>2, <1>4 DEF Simple!Dial
  <2>2. d \in Simple!Connection /\ (d.phase = "ended" => d.errCh)
    BY <1>2, <2>1 DEF Simple!Ended, Simple!Connection
  <2>3. calls' = calls /\ sending' = sending /\ held' = held /\ refused' = refused /\ written' = written
    BY <1>4 DEF Simple!Dial
  <2> QED
    BY <1>1, <1>3, <2>1, <2>2, <2>3, ConnectionKeeps
<1>5. CASE Simple!Write(i)
  <2>1. c.receiver # <<>>
    BY <1>2, <1>5 DEF Simple!Write
  <2>2. Head(c.receiver) \in 1 .. MaxCalls /\ Tail(c.receiver) \in Seq(1 .. MaxCalls)
    BY <1>2, <2>1, RangeHeadTail
  <2>3. PICK taken : taken = [c EXCEPT !.receiver = Tail(@)]
    OBVIOUS
  <2>4. taken \in Simple!Connection
    BY <1>2, <2>2, <2>3 DEF Simple!Connection
  <2>5. calls' = calls /\ sending' = sending /\ held' = held /\ refused' = refused
    BY <1>5 DEF Simple!Write
  <2>6. \/ /\ taken.phase = "open"
           /\ connections' = [connections EXCEPT ![i] = taken]
           /\ written' = written \cup {Head(c.receiver)}
        \/ /\ taken.phase = "broken"
           /\ \E d \in {taken, Simple!Ended(taken)} : connections' = [connections EXCEPT ![i] = d]
           /\ written' = written
    BY <1>2, <1>5, <2>3 DEF Simple!Write
  <2>7. written' \subseteq 1 .. MaxCalls
    BY <1>3, <2>2, <2>6
  <2>8. PICK d \in Simple!Connection :
          connections' = [connections EXCEPT ![i] = d] /\ (d.phase = "ended" => d.errCh)
    <3>1. Simple!Ended(taken) \in Simple!Connection /\ Simple!Ended(taken).errCh
      BY <2>4 DEF Simple!Ended, Simple!Connection
    <3> QED
      BY <2>4, <2>6, <3>1
  <2> QED
    BY <1>1, <2>5, <2>7, <2>8, ConnectionKeeps
<1>6. CASE Simple!Stall(i)
  <2>1. c.receiver # <<>>
    BY <1>2, <1>6 DEF Simple!Stall
  <2>2. Tail(c.receiver) \in Seq(1 .. MaxCalls)
    BY <1>2, <2>1, RangeHeadTail
  <2>3. PICK d : d = [c EXCEPT !.phase = "stalled", !.receiver = Tail(@)]
    OBVIOUS
  <2>4. d \in Simple!Connection /\ d.phase = "stalled"
    BY <1>2, <2>2, <2>3 DEF Simple!Connection
  <2>5. connections' = [connections EXCEPT ![i] = d]
    BY <1>2, <1>6, <2>3 DEF Simple!Stall
  <2>6. calls' = calls /\ sending' = sending /\ held' = held /\ refused' = refused /\ written' = written
    BY <1>6 DEF Simple!Stall
  <2> QED
    BY <1>1, <1>3, <2>4, <2>5, <2>6, ConnectionKeeps
<1>7. CASE Simple!Break(i)
  <2>1. PICK d : d \in Simple!Connection /\ (d.phase = "ended" => d.errCh)
                 /\ connections' = [connections EXCEPT ![i] = d]
    <3>1. CASE c.phase = "open"
      <4>1. PICK d : d = [c EXCEPT !.phase = "broken"]
        OBVIOUS
      <4>2. d \in Simple!Connection /\ d.phase = "broken"
        BY <1>2, <4>1 DEF Simple!Connection
      <4>3. connections' = [connections EXCEPT ![i] = d]
        BY <1>2, <1>7, <3>1, <4>1 DEF Simple!Break
      <4> QED
        BY <4>2, <4>3
    <3>2. CASE c.phase = "stalled"
      <4>1. Simple!Ended(c) \in Simple!Connection /\ Simple!Ended(c).errCh
        BY <1>2 DEF Simple!Ended, Simple!Connection
      <4>2. connections' = [connections EXCEPT ![i] = Simple!Ended(c)]
        BY <1>2, <1>7, <3>2 DEF Simple!Break
      <4> QED
        BY <4>1, <4>2
    <3> QED
      BY <1>2, <1>7, <3>1, <3>2 DEF Simple!Break
  <2>2. calls' = calls /\ sending' = sending /\ held' = held /\ refused' = refused /\ written' = written
    BY <1>7 DEF Simple!Break
  <2> QED
    BY <1>1, <1>3, <2>1, <2>2, ConnectionKeeps
<1> QED
  BY <1>4, <1>5, <1>6, <1>7 DEF Simple!Run

\* The connection that Send spawns.
LEMMA Spawned ==
  ASSUME NEW s \in Seq(Simple!Connection)
  PROVE  /\ Append(s, Simple!NewConnection) \in Seq(Simple!Connection)
         /\ Len(Append(s, Simple!NewConnection)) = Len(s) + 1
         /\ DOMAIN s = 1 .. Len(s) /\ Len(s) \in Nat
         /\ DOMAIN Append(s, Simple!NewConnection) = 1 .. (Len(s) + 1)
         /\ \A i \in 1 .. Len(s) : Append(s, Simple!NewConnection)[i] = s[i]
         /\ Append(s, Simple!NewConnection)[Len(s) + 1] = Simple!NewConnection
         /\ Simple!NewConnection.phase = "dialing"
<1>1. /\ Simple!NewConnection \in Simple!Connection
      /\ Simple!NewConnection.phase = "dialing"
  BY DEF Simple!NewConnection, Simple!Connection
<1> QED
  BY <1>1, Appended, AppendPlaces

LEMMA SimpleSendKeeps ==
  ASSUME SimpleInv, Simple!Send
  PROVE  SimpleInv'
<1>1. /\ sending = Simple!NoCall /\ calls < MaxCalls /\ calls' = calls + 1
      /\ held' = held /\ refused' = refused /\ written' = written
  BY DEF Simple!Send
<1>2. /\ calls \in 0 .. MaxCalls /\ connections \in Seq(Simple!Connection)
      /\ held \in 0 .. Len(connections) /\ Len(connections) \in Nat
      /\ refused \subseteq 1 .. MaxCalls /\ written \subseteq 1 .. MaxCalls
  BY DEF SimpleInv, Simple!TypeOK
<1>3. calls' \in 0 .. MaxCalls /\ calls + 1 \in 1 .. MaxCalls
  BY <1>1, <1>2, SimpleSenderAssumption
<1>4. ~sending.spawned
  BY <1>1 DEF Simple!NoCall
<1>5. CASE held # 0
  <2>1. /\ sending' = [message |-> calls + 1, to |-> held, spawned |-> FALSE]
        /\ connections' = connections
    BY <1>5 DEF Simple!Send
  <2>2. sending'.message = calls + 1 /\ sending'.to = held /\ ~sending'.spawned
    BY <2>1
  <2>3. Simple!TypeOK'
    BY <1>1, <1>2, <1>3, <2>1 DEF Simple!TypeOK
  <2>4. CallPlaced' /\ NewNoticed'
    <3>1. held \in DOMAIN connections
      BY <1>2, <1>5
    <3>2. CallPlaced'
      BY <1>1, <1>3, <2>1, <2>2, <3>1 DEF CallPlaced
    <3>3. NewNoticed'
      BY <2>2, Zenon DEF NewNoticed
    <3> QED
      BY <3>2, <3>3
  <2>5. Simple!DeadConnectionNoticed'
    BY <1>1, <1>4, <2>1 DEF SimpleInv, Simple!DeadConnectionNoticed
  <2> QED
    BY <2>3, <2>4, <2>5 DEF SimpleInv
<1>6. CASE held = 0
  <2>1. /\ sending' = [message |-> calls + 1, to |-> Len(connections) + 1, spawned |-> TRUE]
        /\ connections' = Append(connections, Simple!NewConnection)
    BY <1>6 DEF Simple!Send, Simple!Spawn
  <2>2. sending'.message = calls + 1 /\ sending'.to = Len(connections) + 1 /\ sending'.spawned
    BY <2>1
  <2>3. /\ connections' \in Seq(Simple!Connection) /\ Len(connections') = Len(connections) + 1
        /\ DOMAIN connections' = 1 .. (Len(connections) + 1)
        /\ connections'[Len(connections) + 1].phase = "dialing"
    BY <1>2, <2>1, Spawned
  <2>4. Simple!TypeOK'
    <3>1. sending' \in [message : 0 .. MaxCalls, to : 0 .. Len(connections'), spawned : BOOLEAN]
      BY <1>2, <1>3, <2>1, <2>3
    <3> QED
      BY <1>1, <1>2, <1>3, <1>6, <2>3, <3>1 DEF Simple!TypeOK
  <2>5. CallPlaced' /\ NewNoticed'
    BY <1>2, <1>3, <2>2, <2>3 DEF CallPlaced, NewNoticed
  <2>6. Simple!DeadConnectionNoticed'
    BY <1>1, <1>6 DEF Simple!DeadConnectionNoticed
  <2> QED
    BY <2>4, <2>5, <2>6 DEF SimpleInv
<1> QED
  BY <1>5, <1>6

LEMMA PutInChannelKeeps ==
  ASSUME SimpleInv, Simple!PutInChannel
  PROVE  SimpleInv'
<1>1. /\ sending # Simple!NoCall /\ held' = sending.to /\ sending' = Simple!NoCall
      /\ connections' = [connections EXCEPT ![sending.to].receiver = Append(@, sending.message)]
      /\ calls' = calls /\ refused' = refused /\ written' = written
  BY DEF Simple!PutInChannel
<1>2. PICK i, m : i = sending.to /\ m = sending.message
  OBVIOUS
<1>3. /\ i \in DOMAIN connections /\ m \in 1 .. MaxCalls
      /\ ~sending.spawned => i = held
  BY <1>1, <1>2 DEF SimpleInv, CallPlaced
<1>4. /\ connections \in Seq(Simple!Connection) /\ DOMAIN connections = 1 .. Len(connections)
      /\ Len(connections) \in Nat
  BY DEF SimpleInv, Simple!TypeOK
<1>5. PICK c \in Simple!Connection : c = connections[i] /\ c.receiver \in Seq(1 .. MaxCalls)
  BY <1>3, ConnectionTypes DEF SimpleInv
<1>6. PICK d : d = [c EXCEPT !.receiver = Append(c.receiver, m)]
  OBVIOUS
<1>7. d \in Simple!Connection /\ d.phase = c.phase /\ d.errCh = c.errCh
  <2>1. Append(c.receiver, m) \in Seq(1 .. MaxCalls)
    BY <1>3, <1>5, Appended
  <2> QED
    BY <1>5, <1>6, <2>1 DEF Simple!Connection
<1>8. connections' = [connections EXCEPT ![i] = d]
  BY <1>1, <1>2, <1>5, <1>6
<1>9. /\ connections' \in Seq(Simple!Connection) /\ Len(connections') = Len(connections)
      /\ connections'[i] = d
  BY <1>3, <1>4, <1>7, <1>8
<1>10. Simple!TypeOK'
  <2>1. Simple!NoCall \in [message : 0 .. MaxCalls, to : 0 .. Len(connections), spawned : BOOLEAN]
    BY <1>4, SimpleSenderAssumption DEF Simple!NoCall
  <2>2. i \in 0 .. Len(connections)
    BY <1>3, <1>4
  <2> QED
    BY <1>1, <1>2, <1>9, <2>1, <2>2 DEF SimpleInv, Simple!TypeOK
<1>11. CallPlaced' /\ NewNoticed'
  BY <1>1 DEF CallPlaced, NewNoticed
<1>12. Simple!DeadConnectionNoticed'
  <2>1. SUFFICES ASSUME refused = {}, d.phase = "ended"
                 PROVE  d.errCh
    BY <1>1, <1>2, <1>9 DEF Simple!DeadConnectionNoticed
  <2>2. CASE sending.spawned
    BY <1>1, <1>2, <1>5, <1>7, <2>1, <2>2 DEF SimpleInv, NewNoticed
  <2>3. CASE ~sending.spawned
    <3>1. i = held /\ held # 0
      BY <1>3, <1>4, <2>3
    <3> QED
      BY <1>5, <1>7, <2>1, <2>3, <3>1 DEF SimpleInv, Simple!DeadConnectionNoticed
  <2> QED
    BY <2>2, <2>3
<1> QED
  BY <1>10, <1>11, <1>12 DEF SimpleInv

LEMMA ReadErrorKeeps ==
  ASSUME SimpleInv, Simple!ReadError
  PROVE  SimpleInv'
<1>1. sending # Simple!NoCall /\ calls' = calls /\ held' = held /\ written' = written
  BY DEF Simple!ReadError
<1>2. PICK i, m : i = sending.to /\ m = sending.message
  OBVIOUS
<1>3. i \in DOMAIN connections /\ m \in 1 .. MaxCalls
  BY <1>1, <1>2 DEF SimpleInv, CallPlaced
<1>4. /\ connections \in Seq(Simple!Connection) /\ DOMAIN connections = 1 .. Len(connections)
      /\ Len(connections) \in Nat /\ held \in 0 .. Len(connections)
      /\ calls \in 0 .. MaxCalls /\ refused \subseteq 1 .. MaxCalls
      /\ written \subseteq 1 .. MaxCalls
  BY DEF SimpleInv, Simple!TypeOK
<1>5. PICK c \in Simple!Connection : c = connections[i]
  BY <1>3, ConnectionTypes DEF SimpleInv
<1>6. PICK drained \in Seq(Simple!Connection) :
        /\ drained = [connections EXCEPT ![i].errCh = FALSE]
        /\ Len(drained) = Len(connections)
  <2>1. PICK d : d = [c EXCEPT !.errCh = FALSE]
    OBVIOUS
  <2>2. d \in Simple!Connection
    BY <1>5, <2>1 DEF Simple!Connection
  <2>3. PICK drained : drained = [connections EXCEPT ![i] = d]
    OBVIOUS
  <2>4. drained \in Seq(Simple!Connection) /\ Len(drained) = Len(connections)
    BY <1>3, <1>4, <2>2, <2>3
  <2>5. drained = [connections EXCEPT ![i].errCh = FALSE]
    BY <1>5, <2>1, <2>3
  <2> QED
    BY <2>4, <2>5
<1>7. CASE /\ ~sending.spawned /\ Simple!Spawn(sending.message)
           /\ connections' = Append(drained, Simple!NewConnection)
           /\ refused' = refused
  <2>1. sending' = [message |-> m, to |-> Len(connections) + 1, spawned |-> TRUE]
    BY <1>2, <1>7 DEF Simple!Spawn
  <2>2. sending'.message = m /\ sending'.to = Len(connections) + 1 /\ sending'.spawned
    BY <2>1
  <2>3. /\ connections' \in Seq(Simple!Connection) /\ Len(connections') = Len(connections) + 1
        /\ DOMAIN connections' = 1 .. (Len(connections) + 1)
        /\ connections'[Len(connections) + 1].phase = "dialing"
    BY <1>6, <1>7, Spawned
  <2>4. Simple!TypeOK'
    <3>1. sending' \in [message : 0 .. MaxCalls, to : 0 .. Len(connections'), spawned : BOOLEAN]
      BY <1>3, <1>4, <2>1, <2>3
    <3> QED
      BY <1>1, <1>4, <1>7, <2>3, <3>1 DEF Simple!TypeOK
  <2>5. CallPlaced' /\ NewNoticed'
    BY <1>3, <1>4, <2>2, <2>3 DEF CallPlaced, NewNoticed
  <2>6. Simple!DeadConnectionNoticed'
    BY <2>2 DEF Simple!DeadConnectionNoticed
  <2> QED
    BY <2>4, <2>5, <2>6 DEF SimpleInv
<1>8. CASE /\ sending.spawned /\ sending' = Simple!NoCall
           /\ refused' = refused \cup {sending.message} /\ connections' = drained
  <2>1. Simple!NoCall \in [message : 0 .. MaxCalls, to : 0 .. Len(connections), spawned : BOOLEAN]
    BY <1>4, SimpleSenderAssumption DEF Simple!NoCall
  <2>2. Simple!TypeOK'
    BY <1>1, <1>2, <1>3, <1>4, <1>6, <1>8, <2>1 DEF Simple!TypeOK
  <2>3. refused' # {}
    BY <1>8
  <2>4. CallPlaced' /\ NewNoticed' /\ Simple!DeadConnectionNoticed'
    BY <1>8, <2>3 DEF CallPlaced, NewNoticed, Simple!DeadConnectionNoticed
  <2> QED
    BY <2>2, <2>4 DEF SimpleInv
<1> QED
  BY <1>2, <1>6, <1>7, <1>8 DEF Simple!ReadError

LEMMA SimpleKeeps ==
  ASSUME SimpleInv, [Simple!Next]_(Simple!vars)
  PROVE  SimpleInv'
<1>1. CASE UNCHANGED Simple!vars
  <2>1. /\ calls' = calls /\ sending' = sending /\ connections' = connections
        /\ held' = held /\ refused' = refused /\ written' = written
    BY <1>1 DEF Simple!vars
  <2> QED
    BY <2>1 DEF SimpleInv, Simple!TypeOK, CallPlaced, NewNoticed, Simple!DeadConnectionNoticed
<1> QED
  BY <1>1, SimpleSendKeeps, PutInChannelKeeps, ReadErrorKeeps, RunKeeps DEF Simple!Next
-----------------------------------------------------------------------------
(* Both senders.                                                             *)

\* A behaviour of the senders is one of each.
LEMMA SenderSteps == NetworkNext => [Next]_vars /\ [Simple!Next]_(Simple!vars)
BY DEF NetworkNext, Simple!vars, simpleVars

LEMMA BothSenders == NetworkSpec => Spec /\ []SimpleInv
<1>1. NetworkInit => Init /\ SimpleInv
  BY SimpleStarts DEF NetworkInit
<1>2. [NetworkNext]_bothVars => [Next]_vars /\ [Simple!Next]_(Simple!vars)
  BY SenderSteps DEF bothVars, Simple!vars, simpleVars
<1>3. SimpleInv /\ [Simple!Next]_(Simple!vars) => SimpleInv'
  BY SimpleKeeps
<1> QED
  BY <1>1, <1>2, <1>3, PTL DEF NetworkSpec, Spec

\* While Send has returned no error, a connection of the map that ended is noticed: its
\* error waits for the next call, or the call that read it is about to replace it
\* (SimpleSender.Send, connection.run).
THEOREM ErrorsNoticed == NetworkSpec => []DeadConnectionNoticed
BY BothSenders, PTL DEF SimpleInv, DeadConnectionNoticed
=============================================================================
