----------------------------- MODULE StoreProofs -----------------------------
(***************************************************************************)
(* Proofs about the key-value store, for any number of callers, keys and     *)
(* values and any capacity of its channel.                                   *)
(***************************************************************************)
EXTENDS Store, BasicLemmas

Asking == {"read", "notifyRead"}

\* What the record of a call says of it.
AskedTyped ==
  \A c \in DOMAIN asked :
    /\ asked[c].t \in Asking
    /\ asked[c].key \in Key

\* A call is sent its response after its command is served, not before.
CommandsAsked ==
  \A i \in DOMAIN channel : channel[i].t \in Asking =>
    /\ channel[i].call \in DOMAIN asked
    /\ asked[channel[i].call].t = channel[i].t
    /\ asked[channel[i].call].key = channel[i].key
    /\ response[channel[i].call] = <<>>

\* A call has one command.
CommandsOnce ==
  \A i, j \in DOMAIN channel :
    /\ channel[i].t \in Asking
    /\ channel[j].t \in Asking
    /\ channel[i].call = channel[j].call
    => i = j

\* An obligation is of a call that waits, and whose command has been served.
ObligationsAsked ==
  \A k \in Key : \A c \in Range(obligations[k]) :
    /\ c \in DOMAIN asked
    /\ asked[c].t = "notifyRead"
    /\ asked[c].key = k
    /\ response[c] = <<>>
    /\ \A i \in DOMAIN channel : channel[i].t \in Asking => channel[i].call # c

\* Only calls that were made are answered.
ResponsesAsked == \A c \in Call : response[c] # <<>> => c \in DOMAIN asked

\* v is what key k holds once the commands before place n are served.
Holds(n, k, v) ==
  \/ /\ v = db[k]
     /\ \A j \in 1 .. (n - 1) : ~ (channel[j].t = "write" /\ channel[j].key = k)
  \/ \E j \in 1 .. (n - 1) :
       /\ channel[j].t = "write" /\ channel[j].key = k /\ channel[j].value = v
       /\ \A i \in (j + 1) .. (n - 1) : ~ (channel[i].t = "write" /\ channel[i].key = k)

\* A read on the channel will find what was the latest value when it was sent.
ReadsInOrder ==
  \A n \in DOMAIN channel :
    channel[n].t = "read" /\ channel[n].key \notin FaultyKey
      => Holds(n, channel[n].key, asked[channel[n].call].latest)

Inv ==
  /\ TypeOK
  /\ AskedTyped
  /\ CommandsAsked
  /\ CommandsOnce
  /\ ObligationsAsked
  /\ ResponsesAsked
  /\ ResponsesFit
  /\ NoLostWakeup
  /\ ReadsInOrder
  /\ ReadsLatestWrite
-----------------------------------------------------------------------------
LEMMA CommandParts ==
  ASSUME NEW c \in Command
  PROVE  /\ c.t \in {"write", "read", "notifyRead", "close"}
         /\ c.t = "write" => c.key \in Key /\ c.value \in Value
         /\ c.t \in Asking => c.key \in Key /\ c.call \in Call
BY DEF Command, Asking

LEMMA ChannelParts ==
  ASSUME TypeOK, NEW i \in DOMAIN channel
  PROVE  channel[i] \in Command
BY ElementOfSeq DEF TypeOK

\* A read that is sent now finds the value that the writes before it leave.
LEMMA LatestHolds ==
  ASSUME TypeOK, NEW k \in Key
  PROVE  Holds(Len(channel) + 1, k, Latest(k))
<1> DEFINE ws == {i \in DOMAIN channel : channel[i].t = "write" /\ channel[i].key = k}
<1>1. DOMAIN channel = 1 .. Len(channel) /\ Len(channel) \in Nat
  BY DEF TypeOK
<1>2. CASE ws = {}
  BY <1>1, <1>2 DEF Holds, Latest
<1>3. CASE ws # {}
  <2>1. IsFiniteSet(1 .. Len(channel))
    BY <1>1, FS_Interval
  <2>2. ws \subseteq Int /\ IsFiniteSet(ws)
    BY <1>1, <2>1, FS_Subset
  <2>3. \E x \in ws : \A y \in ws : y <= x
    <3> HIDE DEF ws
    <3> QED
      BY <1>3, <2>2, GreatestElement
  <2>4. Max(ws) \in ws /\ \A y \in ws : y <= Max(ws)
    BY <2>2, <2>3 DEF Max
  <2>5. Latest(k) = channel[Max(ws)].value
    BY <1>3 DEF Latest
  <2> DEFINE m == Max(ws)
  <2>6. m \in 1 .. Len(channel) /\ channel[m].t = "write" /\ channel[m].key = k
    BY <1>1, <2>4
  <2>7. ASSUME NEW i \in (m + 1) .. Len(channel)
        PROVE  ~ (channel[i].t = "write" /\ channel[i].key = k)
    <3>1. i \in DOMAIN channel /\ i > m
      BY <1>1, <2>6
    <3>2. i \notin ws
      <4> \A y \in ws : y <= m
        BY <2>4
      <4> HIDE DEF m, ws
      <4> QED
        BY <2>6, <3>1
    <3> QED
      BY <3>1, <3>2
  <2>8. Len(channel) + 1 - 1 = Len(channel)
    BY <1>1
  <2> HIDE DEF m, ws
  <2> QED
    BY <2>5, <2>6, <2>7, <2>8 DEF Holds, m
<1> QED
  BY <1>2, <1>3

\* What a command sent now leaves of the order before it.
LEMMA SentInOrder ==
  ASSUME TypeOK, NEW c \in Command, channel' = Append(channel, c), db' = db,
         NEW n \in 1 .. (Len(channel) + 1), NEW k \in Key, NEW v,
         Holds(n, k, v)
  PROVE  Holds(n, k, v)'
<1>1. /\ Len(channel) \in Nat
      /\ \A i \in 1 .. Len(channel) : channel'[i] = channel[i]
  BY AppendPlaces DEF TypeOK
<1>2. \A i \in 1 .. (n - 1) : i \in 1 .. Len(channel)
  BY <1>1
<1>3. \A j \in 1 .. (n - 1) : \A i \in (j + 1) .. (n - 1) : i \in 1 .. Len(channel)
  BY <1>1
<1> QED
  BY <1>1, <1>2, <1>3 DEF Holds

\* What serving the first command leaves of the order after it.
LEMMA ServedInOrder ==
  ASSUME TypeOK, channel # <<>>, channel' = Tail(channel),
         NEW k \in Key, NEW v, NEW n \in DOMAIN channel',
         Head(channel).t = "write" /\ Head(channel).key = k
           => db'[k] = Head(channel).value,
         ~ (Head(channel).t = "write" /\ Head(channel).key = k) => db'[k] = db[k],
         Holds(n + 1, k, v)
  PROVE  Holds(n, k, v)'
<1>1. /\ DOMAIN channel' = 1 .. (Len(channel) - 1)
      /\ \A i \in DOMAIN channel' : i + 1 \in DOMAIN channel /\ channel'[i] = channel[i + 1]
      /\ 1 \in DOMAIN channel /\ Head(channel) = channel[1]
      /\ Len(channel) \in Nat
  BY TailPlaces DEF TypeOK
<1>2. \A i \in 1 .. (n - 1) : i \in DOMAIN channel' /\ i + 1 \in 1 .. n /\ channel'[i] = channel[i + 1]
  BY <1>1
<1>3. n + 1 - 1 = n /\ n \in Nat /\ 1 \in 1 .. n
  BY <1>1
<1>6. \/ /\ v = db[k]
         /\ \A j \in 1 .. n : ~ (channel[j].t = "write" /\ channel[j].key = k)
      \/ \E j \in 1 .. n :
           /\ channel[j].t = "write" /\ channel[j].key = k /\ channel[j].value = v
           /\ \A i \in (j + 1) .. n : ~ (channel[i].t = "write" /\ channel[i].key = k)
  <2> DEFINE p == n + 1
  <2>1. Holds(p, k, v) /\ p - 1 = n
    BY <1>3
  <2> HIDE DEF p
  <2> QED
    BY <2>1 DEF Holds
<1>4. CASE /\ v = db[k]
           /\ \A j \in 1 .. n : ~ (channel[j].t = "write" /\ channel[j].key = k)
  <2>1. v = db'[k]
    BY <1>1, <1>3, <1>4
  <2>2. \A j \in 1 .. (n - 1) : ~ (channel'[j].t = "write" /\ channel'[j].key = k)
    BY <1>2, <1>4
  <2> QED
    BY <2>1, <2>2 DEF Holds
<1>5. ASSUME NEW j \in 1 .. n,
             channel[j].t = "write" /\ channel[j].key = k /\ channel[j].value = v,
             \A i \in (j + 1) .. n : ~ (channel[i].t = "write" /\ channel[i].key = k)
      PROVE  Holds(n, k, v)'
  <2>1. CASE j = 1
    <3>1. v = db'[k]
      BY <1>1, <1>5, <2>1
    <3>2. \A i \in 1 .. (n - 1) : i + 1 \in (j + 1) .. n
      BY <1>3, <2>1
    <3>3. \A i \in 1 .. (n - 1) : ~ (channel'[i].t = "write" /\ channel'[i].key = k)
      BY <1>2, <1>5, <3>2
    <3> QED
      BY <3>1, <3>3 DEF Holds
  <2>2. CASE j # 1
    <3>1. j - 1 \in 1 .. (n - 1) /\ (j - 1) + 1 = j
      BY <1>3, <2>2
    <3>2. channel'[j - 1] = channel[j]
      BY <1>2, <3>1
    <3>3. \A i \in ((j - 1) + 1) .. (n - 1) : i \in 1 .. (n - 1) /\ i + 1 \in (j + 1) .. n
      BY <1>3, <3>1
    <3>4. \A i \in ((j - 1) + 1) .. (n - 1) : ~ (channel'[i].t = "write" /\ channel'[i].key = k)
      BY <1>2, <1>5, <3>3
    <3> QED
      BY <1>5, <3>1, <3>2, <3>4 DEF Holds
  <2> QED
    BY <2>1, <2>2
<1> QED
  BY <1>4, <1>5, <1>6

Responses == Value \cup {NoValue, Error}

\* A response is sent to those who are answered and to no other.
LEMMA Answered ==
  ASSUME TypeOK, NEW calls, NEW value \in Responses,
         \A c \in calls : response[c] = <<>>
  PROVE  /\ Answer(response, calls, value) \in [Call -> Seq(Responses)]
         /\ \A c \in Call \cap calls : Answer(response, calls, value)[c] = <<value>>
         /\ \A c \in Call \ calls : Answer(response, calls, value)[c] = response[c]
<1>1. response \in [Call -> Seq(Responses)]
  BY DEF TypeOK, Responses
<1>2. /\ <<value>> \in Seq(Responses)
      /\ Append(<<>>, value) = <<value>>
  OBVIOUS
<1> QED
  BY <1>1, <1>2 DEF Answer

LEMMA OneAnswered ==
  ASSUME TypeOK, NEW c \in Call, NEW value \in Responses, response[c] = <<>>
  PROVE  /\ Answer(response, {c}, value) \in [Call -> Seq(Responses)]
         /\ Answer(response, {c}, value)[c] = <<value>>
         /\ \A x \in Call : x # c => Answer(response, {c}, value)[x] = response[x]
BY Answered

LEMMA OneResponse ==
  ASSUME NEW value
  PROVE  /\ <<value>> # <<>> /\ <<value>>[1] = value
         /\ \A r : r = <<value>> => Len(r) <= 1
<1>1. <<value>> # <<>> /\ Len(<<value>>) = 1 /\ <<value>>[1] = value
  OBVIOUS
<1>2. \A n : n = 1 => n <= 1
  OBVIOUS
<1> QED
  BY <1>1, <1>2

LEMMA InitHolds == Init => Inv
<1> SUFFICES ASSUME Init
             PROVE  Inv
  OBVIOUS
<1>1. channel = <<>> /\ DOMAIN channel = {} /\ DOMAIN asked = {}
  BY DEF Init
<1>2. /\ \A c \in Call : response[c] = <<>> /\ Len(response[c]) = 0
      /\ \A k \in Key : obligations[k] = <<>> /\ Range(obligations[k]) = {}
  BY RangeOfNone DEF Init
<1>3. TypeOK
  <2>1. channel \in Seq(Command) /\ Len(channel) <= Capacity
    BY StoreAssumption DEF Init
  <2>2. obligations \in [Key -> Seq(Call)] /\ response \in [Call -> Seq(Value \cup {NoValue, Error})]
    BY DEF Init
  <2> QED
    BY <1>1, <2>1, <2>2 DEF TypeOK, Init
<1>4. AskedTyped /\ CommandsAsked /\ CommandsOnce /\ ReadsInOrder
  BY <1>1 DEF AskedTyped, CommandsAsked, CommandsOnce, ReadsInOrder
<1>5. ObligationsAsked /\ ResponsesAsked /\ ResponsesFit
  BY <1>2 DEF ObligationsAsked, ResponsesAsked, ResponsesFit
<1>6. NoLostWakeup /\ ReadsLatestWrite
  BY <1>1 DEF NoLostWakeup, ReadsLatestWrite
<1> QED
  BY <1>3, <1>4, <1>5, <1>6 DEF Inv

\* A write, or the close, that is sent.
LEMMA SendKeeps ==
  ASSUME Inv, NEW c \in Command, c.t \notin Asking, Enqueue(c),
         UNCHANGED <<db, obligations, response, open, asked>>
  PROVE  Inv'
<1>1. /\ channel' = Append(channel, c) /\ Len(channel) < Capacity
      /\ UNCHANGED db /\ UNCHANGED obligations /\ UNCHANGED response
      /\ UNCHANGED open /\ UNCHANGED asked
  BY DEF Enqueue
<1>2. /\ DOMAIN channel = 1 .. Len(channel) /\ Len(channel) \in Nat
      /\ DOMAIN channel' = 1 .. (Len(channel) + 1)
      /\ \A i \in 1 .. Len(channel) : channel'[i] = channel[i]
      /\ channel'[Len(channel) + 1] = c
      /\ channel' \in Seq(Command) /\ Len(channel') = Len(channel) + 1
  BY <1>1, AppendPlaces, Appended DEF Inv, TypeOK
<1>3. /\ \A i \in DOMAIN channel' : channel'[i].t \in Asking
            => i \in DOMAIN channel /\ channel'[i] = channel[i]
      /\ \A i \in DOMAIN channel : i \in DOMAIN channel' /\ channel'[i] = channel[i]
  BY <1>2
<1>4. TypeOK'
  BY <1>1, <1>2, StoreAssumption DEF Inv, TypeOK
<1>5. AskedTyped' /\ ResponsesAsked' /\ ResponsesFit' /\ ReadsLatestWrite'
  BY <1>1 DEF Inv, AskedTyped, ResponsesAsked, ResponsesFit, ReadsLatestWrite
<1>6. CommandsAsked'
  BY <1>1, <1>3 DEF Inv, CommandsAsked
<1>7. CommandsOnce'
  BY <1>3 DEF Inv, CommandsOnce
<1>8. ObligationsAsked'
  BY <1>1, <1>3 DEF Inv, ObligationsAsked
<1>9. NoLostWakeup'
  BY <1>1, <1>3 DEF Inv, NoLostWakeup
<1>10. ReadsInOrder'
  <2> SUFFICES ASSUME NEW n \in DOMAIN channel', channel'[n].t = "read",
                      channel'[n].key \notin FaultyKey
               PROVE  Holds(n, channel[n].key, asked[channel[n].call].latest)'
    BY DEF ReadsInOrder
  <2>1. n \in DOMAIN channel /\ channel'[n] = channel[n]
    BY <1>3 DEF Asking
  <2>2. channel[n].key \in Key /\ Holds(n, channel[n].key, asked[channel[n].call].latest)
    BY <2>1, ChannelParts, CommandParts DEF Inv, ReadsInOrder, Asking
  <2>3. PICK k \in Key, v \in {asked[channel[n].call].latest} :
          /\ k = channel[n].key /\ v = asked[channel[n].call].latest
          /\ Holds(n, k, v)
    BY <2>2
  <2>4. n \in 1 .. (Len(channel) + 1) /\ TypeOK
    BY <1>2 DEF Inv
  <2>5. Holds(n, k, v)'
    BY <1>1, <2>3, <2>4, SentInOrder
  <2>6. k = channel'[n].key /\ v = asked'[channel'[n].call].latest
    BY <1>1, <2>1, <2>3
  <2> QED
    BY <2>5, <2>6
<1> QED
  BY <1>4, <1>5, <1>6, <1>7, <1>8, <1>9, <1>10 DEF Inv

LEMMA AskKeeps ==
  ASSUME Inv, NEW t \in Asking, NEW c \in Call, NEW k \in Key, Ask(t, c, k)
  PROVE  Inv'
<1> DEFINE cmd == [t |-> t, key |-> k, call |-> c]
<1>0. cmd \in Command /\ cmd.t = t /\ cmd.key = k /\ cmd.call = c
  BY DEF Command, Asking
<1>v. PICK v : v = Latest(k)
  OBVIOUS
<1>1. /\ channel' = Append(channel, cmd) /\ Len(channel) < Capacity
      /\ UNCHANGED db /\ UNCHANGED obligations /\ UNCHANGED response /\ UNCHANGED open
      /\ c \notin DOMAIN asked
      /\ DOMAIN asked' = DOMAIN asked \cup {c}
      /\ \A x \in DOMAIN asked : asked'[x] = asked[x]
      /\ asked'[c] = [t |-> t, key |-> k, latest |-> v]
  BY <1>v DEF Ask, Enqueue
<1> HIDE DEF cmd
<1>2. /\ DOMAIN channel = 1 .. Len(channel) /\ Len(channel) \in Nat
      /\ DOMAIN channel' = 1 .. (Len(channel) + 1)
      /\ \A i \in 1 .. Len(channel) : channel'[i] = channel[i]
      /\ channel'[Len(channel) + 1] = cmd
      /\ channel' \in Seq(Command) /\ Len(channel') = Len(channel) + 1
  BY <1>0, <1>1, AppendPlaces, Appended DEF Inv, TypeOK
<1>3. /\ \A i \in DOMAIN channel' :
           \/ i \in DOMAIN channel /\ channel'[i] = channel[i]
           \/ i = Len(channel) + 1 /\ channel'[i] = cmd
      /\ \A i \in DOMAIN channel : i \in DOMAIN channel' /\ channel'[i] = channel[i]
  BY <1>2
<1>4. /\ \A i \in DOMAIN channel : channel[i].t \in Asking => channel[i].call # c
      /\ \A x \in Key : c \notin Range(obligations[x])
      /\ response[c] = <<>>
  BY <1>1 DEF Inv, CommandsAsked, ObligationsAsked, ResponsesAsked
<1>5. TypeOK'
  BY <1>1, <1>2, StoreAssumption DEF Inv, TypeOK
<1>6. AskedTyped'
  BY <1>1 DEF Inv, AskedTyped
<1>7. CommandsAsked'
  BY <1>0, <1>1, <1>3, <1>4 DEF Inv, CommandsAsked
<1>8. CommandsOnce'
  BY <1>0, <1>1, <1>3, <1>4 DEF Inv, CommandsOnce
<1>9. ObligationsAsked'
  BY <1>0, <1>1, <1>3, <1>4 DEF Inv, ObligationsAsked
<1>10. ResponsesAsked' /\ ResponsesFit'
  BY <1>1 DEF Inv, ResponsesAsked, ResponsesFit
<1>11. NoLostWakeup'
  <2> SUFFICES ASSUME NEW x \in DOMAIN asked', asked'[x].t = "notifyRead", response'[x] = <<>>,
                      \A i \in DOMAIN channel' :
                        channel'[i].t = "notifyRead" => channel'[i].call # x
               PROVE  /\ x \in Range(obligations'[asked'[x].key])
                      /\ asked'[x].key \notin FaultyKey => db'[asked'[x].key] = NoValue
    BY DEF NoLostWakeup
  <2>1. x # c
    <3>1. Len(channel) + 1 \in DOMAIN channel'
      BY <1>2
    <3> QED
      BY <1>0, <1>1, <1>2, <3>1
  <2> QED
    BY <1>1, <1>3, <2>1 DEF Inv, NoLostWakeup
<1>12. ReadsInOrder'
  <2> SUFFICES ASSUME NEW n \in DOMAIN channel', channel'[n].t = "read",
                      channel'[n].key \notin FaultyKey
               PROVE  Holds(n, channel[n].key, asked[channel[n].call].latest)'
    BY DEF ReadsInOrder
  <2>0. n \in 1 .. (Len(channel) + 1) /\ TypeOK
    BY <1>2 DEF Inv
  <2>1. CASE n \in DOMAIN channel /\ channel'[n] = channel[n]
    <3>1. /\ channel[n].key \in Key /\ channel[n].call \in DOMAIN asked
          /\ Holds(n, channel[n].key, asked[channel[n].call].latest)
      BY <2>1, ChannelParts, CommandParts DEF Inv, CommandsAsked, ReadsInOrder, Asking
    <3>2. PICK y \in Key, w \in {asked[channel[n].call].latest} :
            /\ y = channel[n].key /\ w = asked[channel[n].call].latest
            /\ Holds(n, y, w)
      BY <3>1
    <3>3. Holds(n, y, w)'
      BY <1>0, <1>1, <2>0, <3>2, SentInOrder
    <3>4. y = channel'[n].key /\ w = asked'[channel'[n].call].latest
      BY <1>1, <2>1, <3>1, <3>2
    <3> QED
      BY <3>3, <3>4
  <2>2. CASE n = Len(channel) + 1 /\ channel'[n] = cmd
    <3>1. Holds(n, k, v)
      BY <1>v, <2>0, <2>2, LatestHolds
    <3>2. Holds(n, k, v)'
      BY <1>0, <1>1, <2>0, <3>1, SentInOrder
    <3>3. k = channel'[n].key /\ v = asked'[channel'[n].call].latest
      BY <1>0, <1>1, <2>2
    <3> QED
      BY <3>2, <3>3
  <2> QED
    BY <1>3, <2>1, <2>2
<1>13. ReadsLatestWrite'
  BY <1>1, <1>4 DEF Inv, ReadsLatestWrite
<1> QED
  BY <1>5, <1>6, <1>7, <1>8, <1>9, <1>10, <1>11, <1>12, <1>13 DEF Inv
-----------------------------------------------------------------------------
\* What the channel holds after its first command is taken.
LEMMA ChannelServed ==
  ASSUME TypeOK, channel # <<>>, channel' = Tail(channel)
  PROVE  /\ channel' \in Seq(Command) /\ Len(channel') <= Capacity
         /\ Head(channel) \in Command
         /\ 1 \in DOMAIN channel /\ Head(channel) = channel[1]
         /\ \A i \in DOMAIN channel' :
              /\ i \in Nat \ {0}
              /\ i + 1 \in DOMAIN channel /\ i + 1 # 1
              /\ channel'[i] = channel[i + 1]
         /\ \A i \in DOMAIN channel : i # 1 =>
              i - 1 \in DOMAIN channel' /\ channel'[i - 1] = channel[i]
<1>1. /\ channel \in Seq(Command) /\ Len(channel) \in Nat /\ Len(channel) <= Capacity
      /\ DOMAIN channel = 1 .. Len(channel) /\ Capacity \in Nat
  BY StoreAssumption DEF TypeOK
<1>2. /\ channel' \in Seq(Command) /\ Len(channel') = Len(channel) - 1
      /\ Head(channel) \in Command
  BY <1>1, RangeHeadTail
<1>3. /\ DOMAIN channel' = 1 .. (Len(channel) - 1)
      /\ \A i \in DOMAIN channel' : i + 1 \in DOMAIN channel /\ channel'[i] = channel[i + 1]
      /\ 1 \in DOMAIN channel /\ Head(channel) = channel[1]
  BY <1>1, TailPlaces
<1>4. \A i \in DOMAIN channel' : i \in Nat \ {0} /\ i + 1 # 1
  BY <1>1, <1>3
<1>5. \A i \in DOMAIN channel : i # 1 => i - 1 \in DOMAIN channel' /\ (i - 1) + 1 = i
  BY <1>1, <1>3
<1> QED
  BY <1>1, <1>2, <1>3, <1>4, <1>5

\* The order of the reads that stay on the channel.
LEMMA OrderServed ==
  ASSUME Inv, channel # <<>>, channel' = Tail(channel), asked' = asked,
         \A k \in Key \ FaultyKey :
           /\ Head(channel).t = "write" /\ Head(channel).key = k
                => db'[k] = Head(channel).value
           /\ ~ (Head(channel).t = "write" /\ Head(channel).key = k) => db'[k] = db[k]
  PROVE  ReadsInOrder'
<1> SUFFICES ASSUME NEW n \in DOMAIN channel', channel'[n].t = "read",
                    channel'[n].key \notin FaultyKey
             PROVE  Holds(n, channel[n].key, asked[channel[n].call].latest)'
  BY DEF ReadsInOrder
<1>1. TypeOK
  BY DEF Inv
<1>2. n + 1 \in DOMAIN channel /\ channel'[n] = channel[n + 1] /\ n \in Nat
  BY <1>1, ChannelServed
<1>3. /\ channel[n + 1].key \in Key
      /\ Holds(n + 1, channel[n + 1].key, asked[channel[n + 1].call].latest)
  BY <1>2, ChannelParts, CommandParts DEF Inv, ReadsInOrder, Asking
<1>4. PICK y \in Key, w \in {asked[channel[n + 1].call].latest} :
        /\ y = channel[n + 1].key /\ w = asked[channel[n + 1].call].latest
        /\ Holds(n + 1, y, w)
  BY <1>3
<1>5. y \in Key \ FaultyKey
  BY <1>2, <1>4
<1>6. Holds(n, y, w)'
  BY <1>1, <1>4, <1>5, ServedInOrder
<1>7. y = channel'[n].key /\ w = asked'[channel'[n].call].latest
  BY <1>2, <1>4
<1> QED
  BY <1>6, <1>7

LEMMA WriteServedKeeps ==
  ASSUME Inv, ServeWrite
  PROVE  Inv'
<1>1. PICK c \in Command : c = Head(channel) /\ c.t = "write" /\ c.key \in Key /\ c.value \in Value
  BY RangeHeadTail, CommandParts DEF ServeWrite, Serve, Inv, TypeOK
<1> DEFINE k == c.key
           owed == Range(obligations[k])
<1>2. PICK v \in Responses : v = c.value
  BY <1>1 DEF Responses
<1>3. /\ channel # <<>> /\ channel' = Tail(channel)
      /\ \/ db' = [db EXCEPT ![k] = v]
         \/ k \in FaultyKey /\ db' = db
      /\ response' = Answer(response, owed, v)
      /\ obligations' = [obligations EXCEPT ![k] = <<>>]
      /\ UNCHANGED open /\ UNCHANGED asked
  BY <1>1, <1>2 DEF ServeWrite, Serve
<1>4. TypeOK
  BY DEF Inv
<1>5. \A x \in owed : /\ x \in Call /\ response[x] = <<>> /\ x \in DOMAIN asked
                      /\ asked[x].t = "notifyRead" /\ asked[x].key = k
                      /\ \A i \in DOMAIN channel : channel[i].t \in Asking => channel[i].call # x
  BY <1>1 DEF Inv, TypeOK, ObligationsAsked
<1>6. /\ response' \in [Call -> Seq(Responses)]
      /\ \A x \in owed : response'[x] = <<v>>
      /\ \A x \in Call \ owed : response'[x] = response[x]
  <2> HIDE DEF owed
  <2> QED
    BY <1>3, <1>4, <1>5, Answered
<1>7. /\ obligations' \in [Key -> Seq(Call)]
      /\ Range(obligations'[k]) = {}
      /\ \A x \in Key : x # k => obligations'[x] = obligations[x]
  BY <1>1, <1>3, RangeOfNone DEF Inv, TypeOK
<1>8. /\ db' \in [Key -> Value \cup {NoValue}]
      /\ \A x \in Key : x # k => db'[x] = db[x]
      /\ k \notin FaultyKey => db'[k] = v
  BY <1>1, <1>2, <1>3 DEF Inv, TypeOK
<1>9. /\ channel' \in Seq(Command) /\ Len(channel') <= Capacity
      /\ 1 \in DOMAIN channel /\ c = channel[1]
      /\ \A i \in DOMAIN channel' :
           /\ i \in Nat \ {0}
           /\ i + 1 \in DOMAIN channel /\ i + 1 # 1
           /\ channel'[i] = channel[i + 1]
      /\ \A i \in DOMAIN channel : i # 1 =>
           i - 1 \in DOMAIN channel' /\ channel'[i - 1] = channel[i]
  BY <1>1, <1>3, <1>4, ChannelServed
<1> HIDE DEF owed
<1>10. TypeOK'
  BY <1>3, <1>6, <1>7, <1>8, <1>9 DEF Inv, TypeOK, Responses
<1>11. AskedTyped'
  BY <1>3 DEF Inv, AskedTyped
<1>12. CommandsAsked'
  <2> SUFFICES ASSUME NEW i \in DOMAIN channel', channel'[i].t \in Asking
               PROVE  /\ channel'[i].call \in DOMAIN asked'
                      /\ asked'[channel'[i].call].t = channel'[i].t
                      /\ asked'[channel'[i].call].key = channel'[i].key
                      /\ response'[channel'[i].call] = <<>>
    BY DEF CommandsAsked
  <2>1. i + 1 \in DOMAIN channel /\ channel'[i] = channel[i + 1]
    BY <1>9
  <2>2. channel[i + 1].call \in Call \ owed
    BY <1>4, <1>5, <2>1, ChannelParts, CommandParts
  <2> QED
    BY <1>3, <1>6, <2>1, <2>2 DEF Inv, CommandsAsked
<1>13. CommandsOnce'
  <2> SUFFICES ASSUME NEW i \in DOMAIN channel', NEW j \in DOMAIN channel',
                      channel'[i].t \in Asking, channel'[j].t \in Asking,
                      channel'[i].call = channel'[j].call
               PROVE  i = j
    BY DEF CommandsOnce
  <2>1. i + 1 = j + 1
    BY <1>9 DEF Inv, CommandsOnce
  <2> QED
    BY <1>9, <2>1
<1>14. ObligationsAsked'
  <2> SUFFICES ASSUME NEW y \in Key, NEW x \in Range(obligations'[y])
               PROVE  /\ x \in DOMAIN asked'
                      /\ asked'[x].t = "notifyRead"
                      /\ asked'[x].key = y
                      /\ response'[x] = <<>>
                      /\ \A i \in DOMAIN channel' : channel'[i].t \in Asking => channel'[i].call # x
    BY DEF ObligationsAsked
  <2>1. y # k /\ x \in Range(obligations[y])
    BY <1>7
  <2>2. /\ x \in DOMAIN asked /\ asked[x].t = "notifyRead" /\ asked[x].key = y
        /\ response[x] = <<>>
        /\ \A i \in DOMAIN channel : channel[i].t \in Asking => channel[i].call # x
    BY <2>1 DEF Inv, ObligationsAsked
  <2>3. x \in Call \ owed
    BY <1>4, <1>5, <2>1, <2>2 DEF TypeOK
  <2> QED
    BY <1>3, <1>6, <1>9, <2>2, <2>3
<1>15. ResponsesAsked'
  BY <1>3, <1>5, <1>6 DEF Inv, ResponsesAsked
<1>16. ResponsesFit'
  <2>1. \A x \in owed : Len(response'[x]) <= 1
    BY <1>6, OneResponse
  <2>2. \A x \in Call \ owed : Len(response'[x]) <= 1
    BY <1>6 DEF Inv, ResponsesFit
  <2> QED
    BY <2>1, <2>2 DEF ResponsesFit
<1>17. NoLostWakeup'
  <2> SUFFICES ASSUME NEW x \in DOMAIN asked', asked'[x].t = "notifyRead", response'[x] = <<>>,
                      \A i \in DOMAIN channel' :
                        channel'[i].t = "notifyRead" => channel'[i].call # x
               PROVE  /\ x \in Range(obligations'[asked'[x].key])
                      /\ asked'[x].key \notin FaultyKey => db'[asked'[x].key] = NoValue
    BY DEF NoLostWakeup
  <2>1. x \in Call \ owed /\ x \in DOMAIN asked
    BY <1>3, <1>4, <1>6, OneResponse DEF TypeOK
  <2>2. \A i \in DOMAIN channel : channel[i].t = "notifyRead" => channel[i].call # x
    BY <1>1, <1>9
  <2>3. /\ x \in Range(obligations[asked[x].key])
        /\ asked[x].key \notin FaultyKey => db[asked[x].key] = NoValue
    BY <1>3, <1>6, <2>1, <2>2 DEF Inv, NoLostWakeup
  <2>4. asked[x].key \in Key /\ asked[x].key # k
    BY <2>1, <2>3 DEF Inv, AskedTyped, owed
  <2> QED
    BY <1>3, <1>7, <1>8, <2>3, <2>4
<1>18. ReadsInOrder'
  BY <1>1, <1>2, <1>3, <1>8, OrderServed
<1>19. ReadsLatestWrite'
  <2>1. \A x \in DOMAIN asked : asked[x].t = "read" => response'[x] = response[x]
    BY <1>4, <1>5, <1>6 DEF TypeOK
  <2> QED
    BY <1>3, <2>1 DEF Inv, ReadsLatestWrite
<1> QED
  BY <1>10, <1>11, <1>12, <1>13, <1>14, <1>15, <1>16, <1>17, <1>18, <1>19 DEF Inv

\* A read, or a notifyRead of a key that is stored: the first command is answered.
LEMMA AnswerKeeps ==
  ASSUME Inv, channel # <<>>, channel' = Tail(channel),
         NEW c \in Command, c = Head(channel), c.t \in Asking,
         NEW v \in Get(c.key), response' = Answer(response, {c.call}, v),
         db' = db, obligations' = obligations, open' = open, asked' = asked
  PROVE  Inv'
<1>1. TypeOK
  BY DEF Inv
<1>2. c.key \in Key /\ c.call \in Call
  BY CommandParts
<1>3. /\ channel' \in Seq(Command) /\ Len(channel') <= Capacity
      /\ 1 \in DOMAIN channel /\ c = channel[1]
      /\ \A i \in DOMAIN channel' :
           /\ i \in Nat \ {0}
           /\ i + 1 \in DOMAIN channel /\ i + 1 # 1
           /\ channel'[i] = channel[i + 1]
      /\ \A i \in DOMAIN channel : i # 1 =>
           i - 1 \in DOMAIN channel' /\ channel'[i - 1] = channel[i]
  BY <1>1, ChannelServed
<1>4. /\ c.call \in DOMAIN asked /\ asked[c.call].t = c.t /\ asked[c.call].key = c.key
      /\ response[c.call] = <<>>
  BY <1>3 DEF Inv, CommandsAsked
<1>5. v \in Responses
  BY <1>1, <1>2 DEF Get, TypeOK, Responses
<1>6. /\ response' \in [Call -> Seq(Responses)]
      /\ response'[c.call] = <<v>>
      /\ \A x \in Call : x # c.call => response'[x] = response[x]
  BY <1>1, <1>2, <1>4, <1>5, OneAnswered
<1>7. \A i \in DOMAIN channel' : channel'[i].t \in Asking => channel'[i].call # c.call
  BY <1>3 DEF Inv, CommandsOnce
<1>8. TypeOK'
  BY <1>1, <1>3, <1>6 DEF TypeOK, Responses
<1>9. AskedTyped'
  BY DEF Inv, AskedTyped
<1>10. CommandsAsked'
  <2> SUFFICES ASSUME NEW i \in DOMAIN channel', channel'[i].t \in Asking
               PROVE  /\ channel'[i].call \in DOMAIN asked
                      /\ asked[channel'[i].call].t = channel'[i].t
                      /\ asked[channel'[i].call].key = channel'[i].key
                      /\ response'[channel'[i].call] = <<>>
    BY DEF CommandsAsked
  <2>1. i + 1 \in DOMAIN channel /\ channel'[i] = channel[i + 1]
    BY <1>3
  <2>2. channel'[i].call \in Call /\ channel'[i].call # c.call
    BY <1>1, <1>7, <2>1, ChannelParts, CommandParts
  <2> QED
    BY <1>6, <2>1, <2>2 DEF Inv, CommandsAsked
<1>11. CommandsOnce'
  BY <1>3 DEF Inv, CommandsOnce
<1>12. ObligationsAsked'
  <2> SUFFICES ASSUME NEW y \in Key, NEW x \in Range(obligations[y])
               PROVE  /\ x \in DOMAIN asked
                      /\ asked[x].t = "notifyRead"
                      /\ asked[x].key = y
                      /\ response'[x] = <<>>
                      /\ \A i \in DOMAIN channel' : channel'[i].t \in Asking => channel'[i].call # x
    BY DEF ObligationsAsked
  <2>1. /\ x \in DOMAIN asked /\ asked[x].t = "notifyRead" /\ asked[x].key = y
        /\ response[x] = <<>>
        /\ \A i \in DOMAIN channel : channel[i].t \in Asking => channel[i].call # x
    BY DEF Inv, ObligationsAsked
  <2>2. x \in Call /\ x # c.call
    BY <1>1, <1>3, <2>1 DEF TypeOK
  <2>3. response'[x] = <<>>
    BY <1>6, <2>1, <2>2
  <2>4. \A i \in DOMAIN channel' : channel'[i].t \in Asking => channel'[i].call # x
    BY <1>3, <2>1
  <2> QED
    BY <2>1, <2>3, <2>4
<1>13. ResponsesAsked'
  BY <1>4, <1>6 DEF Inv, ResponsesAsked
<1>14. ResponsesFit'
  <2>1. Len(response'[c.call]) <= 1
    BY <1>6, OneResponse
  <2>2. \A x \in Call : x # c.call => Len(response'[x]) <= 1
    BY <1>6 DEF Inv, ResponsesFit
  <2> QED
    BY <2>1, <2>2 DEF ResponsesFit
<1>15. NoLostWakeup'
  <2> SUFFICES ASSUME NEW x \in DOMAIN asked, asked[x].t = "notifyRead", response'[x] = <<>>,
                      \A i \in DOMAIN channel' :
                        channel'[i].t = "notifyRead" => channel'[i].call # x
               PROVE  /\ x \in Range(obligations[asked[x].key])
                      /\ asked[x].key \notin FaultyKey => db[asked[x].key] = NoValue
    BY DEF NoLostWakeup
  <2>1. x \in Call /\ x # c.call
    BY <1>1, <1>6, OneResponse DEF TypeOK
  <2>2. \A i \in DOMAIN channel : channel[i].t = "notifyRead" => channel[i].call # x
    BY <1>3, <2>1
  <2> QED
    BY <1>6, <2>1, <2>2 DEF Inv, NoLostWakeup
<1>16. ReadsInOrder'
  <2>1. c.t # "write"
    BY DEF Asking
  <2> QED
    BY <2>1, OrderServed
<1>17. ReadsLatestWrite'
  <2> SUFFICES ASSUME NEW x \in DOMAIN asked, asked[x].t = "read",
                      asked[x].key \notin FaultyKey, response'[x] # <<>>
               PROVE  response'[x][1] = asked[x].latest
    BY DEF ReadsLatestWrite
  <2>1. CASE x = c.call
    <3>1. c.t = "read" /\ c.key \notin FaultyKey
      BY <1>4, <2>1
    <3>2. Holds(1, c.key, asked[x].latest)
      BY <1>3, <2>1, <3>1 DEF Inv, ReadsInOrder
    <3>3. asked[x].latest = db[c.key]
      BY <3>2 DEF Holds
    <3>4. v = db[c.key]
      BY <3>1 DEF Get
    <3> QED
      BY <1>6, <2>1, <3>3, <3>4, OneResponse
  <2>2. CASE x # c.call
    BY <1>1, <1>6, <2>2 DEF Inv, TypeOK, ReadsLatestWrite
  <2> QED
    BY <2>1, <2>2
<1> QED
  BY <1>8, <1>9, <1>10, <1>11, <1>12, <1>13, <1>14, <1>15, <1>16, <1>17 DEF Inv

LEMMA ReadServedKeeps ==
  ASSUME Inv, ServeRead
  PROVE  Inv'
<1>1. PICK c \in Command : c = Head(channel)
  BY RangeHeadTail DEF ServeRead, Serve, Inv, TypeOK
<1>2. PICK v \in Get(c.key) : response' = Answer(response, {c.call}, v)
  BY <1>1 DEF ServeRead
<1>3. /\ channel # <<>> /\ channel' = Tail(channel) /\ c.t \in Asking
      /\ db' = db /\ obligations' = obligations /\ open' = open /\ asked' = asked
  BY <1>1 DEF ServeRead, Serve, Asking
<1> QED
  BY <1>1, <1>2, <1>3, AnswerKeeps

\* The key is not stored: the call becomes an obligation.
LEMMA MissKeeps ==
  ASSUME Inv, channel # <<>>, channel' = Tail(channel),
         NEW c \in Command, c = Head(channel), c.t = "notifyRead",
         db[c.key] = NoValue,
         obligations' = [obligations EXCEPT ![c.key] = Append(@, c.call)],
         db' = db, response' = response, open' = open, asked' = asked
  PROVE  Inv'
<1>1. TypeOK
  BY DEF Inv
<1>2. c.key \in Key /\ c.call \in Call /\ c.t \in Asking
  BY CommandParts DEF Asking
<1>3. /\ channel' \in Seq(Command) /\ Len(channel') <= Capacity
      /\ 1 \in DOMAIN channel /\ c = channel[1]
      /\ \A i \in DOMAIN channel' :
           /\ i \in Nat \ {0}
           /\ i + 1 \in DOMAIN channel /\ i + 1 # 1
           /\ channel'[i] = channel[i + 1]
      /\ \A i \in DOMAIN channel : i # 1 =>
           i - 1 \in DOMAIN channel' /\ channel'[i - 1] = channel[i]
  BY <1>1, ChannelServed
<1>4. /\ c.call \in DOMAIN asked /\ asked[c.call].t = c.t /\ asked[c.call].key = c.key
      /\ response[c.call] = <<>>
  BY <1>2, <1>3 DEF Inv, CommandsAsked
<1>5. /\ obligations' \in [Key -> Seq(Call)]
      /\ Range(obligations'[c.key]) = Range(obligations[c.key]) \cup {c.call}
      /\ \A x \in Key : x # c.key => obligations'[x] = obligations[x]
  <2>1. /\ Append(obligations[c.key], c.call) \in Seq(Call)
        /\ Range(Append(obligations[c.key], c.call)) = Range(obligations[c.key]) \cup {c.call}
    BY <1>1, <1>2, Appended DEF TypeOK
  <2> QED
    BY <1>1, <1>2, <2>1 DEF TypeOK
<1>6. \A i \in DOMAIN channel' : channel'[i].t \in Asking => channel'[i].call # c.call
  BY <1>2, <1>3 DEF Inv, CommandsOnce
<1>7. TypeOK'
  BY <1>1, <1>3, <1>5 DEF TypeOK
<1>8. AskedTyped' /\ ResponsesAsked' /\ ResponsesFit' /\ ReadsLatestWrite'
  BY DEF Inv, AskedTyped, ResponsesAsked, ResponsesFit, ReadsLatestWrite
<1>9. CommandsAsked'
  BY <1>3 DEF Inv, CommandsAsked
<1>10. CommandsOnce'
  <2> SUFFICES ASSUME NEW i \in DOMAIN channel', NEW j \in DOMAIN channel',
                      channel'[i].t \in Asking, channel'[j].t \in Asking,
                      channel'[i].call = channel'[j].call
               PROVE  i = j
    BY DEF CommandsOnce
  <2>1. i + 1 = j + 1
    BY <1>3 DEF Inv, CommandsOnce
  <2> QED
    BY <1>3, <2>1
<1>11. ObligationsAsked'
  <2> SUFFICES ASSUME NEW y \in Key, NEW x \in Range(obligations'[y])
               PROVE  /\ x \in DOMAIN asked
                      /\ asked[x].t = "notifyRead"
                      /\ asked[x].key = y
                      /\ response[x] = <<>>
                      /\ \A i \in DOMAIN channel' : channel'[i].t \in Asking => channel'[i].call # x
    BY DEF ObligationsAsked
  <2>1. CASE y = c.key /\ x = c.call
    BY <1>4, <1>6, <2>1
  <2>2. CASE x \in Range(obligations[y])
    BY <1>3, <2>2 DEF Inv, ObligationsAsked
  <2> QED
    BY <1>5, <2>1, <2>2
<1>12. NoLostWakeup'
  <2> SUFFICES ASSUME NEW x \in DOMAIN asked, asked[x].t = "notifyRead", response[x] = <<>>,
                      \A i \in DOMAIN channel' :
                        channel'[i].t = "notifyRead" => channel'[i].call # x
               PROVE  /\ x \in Range(obligations'[asked[x].key])
                      /\ asked[x].key \notin FaultyKey => db[asked[x].key] = NoValue
    BY DEF NoLostWakeup
  <2>1. CASE x = c.call
    BY <1>4, <1>5, <2>1
  <2>2. CASE x # c.call
    <3>1. \A i \in DOMAIN channel : channel[i].t = "notifyRead" => channel[i].call # x
      BY <1>3, <2>2
    <3>2. /\ x \in Range(obligations[asked[x].key])
          /\ asked[x].key \notin FaultyKey => db[asked[x].key] = NoValue
      BY <3>1 DEF Inv, NoLostWakeup
    <3>3. asked[x].key \in Key
      BY DEF Inv, AskedTyped
    <3> QED
      BY <1>5, <3>2, <3>3
  <2> QED
    BY <2>1, <2>2
<1>13. ReadsInOrder'
  BY OrderServed
<1> QED
  BY <1>7, <1>8, <1>9, <1>10, <1>11, <1>12, <1>13 DEF Inv

LEMMA NotifyReadServedKeeps ==
  ASSUME Inv, ServeNotifyRead
  PROVE  Inv'
<1>1. PICK c \in Command : c = Head(channel) /\ c.t = "notifyRead" /\ c.key \in Key
  BY RangeHeadTail, CommandParts DEF ServeNotifyRead, Serve, Inv, TypeOK, Asking
<1>2. /\ channel # <<>> /\ channel' = Tail(channel) /\ c.t \in Asking
      /\ db' = db /\ open' = open /\ asked' = asked
  BY <1>1 DEF ServeNotifyRead, Serve, Asking
<1>3. PICK v \in Get(c.key) :
        \/ /\ v = NoValue
           /\ obligations' = [obligations EXCEPT ![c.key] = Append(@, c.call)]
           /\ response' = response
        \/ /\ response' = Answer(response, {c.call}, v)
           /\ obligations' = obligations
  BY <1>1 DEF ServeNotifyRead
<1>4. CASE v = NoValue /\ response' = response
           /\ obligations' = [obligations EXCEPT ![c.key] = Append(@, c.call)]
  <2>1. db[c.key] = NoValue
    BY <1>3, <1>4, StoreAssumption DEF Get
  <2> QED
    BY <1>1, <1>2, <1>4, <2>1, MissKeeps
<1>5. CASE response' = Answer(response, {c.call}, v) /\ obligations' = obligations
  BY <1>1, <1>2, <1>5, AnswerKeeps
<1> QED
  BY <1>3, <1>4, <1>5

LEMMA CloseServedKeeps ==
  ASSUME Inv, ServeClose
  PROVE  Inv'
<1>1. /\ channel # <<>> /\ channel' = Tail(channel) /\ Head(channel).t = "close"
      /\ db' = db /\ obligations' = obligations /\ response' = response
      /\ open' = FALSE /\ asked' = asked
  BY DEF ServeClose, Serve
<1>2. TypeOK
  BY DEF Inv
<1>3. /\ channel' \in Seq(Command) /\ Len(channel') <= Capacity
      /\ Head(channel) = channel[1]
      /\ \A i \in DOMAIN channel' :
           /\ i \in Nat \ {0}
           /\ i + 1 \in DOMAIN channel
           /\ channel'[i] = channel[i + 1]
      /\ \A i \in DOMAIN channel : i # 1 =>
           i - 1 \in DOMAIN channel' /\ channel'[i - 1] = channel[i]
  BY <1>1, <1>2, ChannelServed
<1>4. TypeOK'
  BY <1>1, <1>2, <1>3 DEF TypeOK
<1>5. AskedTyped' /\ ResponsesAsked' /\ ResponsesFit' /\ ReadsLatestWrite'
  BY <1>1 DEF Inv, AskedTyped, ResponsesAsked, ResponsesFit, ReadsLatestWrite
<1>6. CommandsAsked'
  BY <1>1, <1>3 DEF Inv, CommandsAsked
<1>7. CommandsOnce'
  <2> SUFFICES ASSUME NEW i \in DOMAIN channel', NEW j \in DOMAIN channel',
                      channel'[i].t \in Asking, channel'[j].t \in Asking,
                      channel'[i].call = channel'[j].call
               PROVE  i = j
    BY DEF CommandsOnce
  <2>1. i + 1 = j + 1
    BY <1>3 DEF Inv, CommandsOnce
  <2> QED
    BY <1>3, <2>1
<1>8. ObligationsAsked'
  <2>1. ASSUME NEW x, \A i \in DOMAIN channel : channel[i].t \in Asking => channel[i].call # x
        PROVE  \A i \in DOMAIN channel' : channel'[i].t \in Asking => channel'[i].call # x
    BY <1>3, <2>1
  <2> QED
    BY <1>1, <2>1 DEF Inv, ObligationsAsked
<1>9. NoLostWakeup'
  <2>1. ASSUME NEW x, \A i \in DOMAIN channel' :
                        channel'[i].t = "notifyRead" => channel'[i].call # x
        PROVE  \A i \in DOMAIN channel : channel[i].t = "notifyRead" => channel[i].call # x
    BY <1>1, <1>3, <2>1
  <2> QED
    BY <1>1, <2>1 DEF Inv, NoLostWakeup
<1>10. ReadsInOrder'
  BY <1>1, OrderServed
<1> QED
  BY <1>4, <1>5, <1>6, <1>7, <1>8, <1>9, <1>10 DEF Inv
-----------------------------------------------------------------------------
LEMMA NextKeeps ==
  ASSUME Inv, [Next]_vars
  PROVE  Inv'
<1>1. ASSUME NEW k \in Key, NEW v \in Value, Write(k, v)
      PROVE  Inv'
  <2>1. PICK c : c = [t |-> "write", key |-> k, value |-> v]
    OBVIOUS
  <2>2. c \in Command /\ c.t \notin Asking
    BY <2>1 DEF Command, Asking
  <2> QED
    BY <1>1, <2>1, <2>2, SendKeeps DEF Write
<1>2. ASSUME NEW t \in Asking, NEW c \in Call, NEW k \in Key, Ask(t, c, k)
      PROVE  Inv'
  BY <1>2, AskKeeps
<1>3. CASE Close
  <2>1. PICK c : c = [t |-> "close"]
    OBVIOUS
  <2>2. c \in Command /\ c.t \notin Asking
    BY <2>1 DEF Command, Asking
  <2> QED
    BY <1>3, <2>1, <2>2, SendKeeps DEF Close
<1>4. CASE ServeWrite
  BY <1>4, WriteServedKeeps
<1>5. CASE ServeRead
  BY <1>5, ReadServedKeeps
<1>6. CASE ServeNotifyRead
  BY <1>6, NotifyReadServedKeeps
<1>7. CASE ServeClose
  BY <1>7, CloseServedKeeps
<1>8. CASE UNCHANGED vars
  <2>1. /\ UNCHANGED channel /\ UNCHANGED db /\ UNCHANGED obligations
        /\ UNCHANGED response /\ UNCHANGED open /\ UNCHANGED asked
    BY <1>8 DEF vars
  <2>2. TypeOK' /\ AskedTyped' /\ CommandsAsked' /\ CommandsOnce' /\ ObligationsAsked'
    BY <2>1 DEF Inv, TypeOK, AskedTyped, CommandsAsked, CommandsOnce, ObligationsAsked
  <2>3. ResponsesAsked' /\ ResponsesFit' /\ NoLostWakeup' /\ ReadsLatestWrite'
    BY <2>1 DEF Inv, ResponsesAsked, ResponsesFit, NoLostWakeup, ReadsLatestWrite
  <2>4. ReadsInOrder'
    BY <2>1 DEF Inv, ReadsInOrder, Holds
  <2> QED
    BY <2>2, <2>3, <2>4 DEF Inv
<1> QED
  BY <1>1, <1>2, <1>3, <1>4, <1>5, <1>6, <1>7, <1>8 DEF Next, Goroutine, Asking

LEMMA Invariance == Spec => []Inv
<1>1. Init => Inv
  BY InitHolds
<1>2. Inv /\ [Next]_vars => Inv'
  BY NextKeeps
<1> QED
  BY <1>1, <1>2, PTL DEF Spec

\* The variables of the store keep their types, and the channel its capacity.
THEOREM TypeCorrect == Spec => []TypeOK
BY Invariance, PTL DEF Inv

\* The goroutine of the store never sends a second response to a call
\* (store.go:57-62, 65-100): it cannot block on a response channel.
THEOREM OneResponseEach == Spec => []ResponsesFit
BY Invariance, PTL DEF Inv

\* A read is served after the writes that were sent before it, and finds the last
\* of them (store.go:50-79).
THEOREM ReadsSeeWrites == Spec => []ReadsLatestWrite
BY Invariance, PTL DEF Inv

\* A call that waits for a key is an obligation of that key, which is not stored
\* (store.go:54-63, 81-100): the write of the key will find it.
THEOREM NoWakeupLost == Spec => []NoLostWakeup
BY Invariance, PTL DEF Inv
=============================================================================
