-------------------------------- MODULE Store --------------------------------
(***************************************************************************)
(* store/store.go: a goroutine owns the database and serves the commands of  *)
(* every other goroutine one by one.  A notifyRead of a key that is not      *)
(* stored becomes an obligation, met by the next write of the key: this is   *)
(* how blocks wait for their parents and batches for their arrival.          *)
(***************************************************************************)
EXTENDS Naturals, SequencesExt

CONSTANTS
  Key, Value,
  NoValue,     \* what Get says of a key that is not there (ErrNotFound)
  Error,       \* any other error of the database
  Call,        \* calls of Read, NotifyRead and NotifyReadChannel
  FaultyKey,   \* keys on which the database may fail
  Capacity,    \* CHANNEL_CAPACITY
  MaxWrites    \* bound: calls of Write

ASSUME StoreAssumption ==
  /\ NoValue \notin Value /\ Error \notin Value /\ NoValue # Error
  /\ FaultyKey \subseteq Key
  /\ Capacity \in Nat \ {0} /\ MaxWrites \in Nat

VARIABLES
  channel,      \* the commands to serve
  db,           \* the database
  obligations,  \* for every key, the calls that wait for its write
  response,     \* the response channel of every call, of capacity 1
  open,         \* the goroutine runs
  asked,        \* for every call made: its kind, its key, and the value that
                \* the writes already made leave there
  writes        \* calls of Write so far

vars == <<channel, db, obligations, response, open, asked, writes>>

Command ==
  [t : {"write"}, key : Key, value : Value]
  \cup [t : {"read", "notifyRead"}, key : Key, call : Call]
  \cup [t : {"close"}]

\* The value of a key once the commands on the channel are served.
Latest(k) ==
  LET ws == {i \in DOMAIN channel : channel[i].t = "write" /\ channel[i].key = k}
  IN  IF ws = {} THEN db[k] ELSE channel[Max(ws)].value
-----------------------------------------------------------------------------
(* The callers.  A send on a full channel waits.                             *)

Enqueue(c) ==
  /\ Len(channel) < Capacity
  /\ channel' = Append(channel, c)

Write(k, v) ==
  /\ writes < MaxWrites
  /\ writes' = writes + 1
  /\ Enqueue([t |-> "write", key |-> k, value |-> v])
  /\ UNCHANGED <<db, obligations, response, open, asked>>

\* Read, and NotifyRead or NotifyReadChannel, which differ in who waits.
Ask(t, c, k) ==
  /\ c \notin DOMAIN asked
  /\ asked' = [x \in DOMAIN asked \cup {c} |->
                 IF x = c THEN [t |-> t, key |-> k, latest |-> Latest(k)] ELSE asked[x]]
  /\ Enqueue([t |-> t, key |-> k, call |-> c])
  /\ UNCHANGED <<db, obligations, response, open, writes>>

Close ==
  /\ \A i \in DOMAIN channel : channel[i].t # "close"
  /\ Enqueue([t |-> "close"])
  /\ UNCHANGED <<db, obligations, response, open, asked, writes>>
-----------------------------------------------------------------------------
(* The goroutine of NewStore, one action per command.                        *)

Serve(t) ==
  /\ open
  /\ channel # <<>>
  /\ Head(channel).t = t
  /\ channel' = Tail(channel)
  /\ UNCHANGED <<asked, writes>>

Answer(r, calls, value) ==
  [c \in Call |-> IF c \in calls THEN Append(r[c], value) ELSE r[c]]

\* Mutant: the obligations are met and kept.
ServeWriteKeeps ==
  LET c == Head(channel)
  IN  /\ Serve("write")
      /\ db' = [db EXCEPT ![c.key] = c.value]
      /\ response' = Answer(response, Range(obligations[c.key]), c.value)
      /\ UNCHANGED <<obligations, open>>

\* Mutant: only the oldest obligation is met.
ServeWriteFirstOnly ==
  LET c == Head(channel)
  IN  /\ Serve("write")
      /\ db' = [db EXCEPT ![c.key] = c.value]
      /\ response' = Answer(response,
           IF obligations[c.key] = <<>> THEN {} ELSE {Head(obligations[c.key])}, c.value)
      /\ obligations' = [obligations EXCEPT ![c.key] = <<>>]
      /\ UNCHANGED open

\* An error of Set is ignored, and the readers are told of the value anyway.
ServeWrite ==
  LET c == Head(channel)
  IN  /\ Serve("write")
      /\ \/ db' = [db EXCEPT ![c.key] = c.value]
         \/ c.key \in FaultyKey /\ UNCHANGED db
      /\ response' = Answer(response, Range(obligations[c.key]), c.value)
      /\ obligations' = [obligations EXCEPT ![c.key] = <<>>]
      /\ UNCHANGED open

\* What Get may return.
Get(k) == {db[k]} \cup IF k \in FaultyKey THEN {Error} ELSE {}

\* Mutant: the read does not wait for its turn.
ServeReadOvertakes ==
  \E i \in DOMAIN channel :
    /\ open
    /\ channel[i].t = "read"
    /\ channel' = RemoveAt(channel, i)
    /\ response' = Answer(response, {channel[i].call}, db[channel[i].key])
    /\ UNCHANGED <<db, obligations, open, asked, writes>>

\* A miss answers ErrNotFound.
ServeRead ==
  LET c == Head(channel)
  IN  /\ Serve("read")
      /\ \E v \in Get(c.key) : response' = Answer(response, {c.call}, v)
      /\ UNCHANGED <<db, obligations, open>>

\* Mutant: the call waits for the next write whatever is stored.
ServeNotifyReadAlwaysWaits ==
  LET c == Head(channel)
  IN  /\ Serve("notifyRead")
      /\ obligations' = [obligations EXCEPT ![c.key] = Append(@, c.call)]
      /\ UNCHANGED <<db, response, open>>

\* A miss answers nothing yet.
ServeNotifyRead ==
  LET c == Head(channel)
  IN  /\ Serve("notifyRead")
      /\ \E v \in Get(c.key) :
           \/ /\ v = NoValue
              /\ obligations' = [obligations EXCEPT ![c.key] = Append(@, c.call)]
              /\ UNCHANGED response
           \/ /\ v # NoValue
              /\ response' = Answer(response, {c.call}, v)
              /\ UNCHANGED obligations
      /\ UNCHANGED <<db, open>>

\* Commands left on the channel are never served.
ServeClose ==
  /\ Serve("close")
  /\ open' = FALSE
  /\ UNCHANGED <<db, obligations, response>>
-----------------------------------------------------------------------------
Init ==
  /\ channel = <<>>
  /\ db = [k \in Key |-> NoValue]
  /\ obligations = [k \in Key |-> <<>>]
  /\ response = [c \in Call |-> <<>>]
  /\ open = TRUE
  /\ asked = [c \in {} |-> <<>>]
  /\ writes = 0

Goroutine == ServeWrite \/ ServeRead \/ ServeNotifyRead \/ ServeClose

Next ==
  \/ \E k \in Key, v \in Value : Write(k, v)
  \/ \E t \in {"read", "notifyRead"}, c \in Call, k \in Key : Ask(t, c, k)
  \/ Close
  \/ Goroutine

Spec == Init /\ [][Next]_vars
FairSpec == Spec /\ WF_vars(Goroutine)
-----------------------------------------------------------------------------
TypeOK ==
  /\ channel \in Seq(Command) /\ Len(channel) <= Capacity
  /\ db \in [Key -> Value \cup {NoValue}]
  /\ obligations \in [Key -> Seq(Call)]
  /\ response \in [Call -> Seq(Value \cup {NoValue, Error})]
  /\ open \in BOOLEAN
  /\ DOMAIN asked \subseteq Call

\* The goroutine never waits for a reader: no response channel, of capacity 1,
\* is sent a second response, even when its reader has given up (the mempool's
\* synchronizer and cancelled waiters never read it).
ResponsesFit == \A c \in Call : Len(response[c]) <= 1

\* A read sees every write made before it (core stores a block and a later
\* handler looks for it).
ReadsLatestWrite ==
  \A c \in DOMAIN asked :
    asked[c].t = "read" /\ asked[c].key \notin FaultyKey /\ response[c] # <<>>
      => response[c][1] = asked[c].latest

\* No wake-up is lost: a call that waits and whose command has been served is an
\* obligation of a key that is not in the database.
NoLostWakeup ==
  \A c \in DOMAIN asked :
    (/\ asked[c].t = "notifyRead"
     /\ response[c] = <<>>
     /\ \A i \in DOMAIN channel : channel[i].t = "notifyRead" => channel[i].call # c)
    => /\ c \in Range(obligations[asked[c].key])
       /\ asked[c].key \notin FaultyKey => db[asked[c].key] = NoValue

\* Who waits for a key is answered once the key is written, before or after, as
\* long as the store is not closed.
WaitersAnswered ==
  \A c \in Call, k \in Key :
    (c \in DOMAIN asked /\ asked[c].t = "notifyRead" /\ asked[c].key = k
       /\ db[k] # NoValue) ~> (response[c] # <<>> \/ ~open)
=============================================================================
