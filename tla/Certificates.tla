----------------------------- MODULE Certificates -----------------------------
(***************************************************************************)
(* How messages and certificates are made, written and checked: the makers   *)
(* of consensus/aggregator.go, the digests and Verify of messages.go, the    *)
(* conversions of proto.go and consensusmessage.go, the signatures of        *)
(* crypto/bls.go.  HotStuff keeps votes and certificates as sets.  Here each  *)
(* of its messages has the fields it has in the code, for every order in     *)
(* which the votes behind it can have been counted.                          *)
(***************************************************************************)
EXTENDS HotStuffLedger, SequencesExt

-----------------------------------------------------------------------------
(* Digests and signatures.  A digest is what is written into the hash; a     *)
(* signature the bag of all that was signed into it, one entry or several.   *)

VoteDigest(hash, r) == [hash |-> hash, round |-> r]
TimeoutDigest(r, highQCRound) == [round |-> r, highQCRound |-> highQCRound]

\* SignatureService: each request is answered with its own signature.
Sign(digest, n) == SetToBag({[signer |-> n, digest |-> digest]})

\* AggregateVerify: the i-th key signed the i-th digest, and nothing else is in.
AggregateVerify(signature, digests, keys) ==
  LET signed == [i \in DOMAIN keys |-> [signer |-> keys[i], digest |-> digests[i]]]
  IN  signature = [e \in Range(signed) |-> Cardinality({i \in DOMAIN keys : signed[i] = e})]

FastAggregateVerify(signature, digest, keys) ==
  AggregateVerify(signature, [i \in DOMAIN keys |-> digest], keys)

SigVerify(signature, digest, n) == FastAggregateVerify(signature, digest, <<n>>)
-----------------------------------------------------------------------------
(* The qcMaker of a block and the tcMaker of a round do the same.            *)

NewMaker == [weight |-> 0, entries |-> <<>>, used |-> {}, aggregateSig |-> EmptyBag]

IsComplete(maker) == maker.weight >= QuorumThreshold

\* Mutant: the weight stays.
ResetWeightKept(maker) == maker

ResetWeight(maker) == [maker EXCEPT !.weight = 0]

\* What append adds; an author counts once.
Count(maker, item) ==
  IF item.author \in maker.used THEN maker
  ELSE [weight       |-> (maker.weight + Stake[item.author]) % StakeModulus,
        entries      |-> Append(maker.entries, item.entry),
        used         |-> maker.used \cup {item.author},
        aggregateSig |-> maker.aggregateSig (+) item.signature]

\* append, with the certificates returned so far.
Feed(state, item) ==
  LET counted == Count(state.maker, item)
  IN  IF IsComplete(counted)
      THEN [maker |-> ResetWeight(counted),
            made  |-> Append(state.made, [entries   |-> counted.entries,
                                          signature |-> counted.aggregateSig])]
      ELSE [state EXCEPT !.maker = counted]

\* What a new maker returns while it is fed the items in this order.
Made(items) == FoldLeft(Feed, [maker |-> NewMaker, made |-> <<>>], items).made

\* What AddVote and AddTimeout hand to the maker.
VoteItem(v) ==
  [author |-> v.author, entry |-> v.author,
   signature |-> Sign(VoteDigest(v.hash, v.round), v.author)]

TimeoutItem(t) ==
  [author |-> t.author, entry |-> [name |-> t.author, round |-> t.highQC.round],
   signature |-> Sign(TimeoutDigest(t.round, t.highQC.round), t.author)]

\* Every order of a set of items, each of which is then delivered once more.
Orders(items) == {order \o order : order \in SetToSeqs(items)}
-----------------------------------------------------------------------------
(* Verify of a QC, a TC, a block, a vote and a timeout, as its receiver       *)
(* runs it on the fields of the message.                                     *)

\* An authority without stake is unknown.
Known(n) == n \in Node /\ Stake[n] # 0

\* Nobody appears twice, everybody is known, and together they are a quorum.
HaveQuorum(names) ==
  /\ IsInjective(names)
  /\ \A n \in Range(names) : Known(n)
  /\ IsQuorum(Range(names))

IsGenesisQC(qc) ==
  qc = [Hash |-> ZeroDigest, Round |-> 0, Voters |-> <<>>, Signature |-> EmptyBag]

VerifyQC(qc) ==
  \/ IsGenesisQC(qc)
  \/ /\ HaveQuorum(qc.Voters)
     /\ FastAggregateVerify(qc.Signature, VoteDigest(qc.Hash, qc.Round), qc.Voters)

DigestInTC(tc, v) == TimeoutDigest(tc.Round, v.round)

VerifyTC(tc) ==
  LET names == [i \in DOMAIN tc.Votes |-> tc.Votes[i].name]
  IN  /\ HaveQuorum(names)
      /\ AggregateVerify(tc.Signature,
           [i \in DOMAIN tc.Votes |-> DigestInTC(tc, tc.Votes[i])], names)

DigestOfBlock(b) ==
  [author |-> b.Author, round |-> b.Round, payload |-> Range(b.Payload)]

\* The TC of a block is a pointer: none, or one.
VerifyBlock(b) ==
  /\ Known(b.Author)
  /\ SigVerify(b.Signature, DigestOfBlock(b), b.Author)
  /\ VerifyQC(b.Qc)
  /\ \A tc \in Range(b.Tc) : VerifyTC(tc)

VerifyVote(v) ==
  Known(v.Author) /\ SigVerify(v.Signature, VoteDigest(v.Hash, v.Round), v.Author)

VerifyTimeout(t) ==
  /\ Known(t.Author)
  /\ SigVerify(t.Signature, TimeoutDigest(t.Round, t.HighQC.Round), t.Author)
  /\ VerifyQC(t.HighQC)
-----------------------------------------------------------------------------
(* The protobuf messages.  Fixed-size arrays travel as byte strings of that   *)
(* length; a conversion that fails yields no value, one that succeeds yields *)
(* one.                                                                      *)

DIGEST_LEN == 32
PUBLICKEY_LEN == 48
SIGNATURE_LEN == 96

Bytes(data, len) == [data |-> data, len |-> len]
AllBytes(seq, len) == [i \in DOMAIN seq |-> Bytes(seq[i], len)]

FromBytes(bytes, len) == {x \in {bytes.data} : bytes.len = len}
AllFromBytes(seq, len) ==
  {x \in {[i \in DOMAIN seq |-> seq[i].data]} : \A i \in DOMAIN seq : seq[i].len = len}

\* Mutant: the loop variable is shared by all iterations.
QCToProtoLastVoter(qc) ==
  [Hash |-> Bytes(qc.Hash, DIGEST_LEN), Round |-> qc.Round,
   Voters |-> [i \in DOMAIN qc.Voters |-> Bytes(Last(qc.Voters), PUBLICKEY_LEN)],
   Signature |-> Bytes(qc.Signature, SIGNATURE_LEN)]

QCToProto(qc) ==
  [Hash |-> Bytes(qc.Hash, DIGEST_LEN), Round |-> qc.Round,
   Voters |-> AllBytes(qc.Voters, PUBLICKEY_LEN),
   Signature |-> Bytes(qc.Signature, SIGNATURE_LEN)]

QCFromProto(p) ==
  {[Hash |-> hash, Round |-> p.Round, Voters |-> voters, Signature |-> signature] :
     hash \in FromBytes(p.Hash, DIGEST_LEN),
     voters \in AllFromBytes(p.Voters, PUBLICKEY_LEN),
     signature \in FromBytes(p.Signature, SIGNATURE_LEN)}

TCToProto(tc) ==
  [Round |-> tc.Round,
   Atrs |-> [i \in DOMAIN tc.Votes |->
               [Name |-> Bytes(tc.Votes[i].name, PUBLICKEY_LEN), Round |-> tc.Votes[i].round]],
   Signature |-> Bytes(tc.Signature, SIGNATURE_LEN)]

TCFromProto(p) ==
  {[Round |-> p.Round,
    Votes |-> [i \in DOMAIN p.Atrs |-> [name |-> names[i], round |-> p.Atrs[i].Round]],
    Signature |-> signature] :
     names \in AllFromBytes([i \in DOMAIN p.Atrs |-> p.Atrs[i].Name], PUBLICKEY_LEN),
     signature \in FromBytes(p.Signature, SIGNATURE_LEN)}

BlockToProto(b) ==
  [QuorumCert |-> QCToProto(b.Qc),
   TimeoutCert |-> [i \in DOMAIN b.Tc |-> TCToProto(b.Tc[i])],
   Author |-> Bytes(b.Author, PUBLICKEY_LEN), Round |-> b.Round,
   Payload |-> AllBytes(b.Payload, DIGEST_LEN),
   Signature |-> Bytes(b.Signature, SIGNATURE_LEN)]

BlockFromProto(p) ==
  {[Qc |-> qc, Tc |-> tc, Author |-> author, Round |-> p.Round,
    Payload |-> payload, Signature |-> signature] :
     payload \in AllFromBytes(p.Payload, DIGEST_LEN),
     qc \in QCFromProto(p.QuorumCert),
     tc \in IF p.TimeoutCert = <<>> THEN {<<>>}
            ELSE {<<x>> : x \in TCFromProto(p.TimeoutCert[1])},
     author \in FromBytes(p.Author, PUBLICKEY_LEN),
     signature \in FromBytes(p.Signature, SIGNATURE_LEN)}

VoteToProto(v) ==
  [Hash |-> Bytes(v.Hash, DIGEST_LEN), Round |-> v.Round,
   Author |-> Bytes(v.Author, PUBLICKEY_LEN), Signature |-> Bytes(v.Signature, SIGNATURE_LEN)]

VoteFromProto(p) ==
  {[Hash |-> hash, Round |-> p.Round, Author |-> author, Signature |-> signature] :
     hash \in FromBytes(p.Hash, DIGEST_LEN),
     author \in FromBytes(p.Author, PUBLICKEY_LEN),
     signature \in FromBytes(p.Signature, SIGNATURE_LEN)}

TimeoutToProto(t) ==
  [HighQC |-> QCToProto(t.HighQC), Round |-> t.Round,
   Author |-> Bytes(t.Author, PUBLICKEY_LEN), Signature |-> Bytes(t.Signature, SIGNATURE_LEN)]

TimeoutFromProto(p) ==
  {[HighQC |-> qc, Round |-> p.Round, Author |-> author, Signature |-> signature] :
     qc \in QCFromProto(p.HighQC),
     author \in FromBytes(p.Author, PUBLICKEY_LEN),
     signature \in FromBytes(p.Signature, SIGNATURE_LEN)}

\* SerializeConsensusMessage of each kind: a oneof with its only field.
Serialize(kind, m) ==
  CASE kind = "Proposal"  -> [Proposal |-> BlockToProto(m)]
    [] kind = "VMessage"  -> [VMessage |-> VoteToProto(m)]
    [] kind = "TMessage"  -> [TMessage |-> TimeoutToProto(m)]
    [] kind = "TcMessage" -> [TcMessage |-> TCToProto(m)]

\* DeserializeConsensusMessage: the kind and the message.
Deserialize(data) ==
  LET parsed(kind, FromProto(_)) ==
        IF kind \in DOMAIN data
        THEN {[kind |-> kind, message |-> m] : m \in FromProto(data[kind])} ELSE {}
  IN  parsed("Proposal", BlockFromProto) \cup parsed("VMessage", VoteFromProto)
        \cup parsed("TMessage", TimeoutFromProto) \cup parsed("TcMessage", TCFromProto)

\* The check of the handler the message is passed to.
VerifyMessage(kind, m) ==
  CASE kind = "Proposal"  -> VerifyBlock(m)
    [] kind = "VMessage"  -> VerifyVote(m)
    [] kind = "TMessage"  -> VerifyTimeout(m)
    [] kind = "TcMessage" -> VerifyTC(m)

Accepted(kind, m) ==
  \E x \in Deserialize(Serialize(kind, m)) : x.kind = kind /\ VerifyMessage(kind, x.message)
-----------------------------------------------------------------------------
(* The messages of HotStuff with the fields of the code.                     *)

VoteItems(hash, r) ==
  {VoteItem(v) : v \in {m.vote : m \in {x \in voteMsgs : x.vote.hash = hash /\ x.vote.round = r}}}
TimeoutItems(r) == {TimeoutItem(t) : t \in {x \in timeoutMsgs : x.round = r}}

\* The certificates that the orders of some items can give.
MadeOf(items) == UNION {Range(Made(order)) : order \in Orders(items)}

FullQCs(qc) ==
  IF qc = GenesisQC
  THEN {[Hash |-> ZeroDigest, Round |-> 0, Voters |-> <<>>, Signature |-> EmptyBag]}
  ELSE {[Hash |-> qc.hash, Round |-> qc.round, Voters |-> c.entries, Signature |-> c.signature] :
          c \in MadeOf(VoteItems(qc.hash, qc.round))}

FullTCs(tc) ==
  {[Round |-> tc.round, Votes |-> c.entries, Signature |-> c.signature] :
     c \in {x \in MadeOf(TimeoutItems(tc.round)) : Range(x.entries) = tc.votes}}

FullBlocks(b) ==
  {[Qc |-> qc, Tc |-> tc, Author |-> b.author, Round |-> b.round, Payload |-> payload,
    Signature |-> Sign(BlockDigest(b), b.author)] :
     qc \in FullQCs(b.qc), payload \in SetToSeqs(b.payload),
     tc \in IF b.tc = NoTC THEN {<<>>} ELSE {<<x>> : x \in FullTCs(b.tc)}}

FullTimeouts(t) ==
  {[HighQC |-> qc, Round |-> t.round, Author |-> t.author,
    Signature |-> Sign(TimeoutDigest(t.round, t.highQC.round), t.author)] :
     qc \in FullQCs(t.highQC)}

FullVote(v) ==
  [Hash |-> v.hash, Round |-> v.round, Author |-> v.author,
   Signature |-> Sign(VoteDigest(v.hash, v.round), v.author)]
-----------------------------------------------------------------------------
(* Properties.                                                               *)

\* In whatever order votes and timeouts reach an aggregator, and however often,
\* it returns one certificate if their authors are a quorum and none otherwise
\* (qcMaker.append, tcMaker.append).
OneCertificateAtQuorum ==
  \A items \in {VoteItems(m.vote.hash, m.vote.round) : m \in voteMsgs}
                 \cup {TimeoutItems(t.round) : t \in timeoutMsgs} :
    \A order \in Orders(items) :
      Len(Made(order)) = IF IsQuorum({x.author : x \in items}) THEN 1 ELSE 0

\* Every message that is sent can have been built, and however its certificates
\* were built, what its receivers decode passes their Verify.
SentMessagesAccepted ==
  /\ \A b \in proposals : /\ FullBlocks(b) # {}
                          /\ \A x \in FullBlocks(b) : Accepted("Proposal", x)
  /\ \A m \in voteMsgs : Accepted("VMessage", FullVote(m.vote))
  /\ \A t \in timeoutMsgs : /\ FullTimeouts(t) # {}
                            /\ \A x \in FullTimeouts(t) : Accepted("TMessage", x)
  /\ \A tc \in tcMsgs : /\ FullTCs(tc) # {}
                        /\ \A x \in FullTCs(tc) : Accepted("TcMessage", x)
=============================================================================
