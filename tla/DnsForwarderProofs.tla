------------------------- MODULE DnsForwarderProofs -------------------------
(***************************************************************************)
(* Proofs about the DNS forwarder, for any number of clients, transaction  *)
(* ids and table sizes, and with no use of the bounds of the model.        *)
(***************************************************************************)
EXTENDS DnsForwarder, Sequences, CountingLemmas

\* The inductive invariant.
DnsInv == DnsTypeOK /\ OneReplyPerQuery

(***************************************************************************)
(* An empty slot is nobody's.                                              *)
(***************************************************************************)
LEMMA UnusedIsNobody == Unused \notin Asker
<1> SUFFICES ASSUME NEW c, NEW x, <<>> = <<c, x>> PROVE FALSE
  BY DEF Unused, Asker
<1>1. Len(<<>>) = 0 /\ Len(<<c, x>>) = 2
  OBVIOUS
<1>2. QED
  BY <1>1

(***************************************************************************)
(* Slots are counted by natural numbers.                                   *)
(***************************************************************************)
LEMMA SlotsHeldType == SlotsHeld \in [Asker -> Nat]
<1> SUFFICES ASSUME NEW e \in Asker
             PROVE  Cardinality({i \in PendingSlots : pending[i] = e}) \in Nat
  BY DEF SlotsHeld
<1>1. IsFiniteSet(PendingSlots)
  BY DnsAssumption, FS_Interval DEF PendingSlots
<1>2. QED
  BY <1>1, SubsetCount

(***************************************************************************)
(* Writing one slot of the pending table changes the number of slots of an *)
(* asker by the slot gained and the slot lost.                             *)
(***************************************************************************)
LEMMA SlotCount ==
    ASSUME NEW i \in PendingSlots, NEW v \in {Unused} \cup Asker,
           \A j \in PendingSlots : pending'[j] = (IF j = i THEN v ELSE pending[j]),
           NEW e \in Asker
    PROVE  /\ SlotsHeld[e] \in Nat
           /\ SlotsHeld'[e] \in Nat
           /\ SlotsHeld'[e] = SlotsHeld[e] + (IF v = e THEN 1 ELSE 0)
                                           - (IF pending[i] = e THEN 1 ELSE 0)
<1> DEFINE S == {j \in PendingSlots : pending[j] = e}
           R == {j \in PendingSlots : pending'[j] = e}
<1>1. IsFiniteSet(S)
  <2>1. IsFiniteSet(PendingSlots)
    BY DnsAssumption, FS_Interval DEF PendingSlots
  <2>2. QED
    BY <2>1, SubsetCount
<1>2. \A u : u # i => (u \in R <=> u \in S)
  OBVIOUS
<1>3. (i \in R <=> v = e) /\ (i \in S <=> pending[i] = e)
  OBVIOUS
<1>4. SlotsHeld[e] = Cardinality(S) /\ SlotsHeld'[e] = Cardinality(R)
  BY DEF SlotsHeld
<1> HIDE DEF S, R
<1>5. /\ Cardinality(S) \in Nat /\ Cardinality(R) \in Nat
      /\ Cardinality(R) = Cardinality(S) + (IF i \in R THEN 1 ELSE 0)
                                         - (IF i \in S THEN 1 ELSE 0)
  BY <1>1, <1>2, CountMove
<1>6. QED
  BY <1>3, <1>4, <1>5

(***************************************************************************)
(* pending_put takes at most the query just counted.                       *)
(***************************************************************************)
LEMMA PutStep ==
    ASSUME DnsInv, NEW a \in Asker, NEW i \in PendingSlots,
           pending' = [pending EXCEPT ![i] = a],
           asked' = [asked EXCEPT ![a] = @ + 1],
           replied' = replied
    PROVE  /\ pending' \in [PendingSlots -> {Unused} \cup Asker]
           /\ asked' \in [Asker -> Nat]
           /\ OneReplyPerQuery'
<1>1. /\ pending' \in [PendingSlots -> {Unused} \cup Asker]
      /\ asked' \in [Asker -> Nat]
  BY DEF DnsInv, DnsTypeOK
<1>2. ASSUME NEW e \in Asker
      PROVE  replied'[e] + SlotsHeld'[e] <= asked'[e]
  <2>1. /\ SlotsHeld[e] \in Nat
        /\ SlotsHeld'[e] \in Nat
        /\ SlotsHeld'[e] = SlotsHeld[e] + (IF a = e THEN 1 ELSE 0)
                                        - (IF pending[i] = e THEN 1 ELSE 0)
    <3>1. /\ a \in {Unused} \cup Asker
          /\ \A j \in PendingSlots : pending'[j] = (IF j = i THEN a ELSE pending[j])
      BY DEF DnsInv, DnsTypeOK
    <3>2. QED
      BY ONLY <3>1, SlotCount
  <2>2. /\ replied[e] \in Nat /\ asked[e] \in Nat
        /\ replied[e] + SlotsHeld[e] <= asked[e]
    BY DEF DnsInv, DnsTypeOK, OneReplyPerQuery
  <2>3. asked'[e] = asked[e] + (IF a = e THEN 1 ELSE 0)
    BY DEF DnsInv, DnsTypeOK
  <2>4. QED
    BY <2>1, <2>2, <2>3
<1>3. QED
  BY <1>1, <1>2 DEF OneReplyPerQuery

(***************************************************************************)
(* An answer from the cache uses up the query just counted.                *)
(***************************************************************************)
LEMMA CachedStep ==
    ASSUME DnsInv, NEW a \in Asker, pending' = pending,
           asked' = [asked EXCEPT ![a] = @ + 1],
           replied' = [replied EXCEPT ![a] = @ + 1]
    PROVE  /\ asked' \in [Asker -> Nat] /\ replied' \in [Asker -> Nat]
           /\ OneReplyPerQuery'
<1>1. asked' \in [Asker -> Nat] /\ replied' \in [Asker -> Nat]
  BY DEF DnsInv, DnsTypeOK
<1>2. SlotsHeld' = SlotsHeld
  BY DEF SlotsHeld
<1>3. ASSUME NEW e \in Asker
      PROVE  replied'[e] + SlotsHeld'[e] <= asked'[e]
  <2>1. /\ SlotsHeld[e] \in Nat /\ replied[e] \in Nat /\ asked[e] \in Nat
        /\ replied[e] + SlotsHeld[e] <= asked[e]
    BY SlotsHeldType DEF DnsInv, DnsTypeOK, OneReplyPerQuery
  <2>2. /\ asked'[e] = asked[e] + (IF a = e THEN 1 ELSE 0)
        /\ replied'[e] = replied[e] + (IF a = e THEN 1 ELSE 0)
    BY DEF DnsInv, DnsTypeOK
  <2>3. QED
    BY <1>2, <2>1, <2>2
<1>4. QED
  BY <1>1, <1>3 DEF OneReplyPerQuery

(***************************************************************************)
(* A response that finds slot i trades the slot for a reply.               *)
(***************************************************************************)
LEMMA GetStep ==
    ASSUME DnsInv, NEW i \in PendingSlots, pending[i] \in Asker,
           pending' = [pending EXCEPT ![i] = Unused],
           asked' = asked,
           replied' = [replied EXCEPT ![pending[i]] = @ + 1]
    PROVE  /\ pending' \in [PendingSlots -> {Unused} \cup Asker]
           /\ replied' \in [Asker -> Nat]
           /\ OneReplyPerQuery'
<1>3. pending' \in [PendingSlots -> {Unused} \cup Asker]
  BY DEF DnsInv, DnsTypeOK
<1>4. replied' \in [Asker -> Nat]
  BY DEF DnsInv, DnsTypeOK
<1>5. ASSUME NEW e \in Asker
      PROVE  replied'[e] + SlotsHeld'[e] <= asked'[e]
  <2>1. /\ SlotsHeld[e] \in Nat
        /\ SlotsHeld'[e] \in Nat
        /\ SlotsHeld'[e] = SlotsHeld[e] + (IF Unused = e THEN 1 ELSE 0)
                                        - (IF pending[i] = e THEN 1 ELSE 0)
    <3>1. /\ Unused \in {Unused} \cup Asker
          /\ \A j \in PendingSlots : pending'[j] = (IF j = i THEN Unused ELSE pending[j])
      BY DEF DnsInv, DnsTypeOK
    <3>2. QED
      BY ONLY <3>1, SlotCount
  <2>2. Unused # e
    BY UnusedIsNobody
  <2>3. /\ replied[e] \in Nat /\ asked[e] \in Nat
        /\ replied[e] + SlotsHeld[e] <= asked[e]
    BY DEF DnsInv, DnsTypeOK, OneReplyPerQuery
  <2>4. replied'[e] = replied[e] + (IF pending[i] = e THEN 1 ELSE 0)
    BY DEF DnsInv, DnsTypeOK
  <2>5. QED
    BY <2>1, <2>2, <2>3, <2>4
<1>6. QED
  BY <1>3, <1>4, <1>5 DEF OneReplyPerQuery

(***************************************************************************)
(* DnsInv is inductive: one step per action.                               *)
(***************************************************************************)
THEOREM DnsInvariant == DnsSpec => []DnsInv
<1>1. DnsInit => DnsInv
  <2> SUFFICES ASSUME DnsInit PROVE DnsInv
    OBVIOUS
  <2>1. DnsTypeOK
    BY DEF DnsInit, DnsTypeOK
  <2>2. ASSUME NEW e \in Asker PROVE SlotsHeld[e] = 0
    <3>1. {i \in PendingSlots : pending[i] = e} = {}
      BY UnusedIsNobody DEF DnsInit
    <3>2. QED
      BY <3>1, FS_EmptySet DEF SlotsHeld
  <2>3. OneReplyPerQuery
    BY <2>2 DEF DnsInit, OneReplyPerQuery
  <2>4. QED
    BY <2>1, <2>3 DEF DnsInv
<1>2. DnsInv /\ [DnsNext]_dnsVars => DnsInv'
  <2> SUFFICES ASSUME DnsInv, [DnsNext]_dnsVars PROVE DnsInv'
    OBVIOUS
  <2>0. ASSUME pending' = pending, asked' = asked, replied' = replied
        PROVE  OneReplyPerQuery'
    <3>1. SlotsHeld' = SlotsHeld
      BY <2>0 DEF SlotsHeld
    <3>2. QED
      BY <2>0, <3>1 DEF DnsInv, OneReplyPerQuery
  <2>1. CASE DnsForwarderStart
    <3>1. ASSUME NEW e \in Asker PROVE SlotsHeld'[e] = 0
      <4>1. {i \in PendingSlots : pending'[i] = e} = {}
        BY <2>1, UnusedIsNobody DEF DnsForwarderStart
      <4>2. QED
        BY <4>1, FS_EmptySet DEF SlotsHeld
    <3>2. asked' = asked /\ replied' = replied
      BY <2>1 DEF DnsForwarderStart
    <3>3. OneReplyPerQuery'
      BY <3>1, <3>2, SlotsHeldType DEF DnsInv, DnsTypeOK, OneReplyPerQuery
    <3>4. DnsTypeOK'
      BY <2>1 DEF DnsForwarderStart, DnsInv, DnsTypeOK
    <3>5. QED
      BY <3>3, <3>4 DEF DnsInv
  <2>2. CASE TaskSetup
    BY <2>0, <2>2 DEF TaskSetup, DnsInv, DnsTypeOK
  <2>3. ASSUME NEW c \in Clients, NEW x \in TxIds, NEW q \in Questions,
               RecvQuery(c, x, q)
        PROVE  DnsInv'
    <3> DEFINE a == <<c, x>>
    <3>1. /\ a \in Asker
          /\ asked' = [asked EXCEPT ![a] = @ + 1]
          /\ askedFor' \subseteq Clients \X TxIds \X Questions
          /\ task' \in {"none", "starting", "serving", "dead"}
          /\ lost' \in [TxIds -> Nat]
      BY <2>3 DEF RecvQuery, DnsInv, DnsTypeOK, Asker
    <3>2. CASE /\ replied' = [replied EXCEPT ![a] = @ + 1]
               /\ pending' = pending /\ inFlight' = inFlight
      <4>1. /\ asked' \in [Asker -> Nat] /\ replied' \in [Asker -> Nat]
            /\ OneReplyPerQuery'
        BY <3>1, <3>2, CachedStep
      <4>2. QED
        BY <3>1, <3>2, <4>1 DEF DnsInv, DnsTypeOK
    <3>3. CASE /\ PendingPut(c, x)
               /\ inFlight' = [inFlight EXCEPT ![<<x, q>>] = @ + 1]
               /\ replied' = replied
      <4>1. PICK i \in PendingSlots : pending' = [pending EXCEPT ![i] = a]
        <5>1. 0 \in PendingSlots
          BY DnsAssumption DEF PendingSlots
        <5>2. QED
          BY <3>3, <5>1 DEF PendingPut
      <4>2. /\ pending' \in [PendingSlots -> {Unused} \cup Asker]
            /\ asked' \in [Asker -> Nat]
            /\ OneReplyPerQuery'
        BY <3>1, <3>3, <4>1, PutStep
      <4>3. inFlight' \in [TxIds \X Questions -> Nat]
        BY <3>3 DEF DnsInv, DnsTypeOK
      <4>4. QED
        BY <3>1, <3>3, <4>2, <4>3 DEF DnsInv, DnsTypeOK
    <3>4. QED
      BY <2>3, <3>2, <3>3 DEF RecvQuery, SendReply
  <2>4. ASSUME NEW x \in TxIds, NEW q \in Questions, RecvResponse(x, q)
        PROVE  DnsInv'
    <3>1. /\ inFlight' \in [TxIds \X Questions -> Nat]
          /\ task' \in {"none", "starting", "serving", "dead"}
          /\ lost' \in [TxIds -> Nat]
          /\ asked' = asked /\ askedFor' = askedFor
      BY <2>4 DEF RecvResponse, DnsInv, DnsTypeOK
    <3>2. ASSUME NEW i \in PendingSlots, PendingMatch(i, x),
                 SendReply(pending[i][1], x, q, elapsed),
                 pending' = [pending EXCEPT ![i] = Unused]
          PROVE  DnsInv'
      <4>1. pending[i] \in Asker /\ pending[i] = <<pending[i][1], x>>
        BY <3>2 DEF PendingMatch, Waiting, DnsInv, DnsTypeOK, Asker
      <4>2. replied' = [replied EXCEPT ![pending[i]] = @ + 1]
        BY <3>2, <4>1 DEF SendReply
      <4>3. /\ pending' \in [PendingSlots -> {Unused} \cup Asker]
            /\ replied' \in [Asker -> Nat]
            /\ OneReplyPerQuery'
        BY <3>1, <3>2, <4>1, <4>2, GetStep
      <4>4. QED
        BY <3>1, <4>3 DEF DnsInv, DnsTypeOK
    <3>3. CASE pending' = pending /\ replied' = replied
      BY <2>0, <3>1, <3>3 DEF DnsInv, DnsTypeOK
    <3>4. QED
      BY <2>4, <3>2, <3>3 DEF RecvResponse
  <2>5. ASSUME NEW x \in TxIds, NEW q \in Questions, Lose(x, q)
        PROVE  DnsInv'
    BY <2>0, <2>5 DEF Lose, DnsInv, DnsTypeOK
  <2>6. ASSUME NEW x \in TxIds, NEW q \in Questions, Duplicate(x, q)
        PROVE  DnsInv'
    BY <2>0, <2>6 DEF Duplicate, DnsInv, DnsTypeOK
  <2>7. CASE Tick
    BY <2>0, <2>7 DEF Tick, DnsInv, DnsTypeOK
  <2>8. CASE UNCHANGED dnsVars
    BY <2>0, <2>8 DEF dnsVars, DnsInv, DnsTypeOK
  <2>9. QED
    BY <2>1, <2>2, <2>3, <2>4, <2>5, <2>6, <2>7, <2>8 DEF DnsNext
<1>3. QED
  BY <1>1, <1>2, PTL DEF DnsSpec

(***************************************************************************)
(* No client ever gets more replies with an id than it sent queries with   *)
(* it, whatever the network repeats and however the tables overflow.       *)
(***************************************************************************)
THEOREM DnsOneReplyPerQuery == DnsSpec => []OneReplyPerQuery
<1>1. DnsInv => OneReplyPerQuery
  BY DEF DnsInv
<1>2. QED
  BY <1>1, DnsInvariant, PTL

(***************************************************************************)
(* The tables and counters stay in their types: pending_put never writes   *)
(* past the table.                                                         *)
(***************************************************************************)
THEOREM DnsTypeCorrect == DnsSpec => []DnsTypeOK
<1>1. DnsInv => DnsTypeOK
  BY DEF DnsInv
<1>2. QED
  BY <1>1, DnsInvariant, PTL

-----------------------------------------------------------------------------
(* Where an answer can come from *)

Entry == [key : {KeyOf[q] : q \in Questions}, expire : Int,
          question : Questions, stored : Nat]

\* Somebody asked for whatever is pending, under way or cached.
PendingAsked ==
    \A i \in PendingSlots : pending[i] # Unused =>
        \E q \in Questions : <<pending[i][1], pending[i][2], q>> \in askedFor
ExchangeAsked ==
    \A x \in TxIds, q \in Questions : inFlight[<<x, q>>] > 0 =>
        \E c \in Clients : <<c, x, q>> \in askedFor
CacheOK ==
    /\ cache \in [CacheSlots -> {Unused} \cup Entry]
    /\ \A i \in CacheSlots : cache[i] # Unused => cache[i].key = KeyOf[cache[i].question]

OriginInv ==
    /\ DnsTypeOK /\ PendingAsked /\ ExchangeAsked /\ CacheOK
    /\ elapsed \in Nat /\ CrossedOnlyBySharedId

\* dns_question_hash tells the questions apart.
NoCollision ==
    \A q \in Questions, r \in Questions :
        KeyOf[q] = KeyOf[r] /\ KeyOf[q] # NoKey => q = r

(***************************************************************************)
(* cache_store writes one entry, for the question it is called with.       *)
(***************************************************************************)
LEMMA StoreStep ==
    ASSUME CacheOK, elapsed \in Nat, NEW q \in Questions,
           CacheStore(q) \/ cache' = cache
    PROVE  CacheOK'
<1>1. CASE cache' = cache
  BY <1>1 DEF CacheOK
<1>2. CASE CacheStore(q)
  <2> DEFINE e == [key |-> KeyOf[q], expire |-> NowSec + CACHE_TTL_SEC,
                   question |-> q, stored |-> elapsed]
  <2>1. PICK i \in CacheSlots : cache' = [cache EXCEPT ![i] = e]
    BY <1>2 DEF CacheStore
  <2>2. NowSec + CACHE_TTL_SEC \in Int
    BY DnsAssumption DEF NowSec
  <2>3. e \in Entry /\ e.key = KeyOf[e.question]
    BY <2>2 DEF Entry
  <2> HIDE DEF e
  <2>4. QED
    BY <2>1, <2>3 DEF CacheOK
<1>3. QED
  BY <1>1, <1>2

(***************************************************************************)
(* Answers cross between clients only through a shared transaction id, if  *)
(* no two questions have the same hash.                                    *)
(***************************************************************************)
THEOREM DnsCrossing == NoCollision /\ DnsSpec => []CrossedOnlyBySharedId
<1> SUFFICES ASSUME NoCollision PROVE DnsSpec => []CrossedOnlyBySharedId
  OBVIOUS
<1>1. DnsInit => OriginInv
  <2> SUFFICES ASSUME DnsInit PROVE OriginInv
    OBVIOUS
  <2>1. DnsTypeOK
    BY DEF DnsInit, DnsTypeOK
  <2>2. QED
    BY <2>1 DEF DnsInit, OriginInv, PendingAsked, ExchangeAsked, CacheOK,
           CrossedOnlyBySharedId
<1>2. OriginInv /\ DnsTypeOK' /\ [DnsNext]_dnsVars => OriginInv'
  <2> SUFFICES ASSUME OriginInv, DnsTypeOK', [DnsNext]_dnsVars PROVE OriginInv'
    OBVIOUS
  <2>0. ASSUME reply' = reply, askedFor \subseteq askedFor'
        PROVE  CrossedOnlyBySharedId'
    BY <2>0 DEF OriginInv, CrossedOnlyBySharedId
  <2>1. CASE DnsForwarderStart
    BY <2>0, <2>1 DEF DnsForwarderStart, OriginInv, PendingAsked, ExchangeAsked, CacheOK
  <2>2. CASE TaskSetup
    BY <2>0, <2>2 DEF TaskSetup, OriginInv, PendingAsked, ExchangeAsked, CacheOK
  <2>3. ASSUME NEW c \in Clients, NEW x \in TxIds, NEW q \in Questions,
               RecvQuery(c, x, q)
        PROVE  OriginInv'
    <3>1. /\ askedFor' = askedFor \cup {<<c, x, q>>}
          /\ cache' = cache /\ elapsed' = elapsed
      BY <2>3 DEF RecvQuery
    <3>2. CacheOK'
      BY <3>1 DEF OriginInv, CacheOK
    <3>3. ASSUME NEW i \in CacheSlots, KeyOf[q] # NoKey, CacheHit(i, q),
                 SendReply(c, x, cache[i].question, cache[i].stored)
          PROVE  CrossedOnlyBySharedId'
      <4>1. cache[i].question \in Questions /\ cache[i].key = KeyOf[cache[i].question]
        BY <3>3 DEF CacheHit, Live, OriginInv, CacheOK, Entry
      <4>2. cache[i].question = q
        BY <3>3, <4>1 DEF CacheHit, Live, NoCollision
      <4>3. reply'.to = c /\ reply'.txid = x /\ reply'.question = q
        BY <3>3, <4>2 DEF SendReply
      <4>4. QED
        BY <3>1, <4>3 DEF CrossedOnlyBySharedId
    <3>4. CASE pending' = pending /\ inFlight' = inFlight /\ CrossedOnlyBySharedId'
      BY <3>1, <3>2, <3>4 DEF OriginInv, PendingAsked, ExchangeAsked
    <3>5. CASE /\ PendingPut(c, x)
               /\ inFlight' = [inFlight EXCEPT ![<<x, q>>] = @ + 1]
               /\ reply' = reply
      <4>1. PICK i \in PendingSlots : pending' = [pending EXCEPT ![i] = <<c, x>>]
        <5>1. 0 \in PendingSlots
          BY DnsAssumption DEF PendingSlots
        <5>2. QED
          BY <3>5, <5>1 DEF PendingPut
      <4>2. PendingAsked'
        <5> SUFFICES ASSUME NEW j \in PendingSlots, pending'[j] # Unused
                     PROVE  \E r \in Questions :
                              <<pending'[j][1], pending'[j][2], r>> \in askedFor'
          BY DEF PendingAsked
        <5>1. CASE j = i
          BY <3>1, <4>1, <5>1 DEF OriginInv, DnsTypeOK
        <5>2. CASE j # i
          <6>1. pending'[j] = pending[j]
            BY <4>1, <5>2 DEF OriginInv, DnsTypeOK
          <6>2. QED
            BY <3>1, <6>1 DEF OriginInv, PendingAsked
        <5>3. QED
          BY <5>1, <5>2
      <4>3. ExchangeAsked'
        <5> SUFFICES ASSUME NEW y \in TxIds, NEW r \in Questions,
                            inFlight'[<<y, r>>] > 0
                     PROVE  \E d \in Clients : <<d, y, r>> \in askedFor'
          BY DEF ExchangeAsked
        <5>1. CASE <<y, r>> = <<x, q>>
          BY <3>1, <5>1
        <5>2. CASE <<y, r>> # <<x, q>>
          BY <3>1, <3>5, <5>2 DEF OriginInv, ExchangeAsked, DnsTypeOK
        <5>3. QED
          BY <5>1, <5>2
      <4>4. CrossedOnlyBySharedId'
        BY <2>0, <3>1, <3>5
      <4>5. QED
        BY <3>1, <3>2, <4>2, <4>3, <4>4 DEF OriginInv
    <3>6. QED
      BY <2>3, <3>3, <3>4, <3>5 DEF RecvQuery
  <2>4. ASSUME NEW x \in TxIds, NEW q \in Questions, RecvResponse(x, q)
        PROVE  OriginInv'
    <3>1. /\ askedFor' = askedFor /\ elapsed' = elapsed /\ inFlight[<<x, q>>] > 0
          /\ inFlight' = [inFlight EXCEPT ![<<x, q>>] = @ - 1]
      BY <2>4 DEF RecvResponse
    <3>2. ExchangeAsked'
      <4>1. \A e \in TxIds \X Questions : inFlight'[e] > 0 => inFlight[e] > 0
        BY <3>1 DEF OriginInv, DnsTypeOK
      <4>2. QED
        BY <3>1, <4>1 DEF OriginInv, ExchangeAsked
    <3>3. CacheOK'
      <4>1. CacheStore(q) \/ cache' = cache
        BY <2>4 DEF RecvResponse
      <4>2. QED
        BY <4>1, StoreStep DEF OriginInv
    <3>4. ASSUME NEW i \in PendingSlots, PendingMatch(i, x),
                 SendReply(pending[i][1], x, q, elapsed),
                 pending' = [pending EXCEPT ![i] = Unused]
          PROVE  PendingAsked' /\ CrossedOnlyBySharedId'
      <4>1. pending[i] \in Asker /\ pending[i] = <<pending[i][1], x>>
        BY <3>4 DEF PendingMatch, Waiting, OriginInv, DnsTypeOK, Asker
      <4>2. PICK r \in Questions : <<pending[i][1], x, r>> \in askedFor
        BY <4>1, UnusedIsNobody DEF OriginInv, PendingAsked
      <4>3. PICK d \in Clients : <<d, x, q>> \in askedFor
        BY <3>1 DEF OriginInv, ExchangeAsked
      <4>4. reply'.to = pending[i][1] /\ reply'.txid = x /\ reply'.question = q
        BY <3>4 DEF SendReply
      <4>5. CrossedOnlyBySharedId'
        BY <3>1, <4>2, <4>3, <4>4 DEF CrossedOnlyBySharedId
      <4>6. PendingAsked'
        <5>1. \A j \in PendingSlots : pending'[j] = Unused \/ pending'[j] = pending[j]
          BY <3>4 DEF OriginInv, DnsTypeOK
        <5>2. QED
          BY <3>1, <5>1 DEF OriginInv, PendingAsked
      <4>7. QED
        BY <4>5, <4>6
    <3>5. PendingAsked' /\ CrossedOnlyBySharedId'
      <4>1. CASE pending' = pending /\ reply' = reply
        BY <2>0, <3>1, <4>1 DEF OriginInv, PendingAsked
      <4>2. QED
        BY <2>4, <3>4, <4>1 DEF RecvResponse
    <3>6. QED
      BY <3>1, <3>2, <3>3, <3>5 DEF OriginInv
  <2>5. ASSUME NEW x \in TxIds, NEW q \in Questions, Lose(x, q) \/ Duplicate(x, q)
        PROVE  OriginInv'
    <3>1. /\ UNCHANGED <<pending, cache, elapsed, askedFor, reply>>
          /\ \A e \in TxIds \X Questions : inFlight'[e] > 0 => inFlight[e] > 0
      BY <2>5 DEF Lose, Duplicate, OriginInv, DnsTypeOK
    <3>2. QED
      BY <2>0, <3>1 DEF OriginInv, PendingAsked, ExchangeAsked, CacheOK
  <2>6. CASE Tick
    <3>1. elapsed' \in Nat /\ CrossedOnlyBySharedId'
      BY <2>0, <2>6 DEF Tick, OriginInv
    <3>2. PendingAsked' /\ ExchangeAsked' /\ CacheOK'
      BY <2>6 DEF Tick, OriginInv, PendingAsked, ExchangeAsked, CacheOK
    <3>3. QED
      BY <3>1, <3>2 DEF OriginInv
  <2>7. CASE UNCHANGED dnsVars
    BY <2>0, <2>7 DEF dnsVars, OriginInv, PendingAsked, ExchangeAsked, CacheOK
  <2>8. QED
    BY <2>1, <2>2, <2>3, <2>4, <2>5, <2>6, <2>7 DEF DnsNext
<1>3. OriginInv => CrossedOnlyBySharedId
  BY DEF OriginInv
<1>4. QED
  BY <1>1, <1>2, <1>3, DnsTypeCorrect, PTL DEF DnsSpec

(***************************************************************************)
(* Two times between the same wraps differ by what the clock shows.        *)
(***************************************************************************)
LEMMA SameRound ==
    ASSUME NEW n \in Nat \ {0}, NEW a \in Nat, NEW b \in Nat,
           a \div n = b \div n
    PROVE  (a % n) - (b % n) = a - b
<1>1. a = n * (a \div n) + (a % n) /\ b = n * (b \div n) + (b % n)
  OBVIOUS
<1>2. (a % n) \in Int /\ (b % n) \in Int /\ n * (a \div n) \in Int
  OBVIOUS
<1>3. QED
  BY <1>1, <1>2

(***************************************************************************)
(* No answer is served from the cache at or past its lifetime, whatever    *)
(* cache_store evicted or stored twice, unless the millisecond tick has    *)
(* wrapped (every 49.7 days) since it was stored.                          *)
(***************************************************************************)
THEOREM DnsFresh == DnsSpec => []FreshAnswers
<1> DEFINE Timely ==
             /\ elapsed \in Nat
             /\ cache \in [CacheSlots -> {Unused} \cup Entry]
             /\ \A i \in CacheSlots : cache[i] # Unused =>
                   cache[i].expire = (cache[i].stored % TickWrap) + CACHE_TTL_SEC
             /\ FreshAnswers
<1> USE DnsAssumption
<1>1. DnsInit => Timely
  BY DEF DnsInit, FreshAnswers
<1>2. Timely /\ [DnsNext]_dnsVars => Timely'
  <2> SUFFICES ASSUME Timely, [DnsNext]_dnsVars PROVE Timely'
    OBVIOUS
  <2>1. CASE DnsForwarderStart
    BY <2>1 DEF DnsForwarderStart, FreshAnswers
  <2>2. CASE TaskSetup \/ UNCHANGED dnsVars
    BY <2>2 DEF TaskSetup, FreshAnswers, dnsVars
  <2>3. ASSUME NEW c \in Clients, NEW x \in TxIds, NEW q \in Questions,
               RecvQuery(c, x, q)
        PROVE  Timely'
    <3>1. ASSUME NEW i \in CacheSlots, CacheHit(i, q),
                 SendReply(c, x, cache[i].question, cache[i].stored)
          PROVE  FreshAnswers'
      <4> DEFINE then == cache[i].stored
      <4>1. /\ then \in Nat /\ elapsed \in Nat
            /\ (then % TickWrap) + CACHE_TTL_SEC > elapsed % TickWrap
        BY <3>1 DEF CacheHit, Live, Entry, NowSec
      <4>2. /\ reply'.age = elapsed - then
            /\ reply'.wrapped = (elapsed \div TickWrap # then \div TickWrap)
        BY <3>1 DEF SendReply
      <4> HIDE DEF then
      <4>3. CASE elapsed \div TickWrap = then \div TickWrap
        <5>1. /\ elapsed % TickWrap \in Int /\ then % TickWrap \in Int
          BY <4>1
        <5>2. (elapsed % TickWrap) - (then % TickWrap) = elapsed - then
          BY <4>1, <4>3, <5>1, SameRound
        <5>3. elapsed - then < CACHE_TTL_SEC
          BY <4>1, <5>2, <5>1
        <5>4. QED
          BY <4>2, <5>3 DEF FreshAnswers
      <4>4. CASE elapsed \div TickWrap # then \div TickWrap
        BY <4>2, <4>4 DEF FreshAnswers
      <4>5. QED
        BY <4>3, <4>4
    <3>2. CASE reply' = reply
      BY <2>3, <3>2 DEF RecvQuery, FreshAnswers
    <3>3. QED
      BY <2>3, <3>1, <3>2 DEF RecvQuery
  <2>4. ASSUME NEW x \in TxIds, NEW q \in Questions, RecvResponse(x, q)
        PROVE  Timely'
    <3>1. elapsed' = elapsed
      BY <2>4 DEF RecvResponse
    <3>2. FreshAnswers'
      <4>1. CASE reply' = reply
        BY <4>1 DEF FreshAnswers
      <4>2. ASSUME NEW c, SendReply(c, x, q, elapsed) PROVE FreshAnswers'
        BY <4>2 DEF SendReply, FreshAnswers
      <4>3. QED
        BY <2>4, <4>1, <4>2 DEF RecvResponse
    <3>3. CASE cache' = cache
      BY <3>1, <3>2, <3>3
    <3>4. CASE CacheStore(q)
      <4> DEFINE e == [key |-> KeyOf[q], expire |-> NowSec + CACHE_TTL_SEC,
                       question |-> q, stored |-> elapsed]
      <4>1. PICK i \in CacheSlots : cache' = [cache EXCEPT ![i] = e]
        BY <3>4 DEF CacheStore
      <4>2. e \in Entry /\ e.expire = (e.stored % TickWrap) + CACHE_TTL_SEC
        BY DEF Entry, NowSec
      <4> HIDE DEF e
      <4>3. QED
        BY <3>1, <3>2, <4>1, <4>2
    <3>5. QED
      BY <2>4, <3>3, <3>4 DEF RecvResponse
  <2>5. ASSUME NEW x \in TxIds, NEW q \in Questions, Lose(x, q) \/ Duplicate(x, q)
        PROVE  Timely'
    BY <2>5 DEF Lose, Duplicate, FreshAnswers
  <2>6. CASE Tick
    BY <2>6 DEF Tick, FreshAnswers
  <2>7. QED
    BY <2>1, <2>2, <2>3, <2>4, <2>5, <2>6 DEF DnsNext
<1>3. Timely => FreshAnswers
  OBVIOUS
<1> HIDE DEF Timely
<1>4. QED
  BY <1>1, <1>2, <1>3, PTL DEF DnsSpec

-----------------------------------------------------------------------------
(* What the tables owe: every slot an exchange, every query a slot or a reply *)

(***************************************************************************)
(* Counting one thing more adds one element to the units.                  *)
(***************************************************************************)
LEMMA UnitsStep ==
    ASSUME NEW D, NEW f \in [D -> Nat], NEW g \in [D -> Nat], NEW a \in D,
           \A d \in D : g[d] = (IF d = a THEN f[d] + 1 ELSE f[d]),
           IsFiniteSet(Units(f)) \/ IsFiniteSet(Units(g))
    PROVE  /\ IsFiniteSet(Units(f)) /\ IsFiniteSet(Units(g))
           /\ Cardinality(Units(f)) \in Nat /\ Cardinality(Units(g)) \in Nat
           /\ Cardinality(Units(g)) = Cardinality(Units(f)) + 1
<1> DEFINE t == <<a, f[a] + 1>>
<1>1. t \in Units(g) /\ t \notin Units(f)
  <2>1. f[a] + 1 \in 1 .. g[a] /\ f[a] + 1 \notin 1 .. f[a]
    OBVIOUS
  <2>2. QED
    BY <2>1 DEF Units
<1>2. ASSUME NEW u, u # t PROVE u \in Units(g) <=> u \in Units(f)
  <2>1. ASSUME NEW d \in D, NEW n, u = <<d, n>>
        PROVE  n \in 1 .. g[d] <=> n \in 1 .. f[d]
    <3>1. CASE d = a
      <4>1. n # f[a] + 1 /\ g[a] = f[a] + 1 /\ f[a] \in Nat
        BY <1>2, <2>1, <3>1
      <4>2. QED
        BY <3>1, <4>1
    <3>2. CASE d # a
      BY <3>2
    <3>3. QED
      BY <3>1, <3>2
  <2>2. u \in Units(g) <=> \E d \in D : \E n \in 1 .. g[d] : u = <<d, n>>
    BY DEF Units
  <2>3. u \in Units(f) <=> \E d \in D : \E n \in 1 .. f[d] : u = <<d, n>>
    BY DEF Units
  <2>4. QED
    BY <2>1, <2>2, <2>3
<1> HIDE DEF t
<1>3. CASE IsFiniteSet(Units(f))
  BY <1>1, <1>2, <1>3, CountMove
<1>4. CASE IsFiniteSet(Units(g))
  BY <1>1, <1>2, <1>4, CountMove
<1>5. QED
  BY <1>3, <1>4

(***************************************************************************)
(* Nothing counted, no units.                                              *)
(***************************************************************************)
LEMMA NoUnits ==
    ASSUME NEW D, NEW f \in [D -> Nat], \A d \in D : f[d] = 0
    PROVE  IsFiniteSet(Units(f)) /\ Cardinality(Units(f)) = 0
<1>1. Units(f) = {}
  <2>1. \A d \in D : 1 .. f[d] = {}
    OBVIOUS
  <2>2. QED
    BY <2>1 DEF Units
<1>2. QED
  BY <1>1, FS_EmptySet

(***************************************************************************)
(* A new exchange with id x, or a repeated response, is one more exchange  *)
(* under way with that id and none with another.                           *)
(***************************************************************************)
LEMMA ExchangeBegins ==
    ASSUME DnsTypeOK, NEW x \in TxIds, NEW q \in Questions,
           inFlight' = [inFlight EXCEPT ![<<x, q>>] = @ + 1],
           NEW y \in TxIds, IsFiniteSet(Exchanges(y))
    PROVE  /\ IsFiniteSet(Exchanges(y)')
           /\ Cardinality(Exchanges(y)) \in Nat
           /\ Cardinality(Exchanges(y)') =
                 Cardinality(Exchanges(y)) + (IF y = x THEN 1 ELSE 0)
<1> DEFINE f == [r \in Questions |-> inFlight[<<y, r>>]]
           g == [r \in Questions |-> inFlight'[<<y, r>>]]
<1>1. Exchanges(y) = Units(f) /\ Exchanges(y)' = Units(g)
  BY DEF Exchanges, Units
<1>2. f \in [Questions -> Nat] /\ g \in [Questions -> Nat]
  BY DEF DnsTypeOK
<1>3. CASE y = x
  <2>1. \A r \in Questions : g[r] = (IF r = q THEN f[r] + 1 ELSE f[r])
    BY <1>3 DEF DnsTypeOK
  <2> HIDE DEF f, g
  <2>2. QED
    BY <1>1, <1>2, <1>3, <2>1, UnitsStep
<1>4. CASE y # x
  <2>1. \A r \in Questions : inFlight'[<<y, r>>] = inFlight[<<y, r>>]
    BY <1>4 DEF DnsTypeOK
  <2>2. f = g
    BY <2>1
  <2>3. QED
    BY <1>1, <1>4, <2>2, FS_CardinalityType
<1>5. QED
  BY <1>3, <1>4

(***************************************************************************)
(* An exchange that ends, answered or lost, is one exchange less.          *)
(***************************************************************************)
LEMMA ExchangeEnds ==
    ASSUME DnsTypeOK, NEW x \in TxIds, NEW q \in Questions, inFlight[<<x, q>>] > 0,
           inFlight' = [inFlight EXCEPT ![<<x, q>>] = @ - 1],
           NEW y \in TxIds, IsFiniteSet(Exchanges(y))
    PROVE  /\ IsFiniteSet(Exchanges(y)')
           /\ Cardinality(Exchanges(y)') \in Nat
           /\ Cardinality(Exchanges(y)) =
                 Cardinality(Exchanges(y)') + (IF y = x THEN 1 ELSE 0)
<1> DEFINE f == [r \in Questions |-> inFlight'[<<y, r>>]]
           g == [r \in Questions |-> inFlight[<<y, r>>]]
<1>1. Exchanges(y) = Units(g) /\ Exchanges(y)' = Units(f)
  BY DEF Exchanges, Units
<1>2. f \in [Questions -> Nat] /\ g \in [Questions -> Nat]
  BY DEF DnsTypeOK
<1>3. CASE y = x
  <2>1. \A r \in Questions : g[r] = (IF r = q THEN f[r] + 1 ELSE f[r])
    BY <1>3 DEF DnsTypeOK
  <2> HIDE DEF f, g
  <2>2. QED
    BY <1>1, <1>2, <1>3, <2>1, UnitsStep
<1>4. CASE y # x
  <2>1. \A r \in Questions : inFlight'[<<y, r>>] = inFlight[<<y, r>>]
    BY <1>4 DEF DnsTypeOK
  <2>2. f = g
    BY <2>1
  <2>3. QED
    BY <1>1, <1>4, <2>2, FS_CardinalityType
<1>5. QED
  BY <1>3, <1>4

\* The slots that wait for a response with id x.
WaitingFor(x) == {i \in PendingSlots : Waiting(i, x)}

(***************************************************************************)
(* Writing one slot changes the number of slots that wait for an id by the *)
(* slot gained and the slot lost.                                          *)
(***************************************************************************)
LEMMA WaitingCount ==
    ASSUME DnsTypeOK, NEW i \in PendingSlots, NEW v \in {Unused} \cup Asker,
           pending' = [pending EXCEPT ![i] = v], NEW y \in TxIds
    PROVE  /\ Cardinality(WaitingFor(y)) \in Nat
           /\ Cardinality(WaitingFor(y)') =
                 Cardinality(WaitingFor(y)) + (IF v # Unused /\ v[2] = y THEN 1 ELSE 0)
                                            - (IF Waiting(i, y) THEN 1 ELSE 0)
<1> DEFINE S == WaitingFor(y)
           R == WaitingFor(y)'
<1>1. IsFiniteSet(S)
  <2>1. IsFiniteSet(PendingSlots) /\ S \subseteq PendingSlots
    BY DnsAssumption, FS_Interval DEF PendingSlots, WaitingFor
  <2>2. QED
    BY <2>1, SubsetCount
<1>2. \A u : u # i => (u \in R <=> u \in S)
  BY DEF WaitingFor, Waiting, DnsTypeOK
<1>3. (i \in R <=> v # Unused /\ v[2] = y) /\ (i \in S <=> Waiting(i, y))
  BY DEF WaitingFor, Waiting, DnsTypeOK
<1> HIDE DEF S, R
<1>4. /\ Cardinality(S) \in Nat
      /\ Cardinality(R) = Cardinality(S) + (IF i \in R THEN 1 ELSE 0)
                                         - (IF i \in S THEN 1 ELSE 0)
  BY <1>1, <1>2, CountMove
<1>5. QED
  BY <1>3, <1>4 DEF S, R

(***************************************************************************)
(* The forwarder never leaves a pending slot behind: each one in use has   *)
(* an exchange of its own under way, but for those the network lost,       *)
(* whatever is repeated or reordered and however the table overflows.      *)
(***************************************************************************)
THEOREM DnsSlotsHaveExchange == DnsSpec => []EverySlotHasExchange
<1> DEFINE Finite == \A x \in TxIds : IsFiniteSet(Exchanges(x))
           Owed == \A x \in TxIds :
                      Cardinality(WaitingFor(x)) <= Cardinality(Exchanges(x)) + lost[x]
           Inv == DnsTypeOK /\ Finite /\ Owed
<1>0. \A x \in TxIds : /\ Cardinality(WaitingFor(x)) \in Nat
                       /\ Cardinality(WaitingFor(x)') \in Nat
  <2>1. IsFiniteSet(PendingSlots)
    BY DnsAssumption, FS_Interval DEF PendingSlots
  <2>2. \A x \in TxIds : /\ WaitingFor(x) \subseteq PendingSlots
                         /\ WaitingFor(x)' \subseteq PendingSlots
    BY DEF WaitingFor
  <2>3. QED
    BY <2>1, <2>2, SubsetCount
<1>1. DnsInit => Inv
  <2> SUFFICES ASSUME DnsInit PROVE Inv
    OBVIOUS
  <2>1. DnsTypeOK
    BY DEF DnsInit, DnsTypeOK
  <2>2. ASSUME NEW x \in TxIds
        PROVE  IsFiniteSet(Exchanges(x)) /\ Cardinality(Exchanges(x)) = 0
    <3> DEFINE f == [q \in Questions |-> inFlight[<<x, q>>]]
    <3>1. f \in [Questions -> Nat] /\ \A q \in Questions : f[q] = 0
      BY DEF DnsInit
    <3>2. Exchanges(x) = Units(f)
      BY DEF Exchanges
    <3> HIDE DEF f
    <3>3. QED
      BY <3>1, <3>2, NoUnits
  <2>3. ASSUME NEW x \in TxIds PROVE Cardinality(WaitingFor(x)) = 0
    <3>1. WaitingFor(x) = {}
      BY DEF DnsInit, WaitingFor, Waiting
    <3>2. QED
      BY <3>1, FS_EmptySet
  <2>4. \A x \in TxIds : lost[x] = 0
    BY DEF DnsInit
  <2>5. QED
    BY <2>1, <2>2, <2>3, <2>4
<1>2. Inv /\ DnsTypeOK' /\ [DnsNext]_dnsVars => Inv'
  <2> SUFFICES ASSUME Inv, DnsTypeOK', [DnsNext]_dnsVars PROVE Inv'
    OBVIOUS
  <2> USE DEF Inv
  <2>t. /\ \A x \in TxIds : lost[x] \in Nat
        /\ \A x \in TxIds : Cardinality(Exchanges(x)) \in Nat
    BY FS_CardinalityType DEF DnsTypeOK
  <2>0. ASSUME pending' = pending, inFlight' = inFlight, lost' = lost PROVE Inv'
    <3>1. \A x \in TxIds : /\ Exchanges(x)' = Exchanges(x)
                           /\ WaitingFor(x)' = WaitingFor(x)
      BY <2>0 DEF Exchanges, Units, WaitingFor, Waiting
    <3>2. QED
      BY <2>0, <3>1
  <2>1. CASE DnsForwarderStart
    <3>1. \A x \in TxIds : Exchanges(x)' = Exchanges(x) /\ lost'[x] = lost[x]
      BY <2>1 DEF DnsForwarderStart, Exchanges, Units
    <3>2. ASSUME NEW x \in TxIds PROVE Cardinality(WaitingFor(x)') = 0
      <4>1. WaitingFor(x)' = {}
        BY <2>1 DEF DnsForwarderStart, WaitingFor, Waiting
      <4>2. QED
        BY <4>1, FS_EmptySet
    <3>3. QED
      BY <2>t, <3>1, <3>2
  <2>2. CASE TaskSetup \/ Tick \/ UNCHANGED dnsVars
    BY <2>0, <2>2 DEF TaskSetup, Tick, dnsVars
  <2>3. ASSUME NEW c \in Clients, NEW x \in TxIds, NEW q \in Questions,
               RecvQuery(c, x, q)
        PROVE  Inv'
    <3>1. lost' = lost
      BY <2>3 DEF RecvQuery
    <3>2. CASE pending' = pending /\ inFlight' = inFlight
      BY <2>0, <3>1, <3>2
    <3>3. CASE PendingPut(c, x) /\ inFlight' = [inFlight EXCEPT ![<<x, q>>] = @ + 1]
      <4>1. PICK i \in PendingSlots : pending' = [pending EXCEPT ![i] = <<c, x>>]
        <5>1. 0 \in PendingSlots
          BY DnsAssumption DEF PendingSlots
        <5>2. QED
          BY <3>3, <5>1 DEF PendingPut
      <4>2. <<c, x>> \in {Unused} \cup Asker /\ <<c, x>> # Unused
        BY UnusedIsNobody DEF Asker
      <4>3. ASSUME NEW y \in TxIds
            PROVE  /\ IsFiniteSet(Exchanges(y)')
                   /\ Cardinality(WaitingFor(y)') <= Cardinality(Exchanges(y)') + lost'[y]
        <5>1. /\ IsFiniteSet(Exchanges(y)')
              /\ Cardinality(Exchanges(y)') =
                    Cardinality(Exchanges(y)) + (IF y = x THEN 1 ELSE 0)
          BY <3>3, ExchangeBegins
        <5>2. /\ Cardinality(WaitingFor(y)) \in Nat
              /\ Cardinality(WaitingFor(y)') <=
                    Cardinality(WaitingFor(y)) + (IF y = x THEN 1 ELSE 0)
          <6>1. Cardinality(WaitingFor(y)') =
                   Cardinality(WaitingFor(y))
                       + (IF <<c, x>> # Unused /\ <<c, x>>[2] = y THEN 1 ELSE 0)
                       - (IF Waiting(i, y) THEN 1 ELSE 0)
            BY <4>1, <4>2, WaitingCount
          <6>2. QED
            BY <1>0, <4>2, <6>1
        <5>3. QED
          <6>1. Cardinality(WaitingFor(y)) <= Cardinality(Exchanges(y)) + lost[y]
            OBVIOUS
          <6>2. QED
            BY <1>0, <2>t, <3>1, <5>1, <5>2, <6>1
      <4>4. QED
        BY <4>3
    <3>4. QED
      BY <2>3, <3>2, <3>3 DEF RecvQuery
  <2>4. ASSUME NEW x \in TxIds, NEW q \in Questions, RecvResponse(x, q)
        PROVE  Inv'
    <3>1. /\ lost' = lost /\ inFlight[<<x, q>>] > 0
          /\ inFlight' = [inFlight EXCEPT ![<<x, q>>] = @ - 1]
      BY <2>4 DEF RecvResponse
    <3>2. ASSUME NEW y \in TxIds
          PROVE  /\ IsFiniteSet(Exchanges(y)')
                 /\ Cardinality(Exchanges(y)') \in Nat
                 /\ Cardinality(Exchanges(y)) =
                       Cardinality(Exchanges(y)') + (IF y = x THEN 1 ELSE 0)
      BY <3>1, ExchangeEnds
    <3>3. ASSUME NEW i \in PendingSlots, PendingMatch(i, x),
                 pending' = [pending EXCEPT ![i] = Unused], NEW y \in TxIds
          PROVE  Cardinality(WaitingFor(y)') =
                    Cardinality(WaitingFor(y)) - (IF y = x THEN 1 ELSE 0)
      <4>1. Waiting(i, y) <=> y = x
        BY <3>3 DEF PendingMatch, Waiting
      <4>2. Cardinality(WaitingFor(y)') =
               Cardinality(WaitingFor(y))
                   + (IF Unused # Unused /\ Unused[2] = y THEN 1 ELSE 0)
                   - (IF Waiting(i, y) THEN 1 ELSE 0)
        BY <3>3, WaitingCount
      <4>3. QED
        BY <1>0, <4>1, <4>2
    <3>4. ASSUME \A i \in PendingSlots : ~Waiting(i, x), pending' = pending,
                 NEW y \in TxIds
          PROVE  /\ Cardinality(WaitingFor(y)') = Cardinality(WaitingFor(y))
                 /\ y = x => Cardinality(WaitingFor(y)) = 0
      <4>1. WaitingFor(y)' = WaitingFor(y) /\ WaitingFor(x) = {}
        BY <3>4 DEF WaitingFor, Waiting
      <4>2. QED
        BY <4>1, FS_EmptySet
    <3>5. ASSUME NEW y \in TxIds
          PROVE  Cardinality(WaitingFor(y)') <= Cardinality(Exchanges(y)') + lost'[y]
      <4>0. Cardinality(WaitingFor(y)) <= Cardinality(Exchanges(y)) + lost[y]
        OBVIOUS
      <4>1. CASE \E i \in PendingSlots : /\ PendingMatch(i, x)
                                         /\ pending' = [pending EXCEPT ![i] = Unused]
        <5>1. Cardinality(WaitingFor(y)') =
                 Cardinality(WaitingFor(y)) - (IF y = x THEN 1 ELSE 0)
          BY <3>3, <4>1
        <5>2. QED
          BY <1>0, <2>t, <3>1, <3>2, <4>0, <5>1
      <4>2. CASE (\A i \in PendingSlots : ~Waiting(i, x)) /\ pending' = pending
        BY <1>0, <2>t, <3>1, <3>2, <3>4, <4>2
      <4>3. QED
        BY <2>4, <4>1, <4>2 DEF RecvResponse
    <3>6. QED
      BY <3>2, <3>5
  <2>5. ASSUME NEW x \in TxIds, NEW q \in Questions, Lose(x, q)
        PROVE  Inv'
    <3>1. /\ pending' = pending /\ inFlight[<<x, q>>] > 0
          /\ inFlight' = [inFlight EXCEPT ![<<x, q>>] = @ - 1]
          /\ \A y \in TxIds : lost'[y] = lost[y] + (IF y = x THEN 1 ELSE 0)
      BY <2>5 DEF Lose, DnsTypeOK
    <3>2. ASSUME NEW y \in TxIds
          PROVE  /\ IsFiniteSet(Exchanges(y)')
                 /\ Cardinality(WaitingFor(y)') <= Cardinality(Exchanges(y)') + lost'[y]
      <4>1. /\ IsFiniteSet(Exchanges(y)')
            /\ Cardinality(Exchanges(y)') \in Nat
            /\ Cardinality(Exchanges(y)) =
                  Cardinality(Exchanges(y)') + (IF y = x THEN 1 ELSE 0)
        BY <3>1, ExchangeEnds
      <4>2. WaitingFor(y)' = WaitingFor(y)
        BY <3>1 DEF WaitingFor, Waiting
      <4>3. QED
        BY <1>0, <2>t, <3>1, <4>1, <4>2
    <3>3. QED
      BY <3>2
  <2>6. ASSUME NEW x \in TxIds, NEW q \in Questions, Duplicate(x, q)
        PROVE  Inv'
    <3>1. /\ pending' = pending /\ lost' = lost
          /\ inFlight' = [inFlight EXCEPT ![<<x, q>>] = @ + 1]
      BY <2>6 DEF Duplicate
    <3>2. ASSUME NEW y \in TxIds
          PROVE  /\ IsFiniteSet(Exchanges(y)')
                 /\ Cardinality(WaitingFor(y)') <= Cardinality(Exchanges(y)') + lost'[y]
      <4>1. /\ IsFiniteSet(Exchanges(y)')
            /\ Cardinality(Exchanges(y)') =
                  Cardinality(Exchanges(y)) + (IF y = x THEN 1 ELSE 0)
        BY <3>1, ExchangeBegins
      <4>2. WaitingFor(y)' = WaitingFor(y)
        BY <3>1 DEF WaitingFor, Waiting
      <4>3. QED
        BY <1>0, <2>t, <3>1, <4>1, <4>2
    <3>3. QED
      BY <3>2
  <2>7. QED
    BY <2>1, <2>2, <2>3, <2>4, <2>5, <2>6 DEF DnsNext
<1>3. Inv => EverySlotHasExchange
  BY DEF EverySlotHasExchange, WaitingFor
<1> HIDE DEF Inv
<1>4. QED
  BY <1>1, <1>2, <1>3, DnsTypeCorrect, PTL DEF DnsSpec

UsedSlots == {i \in PendingSlots : pending[i] # Unused}

\* There are no more slots in use than there were queries, and the task serves
\* none before it has cleared its tables.
SlotsOfQueries ==
    /\ IsFiniteSet(Queries)
    /\ Cardinality(UsedSlots) <= Cardinality(Queries)
    /\ task \in {"none", "starting"} => \A e \in Asker : asked[e] = 0

\* What keeps NoQueryForgotten: a table that has seen no more queries than it
\* has slots is never full when the next one comes.
QueriesInv == DnsInv /\ SlotsOfQueries /\ NoQueryForgotten

(***************************************************************************)
(* The table has PENDING_MAX slots, and those in use are counted.          *)
(***************************************************************************)
LEMMA UsedCount ==
    /\ IsFiniteSet(UsedSlots) /\ IsFiniteSet(UsedSlots')
    /\ Cardinality(UsedSlots) \in Nat /\ Cardinality(UsedSlots') \in Nat
    /\ (\A i \in PendingSlots : pending[i] # Unused) => Cardinality(UsedSlots) = PENDING_MAX
<1>1. IsFiniteSet(PendingSlots) /\ Cardinality(PendingSlots) = PENDING_MAX
  BY DnsAssumption, FS_Interval DEF PendingSlots
<1>2. UsedSlots \subseteq PendingSlots /\ UsedSlots' \subseteq PendingSlots
  BY DEF UsedSlots
<1>3. /\ IsFiniteSet(UsedSlots) /\ IsFiniteSet(UsedSlots')
      /\ Cardinality(UsedSlots) \in Nat /\ Cardinality(UsedSlots') \in Nat
  BY <1>1, <1>2, SubsetCount
<1>4. ASSUME \A i \in PendingSlots : pending[i] # Unused
      PROVE  UsedSlots = PendingSlots
  BY <1>4 DEF UsedSlots
<1>5. QED
  BY <1>1, <1>3, <1>4

(***************************************************************************)
(* Writing one slot.                                                       *)
(***************************************************************************)
LEMMA UsedStep ==
    ASSUME DnsTypeOK, NEW i \in PendingSlots, NEW v \in {Unused} \cup Asker,
           pending' = [pending EXCEPT ![i] = v]
    PROVE  Cardinality(UsedSlots') =
              Cardinality(UsedSlots) + (IF v # Unused THEN 1 ELSE 0)
                                     - (IF pending[i] # Unused THEN 1 ELSE 0)
<1>1. \A u : u # i => (u \in UsedSlots' <=> u \in UsedSlots)
  BY DEF UsedSlots, DnsTypeOK
<1>2. (i \in UsedSlots' <=> v # Unused) /\ (i \in UsedSlots <=> pending[i] # Unused)
  BY DEF UsedSlots, DnsTypeOK
<1>3. Cardinality(UsedSlots') =
         Cardinality(UsedSlots) + (IF i \in UsedSlots' THEN 1 ELSE 0)
                                - (IF i \in UsedSlots THEN 1 ELSE 0)
  BY <1>1, UsedCount, CountMove
<1>4. QED
  BY <1>2, <1>3

(***************************************************************************)
(* A query is counted once.                                                *)
(***************************************************************************)
LEMMA QueryCounted ==
    ASSUME DnsTypeOK, IsFiniteSet(Queries), NEW a \in Asker,
           asked' = [asked EXCEPT ![a] = @ + 1]
    PROVE  /\ IsFiniteSet(Queries')
           /\ Cardinality(Queries) \in Nat
           /\ Cardinality(Queries') = Cardinality(Queries) + 1
<1> DEFINE f == asked
           g == asked'
<1>1. f \in [Asker -> Nat] /\ g \in [Asker -> Nat]
  BY DEF DnsTypeOK
<1>2. \A d \in Asker : g[d] = (IF d = a THEN f[d] + 1 ELSE f[d])
  BY <1>1
<1>3. Queries = Units(f) /\ Queries' = Units(g)
  BY DEF Queries, Units
<1> HIDE DEF f, g
<1>4. QED
  BY <1>1, <1>2, <1>3, UnitsStep

(***************************************************************************)
(* Until more queries have come than the table has slots, every query has  *)
(* been answered or holds a slot: pending_put overwrites nobody's, and a   *)
(* response frees a slot of the client that it is sent to.                 *)
(***************************************************************************)
THEOREM DnsNoQueryForgotten == DnsSpec => []NoQueryForgotten
<1>1. DnsInit /\ DnsInv => QueriesInv
  <2> SUFFICES ASSUME DnsInit, DnsInv PROVE QueriesInv
    OBVIOUS
  <2>1. \A e \in Asker : asked[e] = 0 /\ replied[e] = 0 /\ asked \in [Asker -> Nat]
    BY DEF DnsInit
  <2>2. \A e \in Asker : SlotsHeld[e] \in Nat /\ SlotsHeld[e] <= 0
    BY <2>1, SlotsHeldType DEF DnsInv, OneReplyPerQuery
  <2>3. IsFiniteSet(Queries) /\ Cardinality(Queries) = 0
    <3>1. asked \in [Asker -> Nat] /\ \A e \in Asker : asked[e] = 0
      BY DEF DnsInit
    <3>2. QED
      BY <3>1, NoUnits DEF Queries
  <2>4. UsedSlots = {}
    BY DEF DnsInit, UsedSlots
  <2>5. Cardinality(UsedSlots) = 0
    BY <2>4, FS_EmptySet
  <2>6. QED
    BY <2>1, <2>2, <2>3, <2>5 DEF QueriesInv, SlotsOfQueries, NoQueryForgotten
<1>2. QueriesInv /\ DnsInv' /\ [DnsNext]_dnsVars => QueriesInv'
  <2> SUFFICES ASSUME QueriesInv, DnsInv', [DnsNext]_dnsVars PROVE QueriesInv'
    OBVIOUS
  <2>a. DnsTypeOK /\ SlotsOfQueries /\ NoQueryForgotten
    BY DEF QueriesInv, DnsInv
  <2>b. /\ \A e \in Asker : asked[e] \in Nat /\ replied[e] \in Nat
        /\ \A e \in Asker : SlotsHeld[e] \in Nat
        /\ Cardinality(Queries) \in Nat /\ IsFiniteSet(Queries)
        /\ Cardinality(UsedSlots) <= Cardinality(Queries)
    BY <2>a, SlotsHeldType, FS_CardinalityType DEF DnsTypeOK, SlotsOfQueries
  <2>0. ASSUME UNCHANGED <<pending, asked, replied>>,
               task' \in {"none", "starting"} => task \in {"none", "starting"}
        PROVE  QueriesInv'
    <3>1. Queries' = Queries /\ UsedSlots' = UsedSlots /\ SlotsHeld' = SlotsHeld
      BY <2>0 DEF Queries, Units, UsedSlots, SlotsHeld
    <3>2. QED
      BY <2>0, <2>a, <3>1 DEF QueriesInv, SlotsOfQueries, NoQueryForgotten
  <2>1. CASE DnsForwarderStart
    <3>1. /\ task = "none" /\ asked' = asked /\ replied' = replied
          /\ \A i \in PendingSlots : pending'[i] = Unused
      BY <2>1 DEF DnsForwarderStart
    <3>2. \A e \in Asker : asked'[e] = 0 /\ replied'[e] \in Nat /\ replied'[e] <= 0
      BY <2>a, <2>b, <3>1 DEF SlotsOfQueries, QueriesInv, DnsInv, OneReplyPerQuery
    <3>3. \A e \in Asker : SlotsHeld'[e] = 0
      <4>1. ASSUME NEW e \in Asker PROVE {i \in PendingSlots : pending'[i] = e} = {}
        BY <3>1, UnusedIsNobody
      <4>2. QED
        BY <4>1, FS_EmptySet DEF SlotsHeld
    <3>4. Queries' = Queries
      BY <3>1 DEF Queries, Units
    <3>5. Cardinality(UsedSlots') = 0
      <4>1. UsedSlots' = {}
        BY <3>1 DEF UsedSlots
      <4>2. QED
        BY <4>1, FS_EmptySet
    <3>6. QED
      BY <2>b, <3>2, <3>3, <3>4, <3>5 DEF QueriesInv, SlotsOfQueries, NoQueryForgotten
  <2>2. CASE TaskSetup \/ Tick \/ UNCHANGED dnsVars
    BY <2>0, <2>2 DEF TaskSetup, Tick, dnsVars
  <2>3. ASSUME NEW c \in Clients, NEW x \in TxIds, NEW q \in Questions,
               RecvQuery(c, x, q)
        PROVE  QueriesInv'
    <3> DEFINE a == <<c, x>>
    <3>1. /\ a \in Asker /\ task' = "serving"
          /\ asked' = [asked EXCEPT ![a] = @ + 1]
      BY <2>3 DEF RecvQuery, Asker
    <3>2. IsFiniteSet(Queries') /\ Cardinality(Queries') = Cardinality(Queries) + 1
      BY <2>a, <2>b, <3>1, QueryCounted
    <3>3. \A e \in Asker : asked'[e] = asked[e] + (IF e = a THEN 1 ELSE 0)
      BY <2>a, <3>1 DEF DnsTypeOK
    <3>4. CASE replied' = [replied EXCEPT ![a] = @ + 1] /\ pending' = pending
      <4>1. UsedSlots' = UsedSlots /\ SlotsHeld' = SlotsHeld
        BY <3>4 DEF UsedSlots, SlotsHeld
      <4>2. \A e \in Asker : replied'[e] = replied[e] + (IF e = a THEN 1 ELSE 0)
        BY <2>a, <3>1, <3>4 DEF DnsTypeOK
      <4>3. SlotsOfQueries'
        BY <2>b, <3>1, <3>2, <4>1, UsedCount DEF SlotsOfQueries
      <4>4. NoQueryForgotten'
        <5> SUFFICES ASSUME Cardinality(Queries') <= PENDING_MAX, NEW e \in Asker
                     PROVE  asked'[e] = replied'[e] + SlotsHeld'[e]
          BY DEF NoQueryForgotten
        <5>1. asked[e] = replied[e] + SlotsHeld[e]
          BY <2>a, <2>b, <3>2, DnsAssumption DEF NoQueryForgotten
        <5>2. QED
          BY <2>b, <3>3, <4>1, <4>2, <5>1
      <4>5. QED
        BY <4>3, <4>4 DEF QueriesInv
    <3>5. CASE PendingPut(c, x) /\ replied' = replied
      <4>1. PICK i \in PendingSlots :
              /\ pending' = [pending EXCEPT ![i] = a]
              /\ pending[i] = Unused \/ \A j \in PendingSlots : pending[j] # Unused
        <5>1. 0 \in PendingSlots
          BY DnsAssumption DEF PendingSlots
        <5>2. QED
          BY <3>5, <5>1 DEF PendingPut
      <4>2. a \in {Unused} \cup Asker /\ a # Unused
        BY <3>1, UnusedIsNobody
      <4>3. Cardinality(UsedSlots') = Cardinality(UsedSlots) + 1
                                         - (IF pending[i] # Unused THEN 1 ELSE 0)
        <5>1. Cardinality(UsedSlots') =
                 Cardinality(UsedSlots) + (IF a # Unused THEN 1 ELSE 0)
                                        - (IF pending[i] # Unused THEN 1 ELSE 0)
          BY <2>a, <4>1, <4>2, UsedStep
        <5>2. QED
          BY <4>2, <5>1, UsedCount
      <4>4. SlotsOfQueries'
        BY <2>b, <3>1, <3>2, <4>3, UsedCount DEF SlotsOfQueries
      <4>5. NoQueryForgotten'
        <5> SUFFICES ASSUME Cardinality(Queries') <= PENDING_MAX, NEW e \in Asker
                     PROVE  asked'[e] = replied'[e] + SlotsHeld'[e]
          BY DEF NoQueryForgotten
        <5>1. asked[e] = replied[e] + SlotsHeld[e]
          BY <2>a, <2>b, <3>2, DnsAssumption DEF NoQueryForgotten
        <5>2. Cardinality(UsedSlots) # PENDING_MAX
          BY <2>b, <3>2, UsedCount, DnsAssumption
        <5>3. pending[i] = Unused
          BY <4>1, <5>2, UsedCount
        <5>4. pending[i] # e
          BY <5>3, UnusedIsNobody
        <5>5. SlotsHeld'[e] = SlotsHeld[e] + (IF a = e THEN 1 ELSE 0)
                                           - (IF pending[i] = e THEN 1 ELSE 0)
          <6>1. \A j \in PendingSlots : pending'[j] = (IF j = i THEN a ELSE pending[j])
            BY <2>a, <4>1 DEF DnsTypeOK
          <6> HIDE DEF a
          <6>2. QED
            BY ONLY <4>2, <6>1, SlotCount
        <5>6. QED
          BY <2>b, <3>3, <3>5, <5>1, <5>4, <5>5
      <4>6. QED
        BY <4>4, <4>5 DEF QueriesInv
    <3>6. QED
      BY <2>3, <3>4, <3>5 DEF RecvQuery, SendReply
  <2>4. ASSUME NEW x \in TxIds, NEW q \in Questions, RecvResponse(x, q)
        PROVE  QueriesInv'
    <3>1. task' = task /\ asked' = asked
      BY <2>4 DEF RecvResponse
    <3>2. ASSUME NEW i \in PendingSlots, PendingMatch(i, x),
                 SendReply(pending[i][1], x, q, elapsed),
                 pending' = [pending EXCEPT ![i] = Unused]
          PROVE  QueriesInv'
      <4>1. pending[i] \in Asker /\ pending[i] = <<pending[i][1], x>>
        BY <2>a, <3>2 DEF PendingMatch, Waiting, DnsTypeOK, Asker
      <4>2. \A e \in Asker :
               replied'[e] = replied[e] + (IF pending[i] = e THEN 1 ELSE 0)
        BY <2>a, <3>2, <4>1 DEF SendReply, DnsTypeOK
      <4>3. Queries' = Queries
        BY <3>1 DEF Queries, Units
      <4>4. Cardinality(UsedSlots') <= Cardinality(UsedSlots)
        <5>1. Cardinality(UsedSlots') =
                 Cardinality(UsedSlots) + (IF Unused # Unused THEN 1 ELSE 0)
                                        - (IF pending[i] # Unused THEN 1 ELSE 0)
          BY <2>a, <3>2, UsedStep
        <5>2. QED
          BY <5>1, UsedCount
      <4>5. SlotsOfQueries'
        BY <2>a, <2>b, <3>1, <4>3, <4>4, UsedCount DEF SlotsOfQueries
      <4>6. NoQueryForgotten'
        <5> SUFFICES ASSUME Cardinality(Queries') <= PENDING_MAX, NEW e \in Asker
                     PROVE  asked'[e] = replied'[e] + SlotsHeld'[e]
          BY DEF NoQueryForgotten
        <5>1. asked[e] = replied[e] + SlotsHeld[e]
          BY <2>a, <4>3 DEF NoQueryForgotten
        <5>2. SlotsHeld'[e] = SlotsHeld[e] + (IF Unused = e THEN 1 ELSE 0)
                                           - (IF pending[i] = e THEN 1 ELSE 0)
          <6>1. /\ Unused \in {Unused} \cup Asker
                /\ \A j \in PendingSlots :
                      pending'[j] = (IF j = i THEN Unused ELSE pending[j])
            BY <2>a, <3>2 DEF DnsTypeOK
          <6>2. QED
            BY ONLY <6>1, SlotCount
        <5>3. Unused # e
          BY UnusedIsNobody
        <5>4. QED
          BY <2>b, <3>1, <4>2, <5>1, <5>2, <5>3
      <4>7. QED
        BY <4>5, <4>6 DEF QueriesInv
    <3>3. CASE pending' = pending /\ replied' = replied
      BY <2>0, <3>1, <3>3
    <3>4. QED
      BY <2>4, <3>2, <3>3 DEF RecvResponse
  <2>5. ASSUME NEW x \in TxIds, NEW q \in Questions, Lose(x, q) \/ Duplicate(x, q)
        PROVE  QueriesInv'
    BY <2>0, <2>5 DEF Lose, Duplicate
  <2>6. QED
    BY <2>1, <2>2, <2>3, <2>4, <2>5 DEF DnsNext
<1>3. QueriesInv => NoQueryForgotten
  BY DEF QueriesInv
<1>4. QED
  BY <1>1, <1>2, <1>3, DnsInvariant, PTL DEF DnsSpec

=============================================================================
