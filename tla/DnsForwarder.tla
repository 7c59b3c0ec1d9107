---------------------------- MODULE DnsForwarder ----------------------------
(***************************************************************************)
(* The DNS forwarder of the bridge (dns_forwarder.c).  One task reads UDP  *)
(* datagrams: a client's query is answered from a small cache or noted in  *)
(* a table of pending queries and sent upstream with the client's own      *)
(* transaction id; a response is matched to a pending entry by that id     *)
(* alone, sent to the entry's client and cached.  Each datagram is handled *)
(* in one action.  The upstream server and the network are external: they  *)
(* lose, duplicate, delay and reorder.                                     *)
(*                                                                         *)
(* An operator X_... beside a definition X is a mistake in that code which *)
(* the properties must notice; no specification uses it.                   *)
(***************************************************************************)
EXTENDS Integers, FiniteSets, Functions

CONSTANTS
    Clients, TxIds, Questions,
    KeyOf,          \* dns_question_hash of each question ...
    NoKey,          \* ... or this, if dns_question_len finds no question
    PENDING_MAX, CACHE_ENTRIES, CACHE_TTL_SEC,
    TickWrap,       \* seconds until the 32-bit millisecond tick wraps
    MaxTime,        \* bound: seconds observed
    MaxQueries,     \* bound: queries received
    MaxLost,        \* bound: exchanges with upstream lost
    MaxDuplicates   \* bound: responses duplicated

ASSUME DnsAssumption ==
    /\ IsFiniteSet(Clients) /\ IsFiniteSet(TxIds) /\ IsFiniteSet(Questions)
    /\ PENDING_MAX \in Nat \ {0} /\ CACHE_ENTRIES \in Nat \ {0}
    /\ CACHE_TTL_SEC \in Nat \ {0} /\ TickWrap \in Nat \ {0}
    /\ MaxTime \in Nat /\ MaxQueries \in Nat /\ MaxLost \in Nat /\ MaxDuplicates \in Nat

VARIABLES
    task,           \* "none" (s_task is NULL), "starting", "serving", "dead"
    pending,        \* s_pending: client and id of each slot in use
    cache,          \* s_cache
    elapsed,        \* seconds since boot
    inFlight,       \* exchanges with upstream under way, by id and question
    lost,           \* exchanges lost so far, by id
    duplicates,     \* responses duplicated so far
    asked,          \* history: queries received, by client and id
    askedFor,       \* history: what was asked: client, id, question
    replied,        \* history: replies sent, by client and id
    reply           \* history: the reply sent last

dnsVars == <<task, pending, cache, elapsed, inFlight, lost, duplicates, asked,
             askedFor, replied, reply>>

\* Slots are numbered from 0, as in the code; <<>> is a slot not in use.
PendingSlots == 0 .. PENDING_MAX - 1
CacheSlots == 0 .. CACHE_ENTRIES - 1
Unused == <<>>
\* A client together with the id of one of its queries.
Asker == Clients \X TxIds

\* now_sec: seconds computed from the tick count.
NowSec == elapsed % TickWrap

DnsInit ==
    /\ task = "none"
    /\ pending = [i \in PendingSlots |-> Unused]
    /\ cache = [i \in CacheSlots |-> Unused]
    /\ elapsed = 0
    /\ inFlight = [e \in TxIds \X Questions |-> 0]
    /\ lost = [x \in TxIds |-> 0]
    /\ duplicates = 0
    /\ asked = [e \in Asker |-> 0]
    /\ askedFor = {}
    /\ replied = [e \in Asker |-> 0]
    /\ reply = Unused

-----------------------------------------------------------------------------
(* The two tables *)

PendingPut_FirstOfAll(c, x) == pending' = [pending EXCEPT ![0] = <<c, x>>]

\* pending_put: the first slot not in use; slot 0 when all are.
PendingPut(c, x) ==
    \/ \E i \in PendingSlots :
          /\ pending[i] = Unused
          /\ \A j \in 0 .. i - 1 : pending[j] # Unused
          /\ pending' = [pending EXCEPT ![i] = <<c, x>>]
    \/ /\ \A i \in PendingSlots : pending[i] # Unused
       /\ pending' = [pending EXCEPT ![0] = <<c, x>>]

\* Slot i holds a query with id x.
Waiting(i, x) == pending[i] # Unused /\ pending[i][2] = x

\* pending_get finds slot i for id x: the first one.
PendingMatch(i, x) == Waiting(i, x) /\ \A j \in 0 .. i - 1 : ~Waiting(j, x)

Live_NeverExpires(i, q) == cache[i] # Unused /\ cache[i].key = KeyOf[q]

\* Entry i answers question q and has not expired.
Live(i, q) ==
    /\ cache[i] # Unused
    /\ cache[i].key = KeyOf[q]
    /\ cache[i].expire > NowSec

\* cache_lookup finds entry i for question q: the first one.
CacheHit(i, q) == Live(i, q) /\ \A j \in 0 .. i - 1 : ~Live(j, q)

\* Entries that the scan of cache_store regards as candidates.
Old == {i \in CacheSlots : cache[i].expire < NowSec + 1}

\* The slot cache_store picks: the first empty one; else the first of the
\* earliest to expire among Old; else slot 0, whether or not it is the oldest.
Victim(i) ==
    \/ /\ cache[i] = Unused
       /\ \A j \in 0 .. i - 1 : cache[j] # Unused
    \/ /\ \A j \in CacheSlots : cache[j] # Unused
       /\ i \in Old
       /\ \A j \in Old : \/ cache[i].expire < cache[j].expire
                         \/ cache[i].expire = cache[j].expire /\ i <= j
    \/ /\ \A j \in CacheSlots : cache[j] # Unused
       /\ Old = {}
       /\ i = 0

CacheStore(q) ==
    \E i \in CacheSlots :
        /\ Victim(i)
        /\ cache' = [cache EXCEPT ![i] =
                        [key |-> KeyOf[q], expire |-> NowSec + CACHE_TTL_SEC,
                         question |-> q, stored |-> elapsed]]

-----------------------------------------------------------------------------
(* The task *)

\* dns_forwarder_start, called whenever the access point starts: does nothing
\* once s_task is set.  xTaskCreate may fail and leave it NULL.
DnsForwarderStart ==
    /\ task = "none"
    /\ pending' = [i \in PendingSlots |-> Unused]
    /\ cache' = [i \in CacheSlots |-> Unused]
    /\ task' \in {"none", "starting"}
    /\ UNCHANGED <<elapsed, inFlight, lost, duplicates, asked, askedFor, replied, reply>>

\* Resolve upstream, open and bind the socket; any failure deletes the task.
TaskSetup ==
    /\ task = "starting"
    /\ task' \in {"serving", "dead"}
    /\ UNCHANGED <<pending, cache, elapsed, inFlight, lost, duplicates, asked,
                   askedFor, replied, reply>>

\* lwip_sendto a client: an answer to q that came from upstream at the time
\* stored.  wrapped: the tick has wrapped since.
SendReply(c, x, q, stored) ==
    /\ replied' = [replied EXCEPT ![<<c, x>>] = @ + 1]
    /\ reply' = [to |-> c, txid |-> x, question |-> q, age |-> elapsed - stored,
                 wrapped |-> elapsed \div TickWrap # stored \div TickWrap]

\* A query (the response bit is clear) arrives from client c.
RecvQuery(c, x, q) ==
    /\ task = "serving"
    /\ SumFunction(asked) < MaxQueries
    /\ asked' = [asked EXCEPT ![<<c, x>>] = @ + 1]
    /\ askedFor' = askedFor \cup {<<c, x, q>>}
    /\ \/ /\ KeyOf[q] # NoKey
          /\ \E i \in CacheSlots :
                /\ CacheHit(i, q)
                /\ SendReply(c, x, cache[i].question, cache[i].stored)
          /\ UNCHANGED <<pending, inFlight>>
       \/ /\ KeyOf[q] = NoKey \/ \A i \in CacheSlots : ~Live(i, q)
          /\ PendingPut(c, x)
          /\ inFlight' = [inFlight EXCEPT ![<<x, q>>] = @ + 1]
          /\ UNCHANGED <<replied, reply>>
    /\ UNCHANGED <<task, cache, elapsed, lost, duplicates>>

RecvResponse_SlotKept(x, q) ==
    /\ task = "serving"
    /\ inFlight[<<x, q>>] > 0
    /\ inFlight' = [inFlight EXCEPT ![<<x, q>>] = @ - 1]
    /\ \/ /\ \E i \in PendingSlots :
                PendingMatch(i, x) /\ SendReply(pending[i][1], x, q, elapsed)
          /\ IF KeyOf[q] # NoKey THEN CacheStore(q) ELSE UNCHANGED cache
       \/ /\ \A i \in PendingSlots : ~Waiting(i, x)
          /\ UNCHANGED <<cache, replied, reply>>
    /\ UNCHANGED <<task, pending, elapsed, lost, duplicates, asked, askedFor>>

RecvResponse_ToFirstSlot(x, q) ==
    /\ task = "serving"
    /\ inFlight[<<x, q>>] > 0
    /\ inFlight' = [inFlight EXCEPT ![<<x, q>>] = @ - 1]
    /\ \/ /\ pending[0] # Unused
          /\ SendReply(pending[0][1], x, q, elapsed)
          /\ pending' = [pending EXCEPT ![0] = Unused]
          /\ IF KeyOf[q] # NoKey THEN CacheStore(q) ELSE UNCHANGED cache
       \/ /\ pending[0] = Unused
          /\ UNCHANGED <<pending, cache, replied, reply>>
    /\ UNCHANGED <<task, elapsed, lost, duplicates, asked, askedFor>>

\* A response (the bit is set) arrives; its sender is not looked at.  It goes
\* to the client of the first pending entry with its id, and is then cached;
\* without such an entry it is dropped.
RecvResponse(x, q) ==
    /\ task = "serving"
    /\ inFlight[<<x, q>>] > 0
    /\ inFlight' = [inFlight EXCEPT ![<<x, q>>] = @ - 1]
    /\ \/ /\ \E i \in PendingSlots :
                /\ PendingMatch(i, x)
                /\ SendReply(pending[i][1], x, q, elapsed)
                /\ pending' = [pending EXCEPT ![i] = Unused]
          /\ IF KeyOf[q] # NoKey THEN CacheStore(q) ELSE UNCHANGED cache
       \/ /\ \A i \in PendingSlots : ~Waiting(i, x)
          /\ UNCHANGED <<pending, cache, replied, reply>>
    /\ UNCHANGED <<task, elapsed, lost, duplicates, asked, askedFor>>

-----------------------------------------------------------------------------
(* The outside: network, upstream server, time *)

Lose(x, q) ==
    /\ inFlight[<<x, q>>] > 0
    /\ SumFunction(lost) < MaxLost
    /\ inFlight' = [inFlight EXCEPT ![<<x, q>>] = @ - 1]
    /\ lost' = [lost EXCEPT ![x] = @ + 1]
    /\ UNCHANGED <<task, pending, cache, elapsed, duplicates, asked, askedFor, replied, reply>>

Duplicate(x, q) ==
    /\ inFlight[<<x, q>>] > 0
    /\ duplicates < MaxDuplicates
    /\ inFlight' = [inFlight EXCEPT ![<<x, q>>] = @ + 1]
    /\ duplicates' = duplicates + 1
    /\ UNCHANGED <<task, pending, cache, elapsed, lost, asked, askedFor, replied, reply>>

Tick ==
    /\ elapsed < MaxTime
    /\ elapsed' = elapsed + 1
    /\ UNCHANGED <<task, pending, cache, inFlight, lost, duplicates, asked,
                   askedFor, replied, reply>>

DnsNext ==
    \/ DnsForwarderStart
    \/ TaskSetup
    \/ \E c \in Clients, x \in TxIds, q \in Questions : RecvQuery(c, x, q)
    \/ \E x \in TxIds, q \in Questions :
          RecvResponse(x, q) \/ Lose(x, q) \/ Duplicate(x, q)
    \/ Tick

DnsSpec == DnsInit /\ [][DnsNext]_dnsVars

\* The task reads its socket: a response that is not lost is handled.
DnsFairSpec ==
    /\ DnsSpec
    /\ \A x \in TxIds, q \in Questions : WF_dnsVars(RecvResponse(x, q))

-----------------------------------------------------------------------------
(* Properties *)

DnsTypeOK ==
    /\ task \in {"none", "starting", "serving", "dead"}
    /\ pending \in [PendingSlots -> {Unused} \cup Asker]
    /\ inFlight \in [TxIds \X Questions -> Nat]
    /\ lost \in [TxIds -> Nat]
    /\ asked \in [Asker -> Nat]
    /\ askedFor \subseteq Clients \X TxIds \X Questions
    /\ replied \in [Asker -> Nat]

\* How many slots wait for an answer to a client and id.
SlotsHeld == [e \in Asker |->
                 Cardinality({i \in PendingSlots : pending[i] = e})]

\* Every reply consumes a query of its client with that id: whatever responses
\* upstream repeats, and however often the tables overflow, no client gets
\* more answers than it asked questions, or one it did not ask for.
OneReplyPerQuery ==
    \A e \in Asker : replied[e] + SlotsHeld[e] <= asked[e]

\* A table of counts as a set, with one element for each thing counted.
Units(f) == UNION {{d} \X (1 .. f[d]) : d \in DOMAIN f}

\* The queries received, and the exchanges under way with id x.
Queries == Units(asked)
Exchanges(x) == Units([q \in Questions |-> inFlight[<<x, q>>]])

\* A pending slot is never left behind by the forwarder itself: every slot in
\* use has its own exchange under way, or one that the network lost.
EverySlotHasExchange ==
    \A x \in TxIds :
        Cardinality({i \in PendingSlots : Waiting(i, x)})
            <= Cardinality(Exchanges(x)) + lost[x]

\* Until there were more queries than slots, no query is forgotten: each one was
\* answered or still holds a slot, however ids are shared and responses repeated
\* or reordered.
NoQueryForgotten ==
    Cardinality(Queries) <= PENDING_MAX =>
        \A e \in Asker : asked[e] = replied[e] + SlotsHeld[e]

\* An answer is served from the cache CACHE_TTL_SEC or more after it came from
\* upstream only if the 32-bit millisecond tick has wrapped in between: now_sec
\* then starts again at 0, and an entry stored shortly before stays valid until
\* the clock has come round to its expiry.
FreshAnswers ==
    reply # Unused => reply.age < CACHE_TTL_SEC \/ reply.wrapped

\* A client that did not ask the question it gets an answer to shares its
\* transaction id with a client that did: identical ids are the only way
\* answers cross (as long as no two questions have the same hash).
CrossedOnlyBySharedId ==
    reply # Unused =>
        \/ <<reply.to, reply.txid, reply.question>> \in askedFor
        \/ \E c \in Clients \ {reply.to}, q \in Questions :
              /\ <<c, reply.txid, reply.question>> \in askedFor
              /\ <<reply.to, reply.txid, q>> \in askedFor

\* Every query is answered in the end, be it from upstream or from the cache,
\* but for those the network lost (one per loss, with the same id) and as long
\* as the table was not overrun: nothing is left waiting by the forwarder
\* itself, also when ids are shared, responses repeated or reordered.
AllAnswered ==
    <>[](Cardinality(Queries) <= PENDING_MAX =>
            \A e \in Asker : asked[e] <= replied[e] + lost[e[2]])

\* "forward queries to upstream, return replies to client": a reply answers a
\* question that its receiver asked with that id.
RepliesAnswerTheAsker ==
    reply # Unused => <<reply.to, reply.txid, reply.question>> \in askedFor

=============================================================================
