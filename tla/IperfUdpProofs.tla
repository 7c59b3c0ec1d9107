--------------------------- MODULE IperfUdpProofs ---------------------------
(***************************************************************************)
(* Proofs about the UDP half of the iperf engine, for any number of tests, *)
(* endpoints and datagrams and whatever the network does with them.        *)
(***************************************************************************)
EXTENDS IperfUdp, TLAPS

\* A client that has started has an endpoint.
Placed == \A t \in Tests : udpPc[t] # "off" => endpoint[t] \in Endpoints

\* What is in flight, kept or received comes from the endpoint of its test.
FrameOrigin == \A f \in frames : udpPc[f.test] # "off" /\ f.from = endpoint[f.test]
SessionOrigin ==
    client # None =>
        owner # None /\ udpPc[owner] # "off" /\ client = endpoint[owner]
ReportOrigin == \A r \in reports : udpPc[r.owner] # "off" /\ r.to = endpoint[r.owner]
ReceivedOrigin ==
    \A t \in Tests : \A r \in {report[t], result[t]} \ {None} :
        /\ udpPc[t] # "off" /\ udpPc[r.owner] # "off"
        /\ endpoint[r.owner] = endpoint[t]

\* Report r says what the server saw of the undisturbed test it is about.
Truthful(r) ==
    Clean(r.owner) =>
        history[r.owner].reported = 1 /\ r.counters.rx = history[r.owner].seen

HistoryFollows ==
    /\ \A t \in Tests : Clean(t) =>
          /\ history[t].reported <= 1
          /\ history[t].reported = 1 => history[t].seen > 0
          /\ owner = t => /\ counters.rx = history[t].seen
                          /\ nextId = -1 <=> history[t].reported = 1
    /\ \A r \in reports : Truthful(r)
    /\ \A t \in Tests : \A r \in {report[t], result[t]} \ {None} : Truthful(r)

\* The inductive invariant.
UdpInv ==
    /\ UdpTypeOK /\ SequenceAccounting /\ Placed
    /\ FrameOrigin /\ SessionOrigin /\ ReportOrigin /\ ReceivedOrigin
    /\ HistoryFollows

(***************************************************************************)
(* What the network keeps of what it is given.                             *)
(***************************************************************************)
LEMMA PutSubset ==
    ASSUME NEW net, NEW m, NEW max
    PROVE  Put(net, m, max) \subseteq net \cup {m}
  BY DEF Put

(***************************************************************************)
(* iperf_udp_server_recv counts every number up to the next expected one   *)
(* as received or skipped, and a late one apart.                           *)
(***************************************************************************)
LEMMA CountStep ==
    ASSUME NEW c \in Counters, NEW n \in Nat, NEW id \in Nat, NEW final \in BOOLEAN,
           c.rx + c.err = n + c.oos
    PROVE  LET d == Count(c, n, id)
               m == NextAfter(n, id, final)
           IN  /\ d \in Counters /\ d.rx = c.rx + 1
               /\ m \in Nat \cup {-1} /\ (m = -1 <=> final)
               /\ m >= 0 => d.rx + d.err = m + d.oos
<1> DEFINE d == Count(c, n, id)
           m == NextAfter(n, id, final)
<1>1. c.rx \in Nat /\ c.err \in Nat /\ c.oos \in Nat
  BY DEF Counters
<1>2. /\ d.rx = c.rx + 1
      /\ d.err = c.err + (IF id > n THEN id - n ELSE 0)
      /\ d.oos = c.oos + (IF id < n THEN 1 ELSE 0)
  BY DEF Count
<1>3. d \in Counters
  BY <1>1 DEF Count, Counters
<1>4. m \in Nat \cup {-1} /\ (m = -1 <=> final)
  BY DEF NextAfter
<1>5. m >= 0 => m = IF id >= n THEN id + 1 ELSE n
  BY DEF NextAfter
<1> HIDE DEF d, m
<1>6. m >= 0 => d.rx + d.err = m + d.oos
  BY <1>1, <1>2, <1>5
<1>7. QED
  BY <1>2, <1>3, <1>4, <1>6 DEF d, m

(***************************************************************************)
(* A datagram that the session takes.                                      *)
(***************************************************************************)
LEMMA ServerRecvStep ==
    ASSUME UdpInv, NEW f \in frames, ServerRecv(f)
    PROVE  UdpInv'
<1> USE IperfUdpAssumption
<1> DEFINE fresh == StartSession(f.from)
           n == IF fresh THEN 0 ELSE nextId
           c == IF fresh THEN Zero ELSE counters
           counting == n >= 0
           now == IF counting THEN Count(c, n, f.id) ELSE c
           own == IF fresh THEN f.test ELSE owner
           sent == [to |-> f.from, counters |-> now, owner |-> own]
<1>1. /\ f.from \in Endpoints /\ f.test \in Tests /\ f.id \in Nat /\ f.final \in BOOLEAN
      /\ f.from # None
  BY DEF UdpInv, UdpTypeOK
<1>2. /\ client' = f.from /\ counters' = now /\ expired' = FALSE /\ owner' = own
      /\ nextId' = IF counting THEN NextAfter(n, f.id, f.final) ELSE n
      /\ Answer(f, now, own) /\ Deliver(frames, f)
      /\ SameSession(f.from) \/ fresh
      /\ UNCHANGED clientVars
  BY DEF ServerRecv
<1>3. own \in Tests /\ udpPc[own] # "off" /\ f.from = endpoint[own]
  <2>1. CASE fresh
    BY <1>1, <2>1 DEF UdpInv, FrameOrigin
  <2>2. CASE ~fresh
    <3>1. client = f.from
      BY <1>2, <2>2 DEF SameSession
    <3>2. QED
      BY <1>1, <2>2, <3>1 DEF UdpInv, UdpTypeOK, SessionOrigin
  <2>3. QED
    BY <2>1, <2>2
<1>4. n \in Nat \cup {-1} /\ c \in Counters /\ (counting => c.rx + c.err = n + c.oos)
  <2>1. Zero \in Counters /\ Zero.rx = 0 /\ Zero.err = 0 /\ Zero.oos = 0
    BY DEF Zero, Counters
  <2>2. QED
    BY <2>1 DEF UdpInv, UdpTypeOK, SequenceAccounting
<1>5. /\ now \in Counters /\ nextId' \in Nat \cup {-1}
      /\ now.rx = IF counting THEN c.rx + 1 ELSE c.rx
      /\ nextId' >= 0 => now.rx + now.err = nextId' + now.oos
      /\ nextId' = -1 <=> ~counting \/ f.final
  <2> HIDE DEF n, c
  <2>1. CASE counting
    <3>1. n \in Nat
      BY <1>4, <2>1
    <3>2. QED
      BY <1>1, <1>2, <1>4, <2>1, <3>1, CountStep
  <2>2. CASE ~counting
    <3>1. n = -1
      BY <1>4, <2>2
    <3>2. QED
      BY <1>2, <1>4, <2>2, <3>1
  <2>3. QED
    BY <2>1, <2>2
<1>6. /\ frames' \subseteq frames /\ faults' \in Nat
      /\ reports' \subseteq reports \cup {sent}
      /\ ~f.final => reports' = reports
  <2>1. frames' \subseteq frames /\ faults' \in Nat
    BY <1>2 DEF Deliver, UdpInv, UdpTypeOK
  <2>2. reports' \subseteq reports \cup {sent} /\ (~f.final => reports' = reports)
    BY <1>2, PutSubset DEF Answer
  <2>3. QED
    BY <2>1, <2>2
<1>7. sent \in Reports /\ sent.to = f.from /\ sent.owner = own /\ sent.counters = now
  BY <1>1, <1>3, <1>5 DEF Reports
<1>8. \A t \in Tests : history[t] = Disturbed \/ history[t] \in [seen : Nat, reported : Nat]
  BY DEF UdpInv, UdpTypeOK
<1>9. history' = [t \in Tests |->
              CASE ~Clean(t) -> Disturbed
                [] t # f.test -> IF t = own THEN Disturbed ELSE history[t]
                [] own # t \/ (fresh /\ history[t].seen > 0) -> Disturbed
                [] OTHER -> Seen(history[t], counting /\ f.final)]
  BY DEF ServerRecv
<1> HIDE DEF fresh, n, c, counting, now, own, sent
<1>10. ASSUME NEW t \in Tests, Clean(t)'
       PROVE  /\ Clean(t)
              /\ t # f.test => own # t /\ history'[t] = history[t]
              /\ t = f.test => /\ own = t /\ ~(fresh /\ history[t].seen > 0)
                               /\ history'[t] = Seen(history[t], counting /\ f.final)
  BY <1>9, <1>10 DEF Clean
<1>11. history' \in [Tests -> [seen : Nat, reported : Nat] \cup {Disturbed}]
  <2>1. ASSUME NEW h \in [seen : Nat, reported : Nat], NEW b
        PROVE  Seen(h, b) \in [seen : Nat, reported : Nat]
    BY DEF Seen
  <2>2. QED
    BY <1>8, <1>9, <2>1 DEF Clean
<1>12. UdpTypeOK'
  BY <1>1, <1>2, <1>3, <1>5, <1>6, <1>7, <1>11 DEF UdpInv, UdpTypeOK, clientVars
<1>13. SequenceAccounting'
  BY <1>2, <1>5 DEF SequenceAccounting
<1>14. Placed' /\ FrameOrigin' /\ SessionOrigin' /\ ReportOrigin'
  BY <1>1, <1>2, <1>3, <1>6, <1>7
     DEF UdpInv, Placed, FrameOrigin, SessionOrigin, ReportOrigin, clientVars
<1>15. ReceivedOrigin'
  BY <1>2 DEF UdpInv, ReceivedOrigin, clientVars
<1>16. ASSUME Clean(f.test)'
       PROVE  LET g == history'[f.test]
              IN  /\ g.reported <= 1 /\ (g.reported = 1 => g.seen > 0)
                  /\ now.rx = g.seen
                  /\ nextId' = -1 <=> g.reported = 1
                  /\ history[f.test].reported = 1 => g = history[f.test]
  <2> DEFINE h == history[f.test]
             g == history'[f.test]
  <2>1. /\ Clean(f.test) /\ own = f.test /\ ~(fresh /\ h.seen > 0)
        /\ g = Seen(h, counting /\ f.final)
    BY <1>1, <1>10, <1>16
  <2>2. h \in [seen : Nat, reported : Nat]
    BY <1>1, <1>8, <2>1 DEF Clean
  <2>3. h.reported <= 1 /\ (h.reported = 1 => h.seen > 0)
    BY <1>1, <2>1 DEF UdpInv, HistoryFollows
  <2>4. /\ g.seen = IF h.reported = 0 THEN h.seen + 1 ELSE h.seen
        /\ g.reported = IF counting /\ f.final THEN h.reported + 1 ELSE h.reported
    BY <2>1 DEF Seen
  <2>5. ASSUME h.reported = 1, ~counting PROVE g = h
    BY <2>1, <2>2, <2>5 DEF Seen
  <2>6. h.seen \in Nat /\ h.reported \in Nat
    BY <2>2
  <2> HIDE DEF h, g
  <2>7. CASE fresh
    <3>1. h.seen = 0 /\ h.reported = 0 /\ counting /\ c.rx = 0
      BY <2>1, <2>3, <2>6, <2>7 DEF counting, n, c, Zero
    <3>2. QED
      BY <1>1, <1>5, <2>4, <2>6, <3>1 DEF h, g
  <2>8. CASE ~fresh
    <3>1. /\ owner = f.test /\ c = counters /\ n = nextId
          /\ c.rx = h.seen /\ (nextId = -1 <=> h.reported = 1)
      BY <1>1, <2>1, <2>8 DEF own, c, n, h, UdpInv, HistoryFollows
    <3>2. counting <=> h.reported = 0
      BY <1>4, <2>3, <2>6, <3>1 DEF counting
    <3>3. QED
      BY <1>1, <1>5, <2>3, <2>4, <2>5, <2>6, <3>1, <3>2 DEF h, g
  <2>9. QED
    BY <2>7, <2>8
<1>17. ASSUME NEW r, r.owner \in Tests, Truthful(r)
       PROVE  Truthful(r)'
  <2> SUFFICES ASSUME Clean(r.owner)'
               PROVE  /\ history'[r.owner].reported = 1
                      /\ r.counters.rx = history'[r.owner].seen
    BY DEF Truthful
  <2>1. Clean(r.owner)
    BY <1>10, <1>17
  <2>2. history[r.owner].reported = 1 /\ r.counters.rx = history[r.owner].seen
    BY <1>17, <2>1 DEF Truthful
  <2>3. history'[r.owner] = history[r.owner]
    BY <1>10, <1>16, <1>17, <2>2
  <2>4. QED
    BY <2>2, <2>3
<1>18. ASSUME NEW r, r = sent, f.final PROVE Truthful(r)'
  <2> SUFFICES ASSUME Clean(r.owner)'
               PROVE  /\ history'[r.owner].reported = 1
                      /\ r.counters.rx = history'[r.owner].seen
    BY DEF Truthful
  <2>1. r.owner = own /\ r.counters = now
    BY <1>7, <1>18
  <2>2. r.owner \in Tests
    BY <1>3, <2>1
  <2>3. r.owner = f.test
    BY <1>10, <2>1, <2>2
  <2>4. nextId' = -1
    BY <1>5, <1>18
  <2>5. QED
    BY <1>16, <2>1, <2>3, <2>4
<1>19. HistoryFollows'
  <2>1. ASSUME NEW t \in Tests, Clean(t)'
        PROVE  /\ history'[t].reported <= 1
               /\ history'[t].reported = 1 => history'[t].seen > 0
               /\ owner' = t => /\ counters'.rx = history'[t].seen
                                /\ nextId' = -1 <=> history'[t].reported = 1
    <3>1. CASE t = f.test
      BY <1>2, <1>16, <2>1, <3>1
    <3>2. CASE t # f.test
      <4>1. Clean(t) /\ own # t /\ history'[t] = history[t]
        BY <1>10, <2>1, <3>2
      <4>2. QED
        BY <1>2, <4>1 DEF UdpInv, HistoryFollows
    <3>3. QED
      BY <3>1, <3>2
  <2>2. ASSUME NEW r \in reports' PROVE Truthful(r)'
    <3>1. CASE r \in reports
      <4>1. r.owner \in Tests /\ Truthful(r)
        BY <3>1 DEF UdpInv, UdpTypeOK, Reports, HistoryFollows
      <4>2. QED
        BY <1>17, <4>1
    <3>2. CASE r \notin reports
      BY <1>6, <1>18, <2>2, <3>2
    <3>3. QED
      BY <3>1, <3>2
  <2>3. ASSUME NEW t \in Tests, NEW r \in {report'[t], result'[t]} \ {None}
        PROVE  Truthful(r)'
    <3>1. r \in {report[t], result[t]} \ {None}
      BY <1>2, <2>3 DEF clientVars
    <3>2. r.owner \in Tests /\ Truthful(r)
      BY <3>1 DEF UdpInv, UdpTypeOK, Reports, HistoryFollows
    <3>3. QED
      BY <1>17, <3>2
  <2>4. QED
    BY <2>1, <2>2, <2>3 DEF HistoryFollows
<1>20. QED
  BY <1>12, <1>13, <1>14, <1>15, <1>19 DEF UdpInv

(***************************************************************************)
(* Steps that leave the session alone: tests may be disturbed, clients     *)
(* move on, and what is received was sent.                                 *)
(***************************************************************************)
LEMMA QuietStep ==
    ASSUME UdpInv, UdpTypeOK', UNCHANGED <<client, nextId, counters, owner>>,
           \A t \in Tests : history'[t] = history[t] \/ history'[t] = Disturbed,
           \A t \in Tests : udpPc[t] # "off" =>
               udpPc'[t] # "off" /\ endpoint'[t] = endpoint[t],
           \A t \in Tests : udpPc'[t] # "off" => endpoint'[t] \in Endpoints,
           \A f \in frames' :
               f \in frames \/ (udpPc[f.test] # "off" /\ f.from = endpoint[f.test]),
           reports' \subseteq reports,
           \A t \in Tests : \A r \in {report'[t], result'[t]} \ {None} :
               \/ r \in {report[t], result[t]}
               \/ udpPc[t] # "off" /\ r \in reports /\ r.to = endpoint[t]
    PROVE  UdpInv'
<1> USE IperfUdpAssumption
<1>1. SequenceAccounting' /\ Placed'
  BY DEF UdpInv, SequenceAccounting, Placed
<1>2. FrameOrigin'
  <2> SUFFICES ASSUME NEW f \in frames'
               PROVE  udpPc'[f.test] # "off" /\ f.from = endpoint'[f.test]
    BY DEF FrameOrigin
  <2>1. f.test \in Tests
    BY DEF UdpTypeOK
  <2>2. udpPc[f.test] # "off" /\ f.from = endpoint[f.test]
    BY DEF UdpInv, FrameOrigin
  <2>3. QED
    BY <2>1, <2>2
<1>3. SessionOrigin'
  BY DEF UdpInv, UdpTypeOK, SessionOrigin
<1>4. ASSUME NEW r \in reports
      PROVE  /\ r.owner \in Tests /\ Truthful(r)
             /\ udpPc[r.owner] # "off" /\ r.to = endpoint[r.owner]
  <2>1. r.owner \in Tests
    BY DEF UdpInv, UdpTypeOK, Reports
  <2>2. QED
    BY <2>1 DEF UdpInv, ReportOrigin, HistoryFollows
<1>5. ReportOrigin'
  BY <1>4 DEF ReportOrigin
<1>6. ASSUME NEW t \in Tests, NEW r \in {report'[t], result'[t]} \ {None}
      PROVE  /\ r.owner \in Tests /\ Truthful(r)
             /\ udpPc[t] # "off" /\ udpPc[r.owner] # "off"
             /\ endpoint[r.owner] = endpoint[t]
  <2>1. CASE r \in {report[t], result[t]}
    <3>1. r.owner \in Tests
      BY <2>1 DEF UdpInv, UdpTypeOK, Reports
    <3>2. QED
      BY <2>1, <3>1 DEF UdpInv, ReceivedOrigin, HistoryFollows
  <2>2. CASE udpPc[t] # "off" /\ r \in reports /\ r.to = endpoint[t]
    BY <1>4, <2>2
  <2>3. QED
    BY <2>1, <2>2
<1>7. ReceivedOrigin'
  BY <1>6 DEF ReceivedOrigin
<1>8. \A t \in Tests : Clean(t)' => Clean(t) /\ history'[t] = history[t]
  BY DEF Clean, Disturbed
<1>9. ASSUME NEW r, r.owner \in Tests, Truthful(r) PROVE Truthful(r)'
  BY <1>8, <1>9 DEF Truthful
<1>10. HistoryFollows'
  <2>1. ASSUME NEW t \in Tests, Clean(t)'
        PROVE  /\ history'[t].reported <= 1
               /\ history'[t].reported = 1 => history'[t].seen > 0
               /\ owner' = t => /\ counters'.rx = history'[t].seen
                                /\ nextId' = -1 <=> history'[t].reported = 1
    <3>1. Clean(t) /\ history'[t] = history[t]
      BY <1>8, <2>1
    <3>2. QED
      BY <3>1 DEF UdpInv, HistoryFollows
  <2>2. ASSUME NEW r \in reports' PROVE Truthful(r)'
    BY <1>4, <1>9, <2>2
  <2>3. ASSUME NEW t \in Tests, NEW r \in {report'[t], result'[t]} \ {None}
        PROVE  Truthful(r)'
    BY <1>6, <1>9, <2>3
  <2>4. QED
    BY <2>1, <2>2, <2>3 DEF HistoryFollows
<1>11. QED
  BY <1>1, <1>2, <1>3, <1>5, <1>7, <1>10 DEF UdpInv

(***************************************************************************)
(* The steps of the network, and of the server when it refuses a datagram. *)
(***************************************************************************)
LEMMA NetworkStep ==
    ASSUME UdpInv,
           SessionTimesOut \/ Lose \/ (\E f \in frames : ServerDrops(f))
           \/ UNCHANGED udpVars
    PROVE  UdpInv'
<1> USE IperfUdpAssumption DEF serverVars, clientVars, netVars, historyVars
<1>1. ASSUME SessionTimesOut PROVE UdpTypeOK' /\ UNCHANGED <<client, nextId, counters,
        clientVars, frames, reports, historyVars>>
  BY <1>1 DEF SessionTimesOut, UdpInv, UdpTypeOK
<1>2. ASSUME Lose
      PROVE  /\ UdpTypeOK' /\ frames' \subseteq frames /\ reports' \subseteq reports
             /\ UNCHANGED <<client, nextId, counters, clientVars, historyVars>>
  BY <1>2 DEF Lose, UdpInv, UdpTypeOK
<1>3. ASSUME NEW f \in frames, ServerDrops(f)
      PROVE  /\ UdpTypeOK' /\ frames' \subseteq frames
             /\ UNCHANGED <<client, nextId, counters, clientVars, reports, owner>>
             /\ \A t \in Tests : history'[t] = history[t] \/ history'[t] = Disturbed
  <2>1. /\ UNCHANGED <<serverVars, clientVars, reports, owner>>
        /\ frames' \subseteq frames /\ faults' \in Nat
        /\ history' = [history EXCEPT ![f.test] = Disturbed]
    BY <1>3 DEF ServerDrops, Deliver, UdpInv, UdpTypeOK
  <2>2. history' \in [Tests -> [seen : Nat, reported : Nat] \cup {Disturbed}]
    BY <2>1 DEF UdpInv, UdpTypeOK
  <2>3. \A t \in Tests : history'[t] = history[t] \/ history'[t] = Disturbed
    BY <2>1 DEF UdpInv, UdpTypeOK
  <2>4. UdpTypeOK'
    BY <2>1, <2>2 DEF UdpInv, UdpTypeOK
  <2>5. QED
    BY <2>1, <2>3, <2>4
<1>4. ASSUME UNCHANGED udpVars
      PROVE  UdpTypeOK' /\ UNCHANGED <<serverVars, clientVars, netVars, historyVars>>
  BY <1>4 DEF udpVars, UdpInv, UdpTypeOK
<1>5. Placed
  BY DEF UdpInv
<1>6. QED
  BY <1>1, <1>2, <1>3, <1>4, <1>5, QuietStep DEF Placed

(***************************************************************************)
(* The steps of a client: it keeps its endpoint, sends only from there and *)
(* receives only what was sent to it.                                      *)
(***************************************************************************)
LEMMA ClientQuiet ==
    ASSUME UdpInv, UdpTypeOK', NEW t \in Tests, NEW place,
           UNCHANGED <<serverVars, historyVars>>,
           udpPc' = [udpPc EXCEPT ![t] = place], place # "off",
           endpoint'[t] \in Endpoints,
           \/ UNCHANGED endpoint
           \/ udpPc[t] = "off" /\ \E e : endpoint' = [endpoint EXCEPT ![t] = e],
           \A f \in frames' :
               f \in frames \/ (udpPc[t] # "off" /\ f.test = t /\ f.from = endpoint[t]),
           reports' \subseteq reports,
           \A u \in Tests : \A r \in {report'[u], result'[u]} \ {None} :
               \/ r \in {report[u], result[u]}
               \/ udpPc[u] # "off" /\ r \in reports /\ r.to = endpoint[u]
    PROVE  UdpInv'
<1>1. udpPc \in [Tests -> {"off", "failed", "loop", "wait", "remove", "freed"}]
      /\ endpoint \in [Tests -> Endpoints \cup {None}]
  BY DEF UdpInv, UdpTypeOK
<1>2. \A u \in Tests : udpPc[u] # "off" => udpPc'[u] # "off" /\ endpoint'[u] = endpoint[u]
  BY <1>1
<1>3. \A u \in Tests : udpPc'[u] # "off" => endpoint'[u] \in Endpoints
  <2>1. ASSUME NEW u \in Tests, u # t, udpPc'[u] # "off" PROVE endpoint'[u] \in Endpoints
    <3>1. udpPc[u] # "off"
      BY <1>1, <2>1
    <3>2. QED
      BY <1>2, <3>1 DEF UdpInv, Placed
  <2>2. QED
    BY <2>1
<1>4. \A f \in frames' :
          f \in frames \/ (udpPc[f.test] # "off" /\ f.from = endpoint[f.test])
  OBVIOUS
<1>5. UNCHANGED <<client, nextId, counters, owner>> /\ \A u \in Tests : history'[u] = history[u]
  BY DEF serverVars, historyVars
<1>6. QED
  BY <1>2, <1>3, <1>4, <1>5, QuietStep

LEMMA ClientTaskStep ==
    ASSUME UdpInv, NEW t \in Tests,
           \/ \E e \in EndpointsOf[t] : StartUdpClient(t, e)
           \/ ClientStep(t)
           \/ \E r \in reports : ClientRecv(t, r)
    PROVE  UdpInv'
<1> USE IperfUdpAssumption DEF serverVars, netVars, historyVars
<1>1. UdpTypeOK /\ Placed
  BY DEF UdpInv
<1>2. udpPc[t] # "off" => endpoint[t] \in Endpoints
  BY <1>1 DEF Placed
<1>3. ASSUME NEW final \in BOOLEAN, Send(t, final), udpPc[t] # "off"
      PROVE  /\ frames' \subseteq [from : Endpoints, test : Tests, id : Nat, final : BOOLEAN]
             /\ \A f \in frames' : f \in frames \/ (f.test = t /\ f.from = endpoint[t])
  <2> DEFINE sent == [from |-> endpoint[t], test |-> t, id |-> txFrames[t],
                      final |-> final /\ txFrames[t] > 0]
  <2>1. sent \in [from : Endpoints, test : Tests, id : Nat, final : BOOLEAN]
        /\ sent.test = t /\ sent.from = endpoint[t]
    BY <1>1, <1>2, <1>3 DEF UdpTypeOK
  <2>2. frames' \subseteq frames \cup {sent}
    BY <1>3, PutSubset DEF Send
  <2>3. frames \subseteq [from : Endpoints, test : Tests, id : Nat, final : BOOLEAN]
    BY <1>1 DEF UdpTypeOK
  <2> HIDE DEF sent
  <2>4. QED
    BY <2>1, <2>2, <2>3
<1>4. ASSUME NEW e \in EndpointsOf[t], StartUdpClient(t, e)
      PROVE  UdpInv'
  <2>1. PICK place \in {"failed", "loop"} : udpPc' = [udpPc EXCEPT ![t] = place]
    BY <1>4 DEF StartUdpClient, UdpGoto
  <2>2. /\ udpPc[t] = "off" /\ endpoint' = [endpoint EXCEPT ![t] = e] /\ e \in Endpoints
        /\ UNCHANGED <<serverVars, txFrames, failureCnt, awaitingReport, report,
                       retries, result, netVars, historyVars>>
    BY <1>4 DEF StartUdpClient
  <2>3. UdpTypeOK'
    BY <1>1, <2>1, <2>2 DEF UdpTypeOK
  <2>4. endpoint'[t] \in Endpoints
    BY <1>1, <2>2 DEF UdpTypeOK
  <2>5. QED
    BY <2>1, <2>2, <2>3, <2>4, ClientQuiet
<1>5. ASSUME ClientTurn(t) PROVE UdpInv'
  <2> DEFINE final == txFrames[t] = Amount[t]
  <2>1. /\ udpPc[t] = "loop"
        /\ awaitingReport' = [awaitingReport EXCEPT ![t] = final]
        /\ UNCHANGED <<serverVars, endpoint, report, retries, result, reports, faults, historyVars>>
    BY <1>5 DEF ClientTurn
  <2>2. PICK place \in {"wait", "loop"} : udpPc' = [udpPc EXCEPT ![t] = place]
    BY <1>5 DEF ClientTurn, UdpGoto, LoopExit
  <2>3. Send(t, final) \/ UNCHANGED frames
    BY <1>5 DEF ClientTurn
  <2>4. txFrames' \in [Tests -> Nat] /\ failureCnt' \in [Tests -> Nat]
    BY <1>1, <1>5 DEF ClientTurn, UdpTypeOK
  <2>5. final \in BOOLEAN /\ awaitingReport' \in [Tests -> BOOLEAN]
    BY <1>1, <2>1 DEF UdpTypeOK
  <2> HIDE DEF final
  <2>6. /\ frames' \subseteq [from : Endpoints, test : Tests, id : Nat, final : BOOLEAN]
        /\ \A f \in frames' : f \in frames \/ (f.test = t /\ f.from = endpoint[t])
    <3>1. CASE Send(t, final)
      BY <1>3, <2>1, <2>5, <3>1
    <3>2. CASE UNCHANGED frames
      BY <1>1, <3>2 DEF UdpTypeOK
    <3>3. QED
      BY <2>3, <3>1, <3>2
  <2>7. UdpTypeOK'
    BY <1>1, <2>1, <2>2, <2>4, <2>5, <2>6 DEF UdpTypeOK
  <2>8. endpoint'[t] \in Endpoints
    BY <1>2, <2>1
  <2>9. QED
    BY <2>1, <2>2, <2>6, <2>7, <2>8, ClientQuiet
<1>6. ASSUME ClientRetry(t) PROVE UdpInv'
  <2>1. /\ udpPc[t] = "wait" /\ Send(t, TRUE) /\ retries' = [retries EXCEPT ![t] = @ + 1]
        /\ UNCHANGED <<serverVars, udpPc, endpoint, txFrames, failureCnt, awaitingReport,
                       report, result, reports, faults, historyVars>>
    BY <1>6 DEF ClientRetry
  <2>2. /\ frames' \subseteq [from : Endpoints, test : Tests, id : Nat, final : BOOLEAN]
        /\ \A f \in frames' : f \in frames \/ (f.test = t /\ f.from = endpoint[t])
    BY <1>3, <2>1
  <2>3. UdpTypeOK'
    BY <1>1, <2>1, <2>2 DEF UdpTypeOK
  <2>4. udpPc' = [udpPc EXCEPT ![t] = "wait"] /\ endpoint'[t] \in Endpoints
    BY <1>1, <1>2, <2>1 DEF UdpTypeOK
  <2>5. QED
    BY <2>1, <2>2, <2>3, <2>4, ClientQuiet
<1>7. ASSUME ClientResult(t) PROVE UdpInv'
  <2>1. /\ udpPc[t] = "wait" /\ udpPc' = [udpPc EXCEPT ![t] = "remove"]
        /\ result' = [result EXCEPT ![t] = report[t]]
        /\ report' = [report EXCEPT ![t] = None]
        /\ UNCHANGED <<serverVars, endpoint, txFrames, failureCnt, awaitingReport,
                       retries, netVars, historyVars>>
    BY <1>7 DEF ClientResult, UdpGoto
  <2>2. UdpTypeOK'
    BY <1>1, <2>1 DEF UdpTypeOK
  <2>3. \A u \in Tests : \A r \in {report'[u], result'[u]} \ {None} : r \in {report[u], result[u]}
    BY <1>1, <2>1 DEF UdpTypeOK
  <2>4. endpoint'[t] \in Endpoints
    BY <1>2, <2>1
  <2>5. QED
    BY <2>1, <2>2, <2>3, <2>4, ClientQuiet
<1>8. ASSUME ClientCleanup(t) PROVE UdpInv'
  <2>1. /\ udpPc[t] = "remove" /\ udpPc' = [udpPc EXCEPT ![t] = "freed"]
        /\ report' = [report EXCEPT ![t] = None] /\ result' = [result EXCEPT ![t] = None]
        /\ failureCnt' = [failureCnt EXCEPT ![t] = 0]
        /\ awaitingReport' = [awaitingReport EXCEPT ![t] = FALSE]
        /\ retries' = [retries EXCEPT ![t] = 0] /\ txFrames' = [txFrames EXCEPT ![t] = 0]
        /\ UNCHANGED <<serverVars, endpoint, netVars, historyVars>>
    BY <1>8 DEF ClientCleanup, UdpGoto
  <2>2. UdpTypeOK'
    BY <1>1, <2>1 DEF UdpTypeOK
  <2>3. \A u \in Tests : \A r \in {report'[u], result'[u]} \ {None} : r \in {report[u], result[u]}
    BY <1>1, <2>1 DEF UdpTypeOK
  <2>4. endpoint'[t] \in Endpoints
    BY <1>2, <2>1
  <2>5. QED
    BY <2>1, <2>2, <2>3, <2>4, ClientQuiet
<1>9. ASSUME NEW q \in reports, ClientRecv(t, q) PROVE UdpInv'
  <2>1. /\ udpPc[t] # "off" /\ q.to = endpoint[t]
        /\ report' = [report EXCEPT ![t] = q] \/ UNCHANGED report
        /\ UNCHANGED <<serverVars, udpPc, endpoint, txFrames, failureCnt,
                       awaitingReport, retries, result, frames, historyVars>>
    BY <1>9 DEF ClientRecv, Bound
  <2>2. reports' \subseteq reports /\ faults' \in Nat
    BY <1>1, <1>9 DEF ClientRecv, Deliver, UdpTypeOK
  <2>3. UdpTypeOK'
    BY <1>1, <2>1, <2>2 DEF UdpTypeOK
  <2>4. \A u \in Tests : \A r \in {report'[u], result'[u]} \ {None} :
            r \in {report[u], result[u]} \/ (u = t /\ r = q)
    BY <1>1, <2>1 DEF UdpTypeOK
  <2>5. PICK place : place = udpPc[t]
    OBVIOUS
  <2>6. udpPc' = [udpPc EXCEPT ![t] = place] /\ place # "off" /\ endpoint'[t] \in Endpoints
    BY <1>1, <1>2, <2>1, <2>5 DEF UdpTypeOK
  <2>7. /\ UNCHANGED <<serverVars, historyVars>> /\ UNCHANGED endpoint
        /\ \A f \in frames' :
               f \in frames \/ (udpPc[t] # "off" /\ f.test = t /\ f.from = endpoint[t])
    BY <2>1
  <2>8. \A u \in Tests : \A r \in {report'[u], result'[u]} \ {None} :
            \/ r \in {report[u], result[u]}
            \/ udpPc[u] # "off" /\ r \in reports /\ r.to = endpoint[u]
    BY <2>1, <2>4
  <2>9. reports' \subseteq reports
    BY <2>2
  <2>10. QED
    BY <2>3, <2>6, <2>7, <2>8, <2>9, ClientQuiet
<1>10. QED
  BY <1>4, <1>5, <1>6, <1>7, <1>8, <1>9 DEF ClientStep

(***************************************************************************)
(* The invariant.                                                          *)
(***************************************************************************)
THEOREM UdpInvariant == UdpSpec => []UdpInv
<1>1. UdpInit => UdpInv
  <2> SUFFICES ASSUME UdpInit PROVE UdpInv
    OBVIOUS
  <2>1. UdpTypeOK
    BY IperfUdpAssumption DEF UdpInit, UdpTypeOK, Zero, Counters
  <2>2. \A t \in Tests : history[t].reported = 0
    BY DEF UdpInit
  <2>3. SequenceAccounting /\ Placed /\ FrameOrigin /\ SessionOrigin /\ ReportOrigin
    BY DEF UdpInit, SequenceAccounting, Placed, FrameOrigin, SessionOrigin, ReportOrigin
  <2>4. ReceivedOrigin
    BY DEF UdpInit, ReceivedOrigin
  <2>5. HistoryFollows
    BY <2>2, IperfUdpAssumption DEF UdpInit, HistoryFollows
  <2>6. QED
    BY <2>1, <2>3, <2>4, <2>5 DEF UdpInv
<1>2. UdpInv /\ [UdpNext]_udpVars => UdpInv'
  BY ServerRecvStep, NetworkStep, ClientTaskStep DEF UdpNext
<1>3. QED
  BY <1>1, <1>2, PTL DEF UdpSpec

\* The server's and the clients' state stays well formed: no counter of
\* iperf_udp_server_recv goes negative, and a closed session is always marked the
\* same way, whatever numbers arrive.
THEOREM UdpTypeCorrect == UdpSpec => []UdpTypeOK
  BY UdpInvariant, PTL DEF UdpInv

\* The counters of a session add up for any order of arrival (the arithmetic of
\* iperf_udp_server_recv).
THEOREM UdpSequenceAccounting == UdpSpec => []SequenceAccounting
  BY UdpInvariant, PTL DEF UdpInv

\* iperf_udp_server_recv reports an undisturbed test to the application at most
\* once, for any number of repeated or duplicated final datagrams.
THEOREM UdpReportedOnce == UdpSpec => []ReportedOnce
<1>1. UdpInv => ReportedOnce
  BY DEF UdpInv, HistoryFollows, ReportedOnce
<1>2. QED
  BY <1>1, UdpInvariant, PTL

\* iperf_udp_client_recv takes another test's report only when both tests came
\* from the same endpoint.
THEOREM UdpNotCrossed == UdpSpec => []ReportNotCrossed
<1>1. UdpInv => ReportNotCrossed
  BY DEF UdpInv, ReceivedOrigin, ReportNotCrossed
<1>2. QED
  BY <1>1, UdpInvariant, PTL

\* The report a client of an undisturbed test gets counts what the server saw of
\* it before its report.
THEOREM UdpReportTruthful == UdpSpec => []ReportTruthful
<1>1. UdpInv => ReportTruthful
  BY DEF UdpInv, HistoryFollows, Truthful, ReportTruthful
<1>2. QED
  BY <1>1, UdpInvariant, PTL

-----------------------------------------------------------------------------
(* The numbers of a test, from the client to its report *)

\* The client has sent its last datagram but for repeated final ones.
Stopped(t) == udpPc[t] \in {"wait", "remove"}

\* Counters c stand for the datagrams of test t, a repeated final one included.
Covers(t, c) == c.rx + c.err - c.oos \in {txFrames[t], txFrames[t] + 1}

\* The numbers of the datagrams in flight while the client is at work: a final
\* one is the last or one past it, any other comes before them.  (A client that
\* could not send anything repeats number 0, which does not look final.)
FrameNumber(f) ==
    Bound(f.test) =>
        IF f.final
        THEN /\ Stopped(f.test) /\ txFrames[f.test] > 0
             /\ txFrames[f.test] \in {f.id, f.id + 1}
        ELSE \/ f.id < txFrames[f.test]
             \/ txFrames[f.test] = 0 /\ f.id = 0 /\ Stopped(f.test)

\* The session of an undisturbed test expects no number past those, and once it
\* is closed it covers the test.
SessionNumber(t) ==
    owner = t /\ Clean(t) /\ Bound(t) =>
        IF nextId >= 0
        THEN nextId <= txFrames[t] \/ (txFrames[t] = 0 /\ nextId <= 1 /\ Stopped(t))
        ELSE Stopped(t) /\ Covers(t, counters)

\* So does every report of it.
Numbered(r) ==
    Clean(r.owner) /\ Bound(r.owner) => Stopped(r.owner) /\ Covers(r.owner, r.counters)

\* The inductive invariant of ReportCoversTest, relative to UdpInv.
NumbersInv ==
    /\ owner # None => udpPc[owner] # "off"
    /\ \A t \in Tests : result[t] # None => udpPc[t] = "remove"
    /\ \A f \in frames : FrameNumber(f)
    /\ \A t \in Tests : SessionNumber(t)
    /\ \A r \in reports : Numbered(r)
    /\ \A t \in Tests : \A r \in {report[t], result[t]} \ {None} : Numbered(r)

(***************************************************************************)
(* Steps that leave the session alone.  A client that is still sending may *)
(* count one datagram more; one that has stopped counts none.              *)
(***************************************************************************)
LEMMA NumbersQuiet ==
    ASSUME UdpInv, UdpTypeOK', NumbersInv, UNCHANGED <<nextId, counters, owner>>,
           \A t \in Tests : history'[t] = history[t] \/ history'[t] = Disturbed,
           \A t \in Tests : udpPc[t] # "off" => udpPc'[t] # "off",
           \A t \in Tests : Bound(t)' /\ udpPc[t] # "off" =>
               /\ Bound(t)
               /\ \/ txFrames'[t] = txFrames[t] /\ (Stopped(t) => Stopped(t)')
                  \/ txFrames'[t] = txFrames[t] + 1 /\ ~Stopped(t),
           \A t \in Tests : result'[t] # None => udpPc'[t] = "remove",
           \A f \in frames' : f \in frames \/ FrameNumber(f)',
           reports' \subseteq reports,
           \A t \in Tests : \A r \in {report'[t], result'[t]} \ {None} :
               r \in {report[t], result[t]} \cup reports
    PROVE  NumbersInv'
<1> USE IperfUdpAssumption
<1>1. \A t \in Tests : txFrames[t] \in Nat /\ txFrames'[t] \in Nat
  BY DEF UdpInv, UdpTypeOK
<1>2. \A t \in Tests : Clean(t)' => Clean(t)
  BY DEF Clean, Disturbed
<1>3. owner' # None => udpPc'[owner'] # "off"
  BY DEF NumbersInv, UdpInv, UdpTypeOK
<1>4. ASSUME NEW f \in frames' PROVE FrameNumber(f)'
  <2>1. CASE FrameNumber(f)'
    BY <2>1
  <2>2. CASE f \in frames
    <3>1. f.test \in Tests /\ f.id \in Nat /\ udpPc[f.test] # "off" /\ FrameNumber(f)
      BY <2>2 DEF NumbersInv, UdpInv, UdpTypeOK, FrameOrigin
    <3>2. SUFFICES ASSUME Bound(f.test)'
                   PROVE  IF f.final
                          THEN /\ Stopped(f.test)' /\ txFrames'[f.test] > 0
                               /\ txFrames'[f.test] \in {f.id, f.id + 1}
                          ELSE \/ f.id < txFrames'[f.test]
                               \/ txFrames'[f.test] = 0 /\ f.id = 0 /\ Stopped(f.test)'
      BY DEF FrameNumber
    <3>3. QED
      BY <1>1, <3>1, <3>2 DEF FrameNumber
  <2>3. QED
    BY <2>1, <2>2
<1>5. ASSUME NEW t \in Tests PROVE SessionNumber(t)'
  <2> SUFFICES ASSUME owner' = t, Clean(t)', Bound(t)'
               PROVE  IF nextId' >= 0
                      THEN \/ nextId' <= txFrames'[t]
                           \/ txFrames'[t] = 0 /\ nextId' <= 1 /\ Stopped(t)'
                      ELSE Stopped(t)' /\ Covers(t, counters)'
    BY DEF SessionNumber
  <2>1. udpPc[t] # "off" /\ Clean(t) /\ SessionNumber(t)
    BY <1>2 DEF NumbersInv
  <2>2. nextId \in Int
    BY DEF UdpInv, UdpTypeOK
  <2>3. QED
    BY <1>1, <2>1, <2>2 DEF SessionNumber, Covers
<1>6. ASSUME NEW r, r.owner \in Tests, udpPc[r.owner] # "off", Numbered(r)
      PROVE  Numbered(r)'
  BY <1>1, <1>2, <1>6 DEF Numbered, Covers
<1>7. ASSUME NEW r \in reports
      PROVE  r.owner \in Tests /\ udpPc[r.owner] # "off" /\ Numbered(r)
  BY DEF NumbersInv, UdpInv, UdpTypeOK, Reports, ReportOrigin
<1>8. ASSUME NEW t \in Tests, NEW r \in {report[t], result[t]} \ {None}
      PROVE  r.owner \in Tests /\ udpPc[r.owner] # "off" /\ Numbered(r)
  <2>1. r \in Reports
    BY DEF UdpInv, UdpTypeOK
  <2>2. QED
    BY <2>1 DEF NumbersInv, UdpInv, Reports, ReceivedOrigin
<1>9. \A r \in reports' : Numbered(r)'
  BY <1>6, <1>7
<1>10. \A t \in Tests : \A r \in {report'[t], result'[t]} \ {None} : Numbered(r)'
  BY <1>6, <1>7, <1>8
<1>11. QED
  BY <1>3, <1>4, <1>5, <1>9, <1>10 DEF NumbersInv

(***************************************************************************)
(* iperf_udp_server_recv moves the next number past the datagram, unless   *)
(* it is behind already, and the counters with it.                         *)
(***************************************************************************)
LEMMA CountReaches ==
    ASSUME NEW c \in Counters, NEW n \in Nat, NEW id \in Nat, NEW final \in BOOLEAN,
           c.rx + c.err = n + c.oos
    PROVE  LET d == Count(c, n, id)
               m == IF id >= n THEN id + 1 ELSE n
           IN  /\ d.rx + d.err - d.oos = m
               /\ NextAfter(n, id, final) = IF final THEN -1 ELSE m
<1> DEFINE d == Count(c, n, id)
<1>1. c.rx \in Nat /\ c.err \in Nat /\ c.oos \in Nat
  BY DEF Counters
<1>2. /\ d.rx = c.rx + 1
      /\ d.err = c.err + (IF id > n THEN id - n ELSE 0)
      /\ d.oos = c.oos + (IF id < n THEN 1 ELSE 0)
  BY DEF Count
<1> HIDE DEF d
<1>3. d.rx + d.err - d.oos = IF id >= n THEN id + 1 ELSE n
  BY <1>1, <1>2
<1>4. QED
  BY <1>3 DEF d, NextAfter

(***************************************************************************)
(* A datagram that the session takes.                                      *)
(***************************************************************************)
LEMMA NumbersServerRecv ==
    ASSUME UdpInv, NumbersInv, NEW f \in frames, ServerRecv(f)
    PROVE  NumbersInv'
<1> USE IperfUdpAssumption
<1> DEFINE fresh == StartSession(f.from)
           n == IF fresh THEN 0 ELSE nextId
           c == IF fresh THEN Zero ELSE counters
           counting == n >= 0
           now == IF counting THEN Count(c, n, f.id) ELSE c
           own == IF fresh THEN f.test ELSE owner
           sent == [to |-> f.from, counters |-> now, owner |-> own]
           next == IF counting THEN NextAfter(n, f.id, f.final) ELSE n
<1>1. /\ f.from \in Endpoints /\ f.test \in Tests /\ f.id \in Nat /\ f.final \in BOOLEAN
      /\ udpPc[f.test] # "off"
  BY DEF UdpInv, UdpTypeOK, FrameOrigin
<1>2. /\ counters' = now /\ owner' = own /\ nextId' = next
      /\ Answer(f, now, own) /\ Deliver(frames, f)
      /\ UNCHANGED clientVars
  BY DEF ServerRecv
<1>3. frames' \subseteq frames /\ reports' \subseteq reports \cup {sent}
      /\ (~f.final => reports' = reports)
  BY <1>2, PutSubset DEF Deliver, Answer
<1>4. history' = [t \in Tests |->
              CASE ~Clean(t) -> Disturbed
                [] t # f.test -> IF t = own THEN Disturbed ELSE history[t]
                [] own # t \/ (fresh /\ history[t].seen > 0) -> Disturbed
                [] OTHER -> Seen(history[t], counting /\ f.final)]
  BY DEF ServerRecv
<1>5. n \in Nat \cup {-1} /\ c \in Counters /\ (counting => c.rx + c.err = n + c.oos)
  <2>1. Zero \in Counters /\ Zero.rx = 0 /\ Zero.err = 0 /\ Zero.oos = 0
    BY DEF Zero, Counters
  <2>2. QED
    BY <2>1 DEF UdpInv, UdpTypeOK, SequenceAccounting
<1>6. ~counting => ~fresh
  OBVIOUS
<1>7. sent.owner = own /\ sent.counters = now
  OBVIOUS
<1>8. own # None => udpPc[own] # "off"
  BY <1>1 DEF NumbersInv
<1>9. ~fresh => own = owner /\ n = nextId /\ c = counters
  OBVIOUS
<1>10. fresh => n = 0
  OBVIOUS
<1>11. /\ counting => n \in Nat /\ now = Count(c, n, f.id) /\ next = NextAfter(n, f.id, f.final)
       /\ ~counting => n = -1 /\ now = c /\ next = n
  BY <1>5
<1> HIDE DEF fresh, n, c, counting, now, own, sent, next
<1>12. ASSUME NEW t \in Tests, Clean(t)'
       PROVE  Clean(t) /\ (own = t => t = f.test)
  BY <1>4, <1>12 DEF Clean
<1>13. \A t \in Tests : /\ Bound(t)' <=> Bound(t)
                        /\ Stopped(t)' <=> Stopped(t)
                        /\ txFrames'[t] = txFrames[t] /\ txFrames[t] \in Nat
  BY <1>2 DEF clientVars, Bound, Stopped, UdpInv, UdpTypeOK
<1>14. ASSUME NEW t \in Tests, own = t, Clean(t)', Bound(t)
       PROVE  IF next >= 0
              THEN next <= txFrames[t] \/ (txFrames[t] = 0 /\ next <= 1 /\ Stopped(t))
              ELSE Stopped(t) /\ Covers(t, now)
  <2>1. t = f.test /\ Clean(t) /\ FrameNumber(f) /\ SessionNumber(t)
    BY <1>12, <1>14 DEF NumbersInv
  <2>2. CASE ~counting
    <3>1. owner = t /\ nextId = -1 /\ now = counters /\ next = -1
      BY <1>6, <1>9, <1>11, <1>14, <2>2
    <3>2. QED
      BY <1>14, <2>1, <3>1 DEF SessionNumber
  <2>3. CASE counting
    <3> DEFINE m == IF f.id >= n THEN f.id + 1 ELSE n
    <3>1. /\ n \in Nat /\ now.rx + now.err - now.oos = m
          /\ next = IF f.final THEN -1 ELSE m
      BY <1>1, <1>5, <1>11, <2>3, CountReaches
    <3>2. n <= txFrames[t] \/ (txFrames[t] = 0 /\ n <= 1 /\ Stopped(t))
      <4>1. CASE fresh
        BY <1>10, <1>13, <4>1
      <4>2. CASE ~fresh
        BY <1>9, <1>14, <2>1, <3>1, <4>2 DEF SessionNumber
      <4>3. QED
        BY <4>1, <4>2
    <3>3. CASE f.final
      <4>1. Stopped(t) /\ txFrames[t] > 0 /\ txFrames[t] \in {f.id, f.id + 1}
        BY <1>14, <2>1, <3>3 DEF FrameNumber
      <4>2. m \in {txFrames[t], txFrames[t] + 1}
        BY <1>1, <1>13, <3>1, <3>2, <4>1
      <4>3. QED
        BY <3>1, <3>3, <4>1, <4>2 DEF Covers
    <3>4. CASE ~f.final
      <4>1. f.id < txFrames[t] \/ (txFrames[t] = 0 /\ f.id = 0 /\ Stopped(t))
        BY <1>14, <2>1, <3>4 DEF FrameNumber
      <4>2. QED
        BY <1>1, <1>13, <3>1, <3>2, <3>4, <4>1
    <3>5. QED
      BY <1>1, <3>3, <3>4
  <2>4. QED
    BY <2>2, <2>3
<1>15. \A t \in Tests : SessionNumber(t)'
  BY <1>2, <1>13, <1>14 DEF SessionNumber, Covers
<1>16. ASSUME NEW r, r.owner \in Tests, Numbered(r) PROVE Numbered(r)'
  BY <1>12, <1>13, <1>16 DEF Numbered, Covers
<1>17. own \in Tests
  <2>1. CASE fresh
    BY <1>1, <2>1 DEF own
  <2>2. CASE ~fresh
    <3>1. client = f.from /\ f.from # None
      BY <1>1, <2>2 DEF fresh, ServerRecv, SameSession
    <3>2. QED
      BY <1>9, <2>2, <3>1 DEF UdpInv, UdpTypeOK, SessionOrigin
  <2>3. QED
    BY <2>1, <2>2
<1>18. ASSUME NEW r, NEW t, NEW d, r = sent, t = own, d = now, f.final
       PROVE  Numbered(r)'
  <2>1. t \in Tests /\ r.owner = t /\ r.counters = d
    BY <1>7, <1>17, <1>18
  <2> SUFFICES ASSUME Clean(t)', Bound(t)'
               PROVE  Stopped(t)' /\ Covers(t, d)'
    BY <2>1 DEF Numbered
  <2>2. ~(next >= 0)
    <3>1. CASE counting
      BY <1>1, <1>11, <1>18, <3>1 DEF NextAfter
    <3>2. CASE ~counting
      BY <1>11, <3>2
    <3>3. QED
      BY <3>1, <3>2
  <2>3. Stopped(t) /\ Covers(t, d)
    BY <1>13, <1>14, <1>18, <2>1, <2>2
  <2>4. QED
    BY <1>13, <2>1, <2>3 DEF Covers
<1>19. \A r \in reports' : Numbered(r)'
  <2> SUFFICES ASSUME NEW r \in reports' PROVE Numbered(r)'
    OBVIOUS
  <2>1. CASE r \in reports
    <3>1. r.owner \in Tests /\ Numbered(r)
      BY <2>1 DEF NumbersInv, UdpInv, UdpTypeOK, Reports
    <3>2. QED
      BY <1>16, <3>1
  <2>2. CASE r \notin reports
    <3>1. r = sent /\ f.final
      BY <1>1, <1>3, <2>2
    <3>2. QED
      BY <1>18, <3>1
  <2>3. QED
    BY <2>1, <2>2
<1>20. ASSUME NEW t \in Tests, NEW r \in {report'[t], result'[t]} \ {None}
       PROVE  Numbered(r)'
  <2>1. r \in {report[t], result[t]} \ {None}
    BY <1>2, <1>20 DEF clientVars
  <2>2. r.owner \in Tests /\ Numbered(r)
    BY <2>1 DEF NumbersInv, UdpInv, UdpTypeOK, Reports
  <2>3. QED
    BY <1>16, <2>2
<1>21. \A g \in frames' : FrameNumber(g)'
  <2> SUFFICES ASSUME NEW g \in frames' PROVE FrameNumber(g)'
    OBVIOUS
  <2>1. g \in frames /\ g.test \in Tests /\ FrameNumber(g)
    BY <1>3 DEF NumbersInv, UdpInv, UdpTypeOK
  <2>2. QED
    BY <1>13, <2>1 DEF FrameNumber
<1>22. /\ owner' # None => udpPc'[owner'] # "off"
       /\ \A t \in Tests : result'[t] # None => udpPc'[t] = "remove"
  BY <1>2, <1>8 DEF NumbersInv, clientVars
<1>23. QED
  BY <1>15, <1>19, <1>20, <1>21, <1>22 DEF NumbersInv

(***************************************************************************)
(* The steps of the network, and a session that times out.                 *)
(***************************************************************************)
LEMMA NumbersNetwork ==
    ASSUME UdpInv, UdpTypeOK', NumbersInv,
           \/ SessionTimesOut \/ Lose \/ UNCHANGED udpVars
           \/ \E f \in frames : ServerDrops(f)
    PROVE  NumbersInv'
<1>1. /\ UNCHANGED clientVars /\ UNCHANGED <<nextId, counters, owner>>
      /\ frames' \subseteq frames /\ reports' \subseteq reports
  BY DEF SessionTimesOut, Lose, ServerDrops, Deliver, udpVars, serverVars, netVars,
         historyVars
<1>2. \A t \in Tests : history'[t] = history[t] \/ history'[t] = Disturbed
  BY DEF SessionTimesOut, Lose, ServerDrops, udpVars, historyVars, UdpInv, UdpTypeOK
<1>3. \A t \in Tests : /\ udpPc'[t] = udpPc[t] /\ (Bound(t)' <=> Bound(t))
                       /\ Stopped(t)' <=> Stopped(t)
                       /\ txFrames'[t] = txFrames[t]
                       /\ result'[t] = result[t] /\ report'[t] = report[t]
  BY <1>1 DEF clientVars, Bound, Stopped
<1>4. \A t \in Tests : result'[t] # None => udpPc'[t] = "remove"
  BY <1>3 DEF NumbersInv
<1>5. QED
  BY <1>1, <1>2, <1>3, <1>4, NumbersQuiet

(***************************************************************************)
(* A step of one client, which may put datagrams with the right numbers in *)
(* flight and take a report.                                               *)
(***************************************************************************)
LEMMA NumbersOfClient ==
    ASSUME UdpInv, UdpTypeOK', NumbersInv, NEW t \in Tests, NEW place,
           UNCHANGED <<nextId, counters, owner, history>>,
           udpPc' = [udpPc EXCEPT ![t] = place], place # "off",
           \A u \in Tests \ {t} : /\ txFrames'[u] = txFrames[u]
                                  /\ result'[u] = result[u]
                                  /\ report'[u] = report[u],
           Bound(t)' /\ udpPc[t] # "off" =>
               /\ Bound(t)
               /\ \/ txFrames'[t] = txFrames[t] /\ (Stopped(t) => Stopped(t)')
                  \/ txFrames'[t] = txFrames[t] + 1 /\ ~Stopped(t),
           result'[t] # None => place = "remove",
           \A f \in frames' : f \in frames \/ FrameNumber(f)',
           reports' \subseteq reports,
           {report'[t], result'[t]} \ {None} \subseteq {report[t], result[t]} \cup reports
    PROVE  NumbersInv'
<1>1. \A u \in Tests \ {t} : /\ udpPc'[u] = udpPc[u] /\ (Bound(u)' <=> Bound(u))
                             /\ Stopped(u)' <=> Stopped(u)
  BY DEF Bound, Stopped, UdpInv, UdpTypeOK
<1>2. udpPc'[t] = place
  BY DEF UdpInv, UdpTypeOK
<1>3. \A u \in Tests : udpPc[u] # "off" => udpPc'[u] # "off"
  BY <1>1, <1>2
<1>4. \A u \in Tests : Bound(u)' /\ udpPc[u] # "off" =>
          /\ Bound(u)
          /\ \/ txFrames'[u] = txFrames[u] /\ (Stopped(u) => Stopped(u)')
             \/ txFrames'[u] = txFrames[u] + 1 /\ ~Stopped(u)
  BY <1>1
<1>5. \A u \in Tests : result'[u] # None => udpPc'[u] = "remove"
  BY <1>1, <1>2 DEF NumbersInv
<1>6. \A u \in Tests : \A r \in {report'[u], result'[u]} \ {None} :
          r \in {report[u], result[u]} \cup reports
  OBVIOUS
<1>7. QED
  BY <1>3, <1>4, <1>5, <1>6, NumbersQuiet

\* The datagram that Send puts in flight, if there is room.
LEMMA SendPuts ==
    ASSUME NEW t \in Tests, NEW final \in BOOLEAN, Send(t, final)
    PROVE  \A f \in frames' : f \in frames \/
               (f.test = t /\ f.id = txFrames[t] /\ (f.final <=> final /\ txFrames[t] > 0))
<1>1. PICK last \in BOOLEAN : last <=> final /\ txFrames[t] > 0
  OBVIOUS
<1>2. frames' \subseteq frames \cup
          {[from |-> endpoint[t], test |-> t, id |-> txFrames[t],
            final |-> final /\ txFrames[t] > 0]}
  BY PutSubset DEF Send
<1>3. (final /\ txFrames[t] > 0) = last
  BY <1>1
<1>4. frames' \subseteq frames \cup
          {[from |-> endpoint[t], test |-> t, id |-> txFrames[t], final |-> last]}
  BY <1>2, <1>3, Zenon
<1>5. QED
  BY <1>1, <1>4

(***************************************************************************)
(* The steps of the clients.                                               *)
(***************************************************************************)
LEMMA NumbersClientStep ==
    ASSUME UdpInv, UdpTypeOK', NumbersInv, NEW t \in Tests,
           \/ \E e \in EndpointsOf[t] : StartUdpClient(t, e)
           \/ ClientStep(t)
           \/ \E r \in reports : ClientRecv(t, r)
    PROVE  NumbersInv'
<1> USE IperfUdpAssumption
<1>1. /\ udpPc \in [Tests -> {"off", "failed", "loop", "wait", "remove", "freed"}]
      /\ txFrames \in [Tests -> Nat] /\ Amount \in [Tests -> Nat]
      /\ result \in [Tests -> Reports \cup {None}]
      /\ report \in [Tests -> Reports \cup {None}]
      /\ result[t] # None => udpPc[t] = "remove"
  BY DEF UdpInv, UdpTypeOK, NumbersInv
<1>2. ASSUME NEW e \in EndpointsOf[t], StartUdpClient(t, e) PROVE NumbersInv'
  <2>1. PICK place \in {"failed", "loop"} : udpPc' = [udpPc EXCEPT ![t] = place]
    BY <1>2 DEF StartUdpClient, UdpGoto
  <2>2. /\ udpPc[t] = "off" /\ UNCHANGED <<serverVars, historyVars, netVars>>
        /\ UNCHANGED <<txFrames, report, result>>
    BY <1>2 DEF StartUdpClient
  <2>3. QED
    BY <1>1, <2>1, <2>2, NumbersOfClient DEF serverVars, historyVars, netVars
<1>3. ASSUME ClientTurn(t) PROVE NumbersInv'
  <2> DEFINE final == txFrames[t] = Amount[t]
  <2>1. PICK place \in {"wait", "loop"} :
            /\ udpPc' = [udpPc EXCEPT ![t] = place] /\ (final => place = "wait")
    BY <1>3 DEF ClientTurn, UdpGoto, LoopExit
  <2>2. /\ udpPc[t] = "loop" /\ UNCHANGED <<serverVars, historyVars, reports>>
        /\ UNCHANGED <<report, result>>
    BY <1>3 DEF ClientTurn
  <2>3. Bound(t) /\ Bound(t)' /\ ~Stopped(t) /\ (final => Stopped(t)')
    BY <1>1, <2>1, <2>2 DEF Bound, Stopped
  <2>4. \/ UNCHANGED <<frames, txFrames>>
        \/ Send(t, final) /\ txFrames' = [txFrames EXCEPT ![t] = @ + 1]
    BY <1>3 DEF ClientTurn
  <2>5. \A f \in frames' : f \in frames \/ FrameNumber(f)'
    <3>1. CASE UNCHANGED frames
      BY <3>1
    <3>2. CASE Send(t, final) /\ txFrames' = [txFrames EXCEPT ![t] = @ + 1]
      <4> SUFFICES ASSUME NEW f \in frames', f \notin frames PROVE FrameNumber(f)'
        OBVIOUS
      <4>1. /\ f.test = t /\ f.id = txFrames[t]
            /\ f.final <=> final /\ txFrames[t] > 0
        BY <3>2, SendPuts
      <4>2. txFrames'[t] = txFrames[t] + 1 /\ txFrames[t] \in Nat
        BY <1>1, <3>2
      <4>3. CASE f.final
        BY <2>3, <4>1, <4>2, <4>3 DEF FrameNumber
      <4>4. CASE ~f.final
        BY <4>1, <4>2, <4>4 DEF FrameNumber
      <4>5. QED
        BY <4>3, <4>4
    <3>3. QED
      BY <2>4, <3>1, <3>2
  <2>6. \A u \in Tests \ {t} : txFrames'[u] = txFrames[u]
    BY <1>1, <2>4
  <2>7. txFrames'[t] = txFrames[t] \/ txFrames'[t] = txFrames[t] + 1
    BY <1>1, <2>4
  <2>8. QED
    BY <1>1, <2>1, <2>2, <2>3, <2>5, <2>6, <2>7, NumbersOfClient
       DEF serverVars, historyVars
<1>4. ASSUME ClientRetry(t) PROVE NumbersInv'
  <2>1. /\ udpPc[t] = "wait" /\ UNCHANGED <<serverVars, historyVars, reports>>
        /\ UNCHANGED <<udpPc, txFrames, report, result>> /\ Send(t, TRUE)
    BY <1>4 DEF ClientRetry
  <2>2. Bound(t) /\ Stopped(t)'
    BY <2>1 DEF Bound, Stopped
  <2>3. ASSUME NEW f \in frames', f \notin frames PROVE FrameNumber(f)'
    <3>1. /\ f.test = t /\ f.id = txFrames[t] /\ (f.final <=> txFrames[t] > 0)
      BY <2>1, <2>3, SendPuts
    <3>2. txFrames'[t] = txFrames[t] /\ txFrames[t] \in Nat
      BY <1>1, <2>1
    <3>3. CASE f.final
      BY <2>2, <3>1, <3>2, <3>3 DEF FrameNumber
    <3>4. CASE ~f.final
      BY <2>2, <3>1, <3>2, <3>4 DEF FrameNumber
    <3>5. QED
      BY <3>3, <3>4
  <2>4. udpPc' = [udpPc EXCEPT ![t] = "wait"]
    BY <1>1, <2>1
  <2>5. QED
    BY <1>1, <2>1, <2>2, <2>3, <2>4, NumbersOfClient DEF serverVars, historyVars
<1>5. ASSUME ClientResult(t) PROVE NumbersInv'
  <2>1. /\ udpPc[t] = "wait" /\ UNCHANGED <<serverVars, historyVars, netVars, txFrames>>
        /\ result' = [result EXCEPT ![t] = report[t]]
        /\ report' = [report EXCEPT ![t] = None]
        /\ udpPc' = [udpPc EXCEPT ![t] = "remove"]
    BY <1>5 DEF ClientResult, UdpGoto
  <2>2. Bound(t) /\ Stopped(t)'
    BY <1>1, <2>1 DEF Bound, Stopped
  <2>3. QED
    BY <1>1, <2>1, <2>2, NumbersOfClient DEF serverVars, historyVars, netVars
<1>6. ASSUME ClientCleanup(t) PROVE NumbersInv'
  <2>1. /\ UNCHANGED <<serverVars, historyVars, netVars>>
        /\ result' = [result EXCEPT ![t] = None]
        /\ report' = [report EXCEPT ![t] = None]
        /\ txFrames' = [txFrames EXCEPT ![t] = 0]
        /\ udpPc' = [udpPc EXCEPT ![t] = "freed"]
    BY <1>6 DEF ClientCleanup, UdpGoto
  <2>2. ~Bound(t)'
    BY <1>1, <2>1 DEF Bound
  <2>3. QED
    BY <1>1, <2>1, <2>2, NumbersOfClient DEF serverVars, historyVars, netVars
<1>7. ASSUME NEW r \in reports, ClientRecv(t, r) PROVE NumbersInv'
  <2>1. /\ UNCHANGED <<serverVars, historyVars, frames>> /\ Bound(t)
        /\ UNCHANGED <<udpPc, txFrames, result>> /\ reports' \subseteq reports
        /\ report' \in {report, [report EXCEPT ![t] = r]}
    BY <1>7 DEF ClientRecv, Deliver
  <2>2. PICK place : place = udpPc[t]
    OBVIOUS
  <2>3. udpPc' = [udpPc EXCEPT ![t] = place] /\ place # "off" /\ (Stopped(t) => Stopped(t)')
    BY <1>1, <2>1, <2>2 DEF Bound, Stopped
  <2>4. /\ \A u \in Tests \ {t} : report'[u] = report[u]
        /\ {report'[t], result'[t]} \ {None} \subseteq {report[t], result[t]} \cup reports
    BY <1>1, <2>1
  <2>5. QED
    BY <1>1, <2>1, <2>2, <2>3, <2>4, NumbersOfClient DEF serverVars, historyVars
<1>8. QED
  BY <1>2, <1>3, <1>4, <1>5, <1>6, <1>7 DEF ClientStep

\* The report that reaches the client of an undisturbed test covers all that
\* iperf_udp_client_task sent: its datagrams are received or lost and none is
\* counted twice, for any number of tests, losses, duplicates and retries.
THEOREM UdpReportCoversTest == UdpSpec => []ReportCoversTest
<1>1. UdpInit => NumbersInv
  BY IperfUdpAssumption
     DEF UdpInit, NumbersInv, SessionNumber, FrameNumber, Numbered
<1>2. UdpInv /\ UdpInv' /\ NumbersInv /\ [UdpNext]_udpVars => NumbersInv'
  <2>1. UdpInv' => UdpTypeOK'
    BY DEF UdpInv
  <2>2. QED
    BY <2>1, NumbersServerRecv, NumbersNetwork, NumbersClientStep DEF UdpNext
<1>3. NumbersInv => ReportCoversTest
  <2> SUFFICES ASSUME NumbersInv, NEW t \in Tests,
                      result[t] # None, result[t].owner = t, Clean(t)
               PROVE  Covers(t, result[t].counters)
    BY DEF ReportCoversTest, Covers
  <2>1. Bound(t) /\ Numbered(result[t])
    BY DEF NumbersInv, Bound
  <2>2. QED
    BY <2>1 DEF Numbered
<1>4. QED
  BY <1>1, <1>2, <1>3, UdpInvariant, PTL DEF UdpSpec

=============================================================================
