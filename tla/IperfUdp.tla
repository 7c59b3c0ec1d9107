------------------------------ MODULE IperfUdp ------------------------------
(***************************************************************************)
(* The UDP half of the iperf engine (mmiperf_udp.c over lwIP): one server, *)
(* which keeps a single session, and the client task of each test, joined  *)
(* by a network that delays, loses, duplicates and reorders datagrams.     *)
(* What a datagram carries is its number and whether it is the final one;  *)
(* a server report is the server's counters at the time it is sent.  Bytes *)
(* and durations, which follow the frame counts, are left out.  An operator*)
(* named X_... beside X is a mistake in that code which the properties     *)
(* must notice; no specification uses it.                                  *)
(***************************************************************************)
EXTENDS Integers, FiniteSets

CONSTANTS
    Tests,              \* runs of the client
    Endpoints,          \* client addresses and ports
    EndpointsOf,        \* those that a test can come from
    None,               \* no endpoint, no test, no report
    CLIENT_MAX_CONSEC_FAILURES, \* IPERF_UDP_CLIENT_MAX_CONSEC_FAILURES (60)
    CLIENT_REPORT_RETRIES,      \* IPERF_UDP_CLIENT_REPORT_RETRIES (3)
    Amount,             \* datagrams a test sends before its final one
    MaxInFlight,        \* bound: datagrams in flight to the server
    MaxReports,         \* bound: reports in flight to the clients
    MaxFaults           \* bound: duplicated datagrams, and pauses of a minute

ASSUME IperfUdpAssumption ==
    /\ CLIENT_MAX_CONSEC_FAILURES \in Nat \ {0}
    /\ CLIENT_REPORT_RETRIES \in Nat
    /\ EndpointsOf \in [Tests -> SUBSET Endpoints]
    /\ Amount \in [Tests -> Nat] /\ MaxInFlight \in Nat /\ MaxReports \in Nat
    /\ MaxFaults \in Nat
    /\ None \notin Tests \cup Endpoints

\* next_packet_id is an int32_t and the number of a datagram an int64_t: NextAfter
\* is exact for tests in which the number after the last one still fits.
ASSUME NumbersFit == \A t \in Tests : Amount[t] <= 2147483645

VARIABLES
    \* struct iperf_server_state_udp
    client,         \* session.client_addr and client_port
    nextId,         \* session.next_packet_id, negative without a session
    counters,       \* report: rx_frames, error_count, out_of_sequence_frames
    expired,        \* udp_server_session_has_timed_out
    \* struct iperf_client_state_udp and the place of iperf_udp_client_task
    udpPc,
    endpoint,       \* local address and port
    txFrames,       \* report.tx_frames
    failureCnt,
    awaitingReport,
    report,         \* report received and not yet parsed
    retries,        \* ii of the retry loop
    result,         \* report for the application's callback
    \* the network
    frames, reports, faults,
    \* history: the test whose datagram began the session; and of each test the
    \* datagrams that the server saw up to its report and how often the server
    \* reported it, or that its session was disturbed: refused, shared with
    \* another test, or begun again
    owner, history

serverVars == <<client, nextId, counters, expired>>
clientVars == <<udpPc, endpoint, txFrames, failureCnt, awaitingReport, report,
                retries, result>>
netVars == <<frames, reports, faults>>
historyVars == <<owner, history>>
udpVars == <<serverVars, clientVars, netVars, historyVars>>

Zero == [rx |-> 0, err |-> 0, oos |-> 0]

\* mmiperf_start_udp_server has left a server without a session.  (Datagrams
\* sent before there is a server are lost.)
UdpInit ==
    /\ client = None
    /\ nextId = -1
    /\ counters = Zero
    /\ expired = FALSE
    /\ udpPc = [t \in Tests |-> "off"]
    /\ endpoint = [t \in Tests |-> None]
    /\ txFrames = [t \in Tests |-> 0]
    /\ failureCnt = [t \in Tests |-> 0]
    /\ awaitingReport = [t \in Tests |-> FALSE]
    /\ report = [t \in Tests |-> None]
    /\ retries = [t \in Tests |-> 0]
    /\ result = [t \in Tests |-> None]
    /\ frames = {} /\ reports = {} /\ faults = 0
    /\ owner = None
    /\ history = [t \in Tests |-> [seen |-> 0, reported |-> 0]]

\* Datagrams in flight are a set: a repeated one that is the same as one in
\* flight is a duplicate.  The network holds a bounded number of them, and loses
\* the others.
Put(net, m, max) == IF Cardinality(net) < max THEN net \cup {m} ELSE net

\* A delivered datagram leaves the network, or a copy of it stays behind.
Deliver(net, m) ==
    \/ net' = net \ {m} /\ UNCHANGED faults
    \/ faults < MaxFaults /\ faults' = faults + 1 /\ UNCHANGED net

\* The network loses a datagram or, on the way back, a report; a report to an
\* endpoint where no client is left is lost as well.
Lose ==
    /\ \/ \E f \in frames : frames' = frames \ {f} /\ UNCHANGED reports
       \/ \E r \in reports : reports' = reports \ {r} /\ UNCHANGED frames
    /\ UNCHANGED <<serverVars, clientVars, faults, historyVars>>

-----------------------------------------------------------------------------
(* The server *)

\* A minute passes without a datagram that the session counts.
SessionTimesOut ==
    /\ client # None /\ ~expired /\ faults < MaxFaults
    /\ expired' = TRUE
    /\ faults' = faults + 1
    /\ UNCHANGED <<client, nextId, counters, clientVars, frames, reports, historyVars>>

SameSession_AnyClient(e) == client # None /\ ~expired

\* get_session: the endpoint is the one of the session that is kept.
SameSession(e) == client = e /\ ~expired

\* udp_server_start_session: there is no session in progress to protect.
StartSession(e) == ~SameSession(e) /\ (nextId < 0 \/ expired)

Count_GapOffByOne(c, n, id) ==
    [rx  |-> c.rx + 1,
     err |-> c.err + (IF id > n + 1 THEN id - n - 1 ELSE 0),
     oos |-> c.oos + (IF id < n THEN 1 ELSE 0)]

Count_LateAsNew(c, n, id) ==
    [c EXCEPT !.rx = @ + 1, !.err = @ + (IF id > n THEN id - n ELSE 0)]

\* The counters after a datagram numbered id while number n was expected.
Count(c, n, id) ==
    [rx  |-> c.rx + 1,
     err |-> c.err + (IF id > n THEN id - n ELSE 0),
     oos |-> c.oos + (IF id < n THEN 1 ELSE 0)]

NextAfter_NotClosed(n, id, final) == IF id >= n THEN id + 1 ELSE n

\* The next number expected; the first final datagram closes the session.  (The
\* sum is stored in 32 bits: NumbersFit.)
NextAfter(n, id, final) ==
    IF final THEN -1 ELSE IF id >= n THEN id + 1 ELSE n

Answer_BeforeCounting(f, c, own) ==
    reports' = IF f.final
               THEN Put(reports, [to |-> f.from, counters |-> counters, owner |-> own],
                        MaxReports)
               ELSE reports

\* Every final datagram is answered, the ones after the first as well; there
\* may be no memory for the answer, and the network may lose it.
Answer(f, c, own) ==
    reports' = IF f.final
               THEN Put(reports, [to |-> f.from, counters |-> c, owner |-> own],
                        MaxReports)
               ELSE reports

Disturbed == [seen |-> -1, reported |-> -1]
Clean(t) == history[t] # Disturbed

\* The history of a test after a datagram that its session took.
Seen(h, final) == [seen |-> IF h.reported = 0 THEN h.seen + 1 ELSE h.seen,
                   reported |-> IF final THEN h.reported + 1 ELSE h.reported]

\* iperf_udp_server_recv, with the session found by get_session.
ServerRecv(f) ==
    LET fresh == StartSession(f.from)
        n == IF fresh THEN 0 ELSE nextId
        c == IF fresh THEN Zero ELSE counters
        counting == n >= 0
        now == IF counting THEN Count(c, n, f.id) ELSE c
        own == IF fresh THEN f.test ELSE owner
    IN  /\ f \in frames
        /\ SameSession(f.from) \/ fresh
        /\ Deliver(frames, f)
        /\ client' = f.from
        /\ counters' = now
        /\ nextId' = IF counting THEN NextAfter(n, f.id, f.final) ELSE n
        /\ expired' = FALSE
        /\ Answer(f, now, own)
        /\ owner' = own
        /\ history' = [t \in Tests |->
              CASE ~Clean(t) -> Disturbed
                [] t # f.test -> IF t = own THEN Disturbed ELSE history[t]
                [] own # t \/ (fresh /\ history[t].seen > 0) -> Disturbed
                [] OTHER -> Seen(history[t], counting /\ f.final)]
        /\ UNCHANGED clientVars

\* iperf_udp_server_recv when another session is in progress: the datagram is
\* dropped.
ServerDrops(f) ==
    /\ f \in frames
    /\ ~SameSession(f.from) /\ ~StartSession(f.from)
    /\ Deliver(frames, f)
    /\ history' = [history EXCEPT ![f.test] = Disturbed]
    /\ UNCHANGED <<serverVars, clientVars, reports, owner>>

-----------------------------------------------------------------------------
(* The client task *)

UdpGoto(t, place) == udpPc' = [udpPc EXCEPT ![t] = place]

\* The pcb that receives at an endpoint: a test's, until udp_remove.
Bound(t) == udpPc[t] \in {"loop", "wait", "remove"}

\* mmiperf_start_udp_client.  The local port is a counter modulo a small range,
\* so that a later test may come from the endpoint of an earlier one; a port
\* still in use makes udp_bind fail.
StartUdpClient(t, e) ==
    /\ udpPc[t] = "off"
    /\ endpoint' = [endpoint EXCEPT ![t] = e]
    /\ UdpGoto(t, IF \E u \in Tests : Bound(u) /\ endpoint[u] = e
                  THEN "failed" ELSE "loop")
    /\ UNCHANGED <<serverVars, txFrames, failureCnt, awaitingReport, report,
                   retries, result, netVars, historyVars>>

\* iperf_udp_client_send_packet that succeeds: datagrams are numbered by
\* tx_frames, negated in the final one.  Zero has no sign: a final datagram
\* that is the first one does not look final.
Send(t, final) ==
    frames' = Put(frames, [from |-> endpoint[t], test |-> t, id |-> txFrames[t],
                           final |-> final /\ txFrames[t] > 0],
                  MaxInFlight)

LoopExit(t, final) ==
    IF final \/ failureCnt'[t] >= CLIENT_MAX_CONSEC_FAILURES THEN "wait" ELSE "loop"

\* One turn of the loop of iperf_udp_client_task: the amount, or the time that
\* is enough for it, is used up or not; the datagram is sent, or it cannot be.
\* The bandwidth limit may hold a datagram back as well: a final one is not sent
\* in either case (and the count of failures is not looked at again); for
\* another one the turn changes nothing and is not a step.
ClientTurn(t) ==
    /\ udpPc[t] = "loop"
    /\ LET final == txFrames[t] = Amount[t] IN
        /\ awaitingReport' = [awaitingReport EXCEPT ![t] = final]
        /\ \/ /\ Send(t, final)
              /\ txFrames' = [txFrames EXCEPT ![t] = @ + 1]
              /\ failureCnt' = [failureCnt EXCEPT ![t] = 0]
           \/ /\ ~final
              /\ failureCnt' = [failureCnt EXCEPT ![t] = @ + 1]
              /\ UNCHANGED <<frames, txFrames>>
           \/ /\ final
              /\ UNCHANGED <<frames, txFrames, failureCnt>>
        /\ UdpGoto(t, LoopExit(t, final))
    /\ UNCHANGED <<serverVars, endpoint, report, retries, result,
                   reports, faults, historyVars>>

RetryAllowed(t) == report[t] = None /\ retries[t] < CLIENT_REPORT_RETRIES

ClientRetry_NotCounted(t) ==
    /\ udpPc[t] = "wait"
    /\ RetryAllowed(t)
    /\ Send(t, TRUE)
    /\ UNCHANGED <<serverVars, clientVars, reports, faults, historyVars>>

\* A wait of the task is over, because a report has arrived or because a second
\* has passed, and no report is there: the final datagram again (sending it may
\* fail, which is a datagram that is never delivered), and another wait.
ClientRetry(t) ==
    /\ udpPc[t] = "wait"
    /\ RetryAllowed(t)
    /\ retries' = [retries EXCEPT ![t] = @ + 1]
    /\ Send(t, TRUE)
    /\ UNCHANGED <<serverVars, udpPc, endpoint, txFrames, failureCnt,
                   awaitingReport, report, result, reports, faults,
                   historyVars>>

\* The last wait is over.  The report, if there is one, is parsed and its buffer
\* freed; without one the application is told that nothing was transferred.
ClientResult(t) ==
    /\ udpPc[t] = "wait"
    /\ ~RetryAllowed(t)
    /\ result' = [result EXCEPT ![t] = report[t]]
    /\ report' = [report EXCEPT ![t] = None]
    /\ UdpGoto(t, "remove")
    /\ UNCHANGED <<serverVars, endpoint, txFrames, failureCnt, awaitingReport,
                   retries, netVars, historyVars>>

\* udp_remove, the semaphore deleted, the report callback, and the session
\* freed.  (The buffer of a report that arrived since the last look is not: it
\* leaks.)
ClientCleanup(t) ==
    /\ udpPc[t] = "remove"
    /\ UdpGoto(t, "freed")
    /\ failureCnt' = [failureCnt EXCEPT ![t] = 0]
    /\ awaitingReport' = [awaitingReport EXCEPT ![t] = FALSE]
    /\ report' = [report EXCEPT ![t] = None]
    /\ retries' = [retries EXCEPT ![t] = 0]
    /\ txFrames' = [txFrames EXCEPT ![t] = 0]
    /\ result' = [result EXCEPT ![t] = None]
    /\ UNCHANGED <<serverVars, endpoint, netVars, historyVars>>

\* The checks of iperf_udp_client_recv (datagrams come from the server).
Accepts(t) == awaitingReport[t] /\ report[t] = None

\* iperf_udp_client_recv, called for the pcb bound to the endpoint.
ClientRecv(t, r) ==
    /\ Bound(t)
    /\ r \in reports
    /\ r.to = endpoint[t]
    /\ Deliver(reports, r)
    /\ \/ /\ Accepts(t)
          /\ report' = [report EXCEPT ![t] = r]
       \/ /\ ~Accepts(t)
          /\ UNCHANGED report
    /\ UNCHANGED <<serverVars, udpPc, endpoint, txFrames, failureCnt,
                   awaitingReport, retries, result, frames, historyVars>>

-----------------------------------------------------------------------------

\* The steps of the client task, all of which end a bounded wait or a call.
ClientStep(t) ==
    \/ ClientTurn(t) \/ ClientRetry(t) \/ ClientResult(t) \/ ClientCleanup(t)

UdpNext ==
    \/ SessionTimesOut
    \/ Lose
    \/ \E f \in frames : ServerRecv(f) \/ ServerDrops(f)
    \/ \E t \in Tests :
          \/ \E e \in EndpointsOf[t] : StartUdpClient(t, e)
          \/ ClientStep(t)
          \/ \E r \in reports : ClientRecv(t, r)

UdpSpec == UdpInit /\ [][UdpNext]_udpVars

\* The task of a started client is scheduled, and time passes for its waits.
\* Nothing is assumed of the network or of the server.
UdpFairness == \A t \in Tests : WF_udpVars(ClientStep(t))

-----------------------------------------------------------------------------
(* Properties *)

Counters == [rx : Nat, err : Nat, oos : Nat]

\* Reports, in flight or received.
Reports == [to : Endpoints, counters : Counters, owner : Tests]

UdpTypeOK ==
    /\ expired \in BOOLEAN
    /\ client \in Endpoints \cup {None}
    /\ nextId \in Nat \cup {-1}
    /\ counters \in Counters
    /\ udpPc \in [Tests -> {"off", "failed", "loop", "wait", "remove", "freed"}]
    /\ endpoint \in [Tests -> Endpoints \cup {None}]
    /\ txFrames \in [Tests -> Nat] /\ failureCnt \in [Tests -> Nat]
    /\ awaitingReport \in [Tests -> BOOLEAN]
    /\ report \in [Tests -> Reports \cup {None}]
    /\ retries \in [Tests -> Nat]
    /\ result \in [Tests -> Reports \cup {None}]
    /\ frames \subseteq [from : Endpoints, test : Tests, id : Nat, final : BOOLEAN]
    /\ reports \subseteq Reports
    /\ faults \in Nat
    /\ owner \in Tests \cup {None}
    /\ history \in [Tests -> [seen : Nat, reported : Nat] \cup {Disturbed}]

\* The server's counters add up at every moment of a session: every number
\* below the next expected one was received, skipped, or received late, in
\* whatever order the network delivers.
SequenceAccounting ==
    nextId >= 0 => counters.rx + counters.err = nextId + counters.oos

\* The report a client gets covers its whole test: the datagrams it sent, the
\* final one included, are received or lost, and none is counted twice, however
\* often the final datagram was repeated.  (A repeated final datagram is
\* numbered one higher than the first: it stands for both.)
ReportCoversTest ==
    \A t \in Tests :
        LET c == result[t].counters IN
        result[t] # None /\ result[t].owner = t /\ Clean(t) =>
            c.rx + c.err - c.oos \in {txFrames[t], txFrames[t] + 1}

\* A test is not told of losses that did not happen: unless its session was
\* shared, refused or begun again, the report counts each datagram of the test
\* that reached the server before the report.
ReportTruthful ==
    \A t \in Tests :
        result[t] # None /\ result[t].owner = t /\ Clean(t) =>
            result[t].counters.rx = history[t].seen

\* The application is told at most once of an undisturbed test, although its final
\* datagram is repeated and duplicated.  Disturbed, and excluded, are the tests
\* whose datagrams were refused, met the session of another test, or began a
\* second session: a final datagram that comes after another client's session
\* took the server, or after a minute, begins one and is reported again.
ReportedOnce == \A t \in Tests : Clean(t) => history[t].reported <= 1

\* A client gets the report of another test only from an earlier use of its own
\* address and port.
ReportNotCrossed ==
    \A t \in Tests : result[t] # None =>
        endpoint[result[t].owner] = endpoint[t]

\* Whatever the network and the server do, the clients that start end: they call
\* the report callback and free their sessions.
ClientFinishes ==
    []<>(\A t \in Tests : udpPc[t] \in {"off", "failed", "freed"})

=============================================================================
