------------------------------ MODULE IperfTcp ------------------------------
(***************************************************************************)
(* The TCP half of the iperf engine (mmiperf_tcp.c over lwIP): a server    *)
(* session with its listener and at most one connection, and a client      *)
(* session with its connection.  Every callback runs to its end on the     *)
(* stack's task; what varies is the order in which connections are made,   *)
(* data arrives, peers close or reset, timers fire and calls fail.  pcb    *)
(* says of each connection which callbacks lwIP would make for it; what    *)
(* lwIP does by itself is modelled from the callbacks the code registers.  *)
(* Lengths are in small units (HEADER, INTERVAL).  An operator named X_... *)
(* beside X is a mistake in that code which the properties must notice; no *)
(* specification uses it.                                                  *)
(***************************************************************************)
EXTENDS Integers

CONSTANTS
    Conns,          \* connections, each used once
    NoConn,           \* no connection
    HEADER,         \* sizeof(struct iperf_settings), 24 bytes
    INTERVAL,       \* 1024 * 128 bytes
    MAX_IDLE,       \* IPERF_TCP_MAX_IDLE_S (140)
    MaxLen,         \* bound: length of a segment
    MaxBytes,       \* bound: bytes a server's connection receives
    MaxWrites       \* bound: writes of a client that succeed

ASSUME IperfTcpAssumption ==
    /\ NoConn \notin Conns
    /\ HEADER \in Nat \ {0} /\ INTERVAL \in Nat \ {0} /\ MAX_IDLE \in Nat \ {0}
    /\ MaxLen \in Nat /\ MaxBytes \in Nat /\ MaxWrites \in Nat

VARIABLES
    session,    \* struct iperf_state_tcp of the server and of the client
    listener,   \* lwIP has the listening pcb open
    pcb,        \* lwIP's side of each connection
    corrupt,    \* a callback has used a session that was freed
    \* history: report callbacks of each connection; of the connection a session
    \* has, the bytes received or acknowledged, the length of the first segment,
    \* and the polls since anything happened on it
    reported, traffic

tcpVars == <<session, listener, pcb, corrupt, reported, traffic>>

Roles == {"server", "client"}

\* Connections whose callbacks are attached to a session.  A client's connection
\* is "closing" when its peer has closed it and lwIP has closed it in answer
\* (LAST-ACK), and "lost" when lwIP has then freed it without a callback.
Attached == {"connecting", "server", "client", "closing"}

Freed == [live |-> FALSE, serverPcb |-> FALSE, conn |-> NoConn, pollCount |-> 0,
          bytes |-> 0, haveSettings |-> FALSE, listed |-> FALSE]

NoTraffic == [bytes |-> 0, first |-> 0, idle |-> 0]

Role(c) == IF pcb[c] = "server" THEN "server" ELSE "client"

TcpInit ==
    /\ session = [r \in Roles |-> Freed]
    /\ listener = FALSE
    /\ pcb = [c \in Conns |-> "unused"]
    /\ corrupt = FALSE
    /\ reported = [c \in Conns |-> 0]
    /\ traffic = [r \in Roles |-> NoTraffic]

-----------------------------------------------------------------------------

CloseSession_Listener(s) == Freed

\* What iperf_tcp_close leaves of a session whose connection it has closed: a
\* session without a listener is taken off the list and freed.
CloseSession(s) == IF s.serverPcb THEN [s EXCEPT !.conn = NoConn] ELSE Freed

Detached_NotCleared(c, how) == pcb

\* tcp_arg, tcp_poll, tcp_sent, tcp_recv and tcp_err with NULL, then tcp_close or
\* tcp_abort: lwIP makes no further callback.
Detached(c, how) == [pcb EXCEPT ![c] = how]

\* iperf_tcp_close of the session s of connection c: the report callback, the
\* connection closed, the session freed or kept for the next connection.
Close(s, c, how) ==
    /\ reported' = [reported EXCEPT ![c] = @ + 1]
    /\ pcb' = Detached(c, how)
    /\ session' = [session EXCEPT ![Role(c)] = CloseSession(s)]
    /\ traffic' = [traffic EXCEPT ![Role(c)] = NoTraffic]

\* iperf_tcp_client_send_more: the time or the amount is used up and the
\* connection is closed, or something is written, or the send queue is full.
\* tcp_write takes nothing on a connection that lwIP has closed.  Bytes are
\* counted in writes; state is the connection's, idle the history after the step.
SendMore(s, c, state, acked, idle) ==
    \/ Close(s, c, "done")
    \/ /\ \E n \in {0, 1} :
            /\ s.bytes + n <= MaxWrites
            /\ n = 1 => state # "closing"
            /\ session' = [session EXCEPT !["client"] = [s EXCEPT !.bytes = @ + n]]
       /\ pcb' = [pcb EXCEPT ![c] = state]
       /\ traffic' = [traffic EXCEPT !["client"].bytes = acked, !["client"].idle = idle]
       /\ UNCHANGED reported

-----------------------------------------------------------------------------
(* Sessions begin *)

\* mmiperf_start_tcp_server; when it fails everything is undone.
StartTcpServer ==
    /\ ~session["server"].live /\ ~listener
    /\ session' = [session EXCEPT !["server"] =
                     [Freed EXCEPT !.live = TRUE, !.serverPcb = TRUE, !.listed = TRUE]]
    /\ listener' = TRUE
    /\ UNCHANGED <<pcb, corrupt, reported, traffic>>

\* mmiperf_start_tcp_client, iperf_tx_start_impl.  When the bandwidth limit is
\* too low or tcp_connect fails the session is closed before it was listed, and
\* the report callback is made although no handle is returned.
StartTcpClient(c) ==
    /\ pcb[c] = "unused"
    /\ ~session["client"].live
    /\ \/ /\ session' = [session EXCEPT !["client"] =
                            [Freed EXCEPT !.live = TRUE, !.conn = c,
                                          !.haveSettings = TRUE, !.listed = TRUE]]
          /\ pcb' = [pcb EXCEPT ![c] = "connecting"]
          /\ UNCHANGED <<reported, traffic>>
       \/ Close(Freed, c, "done")
    /\ UNCHANGED <<listener, corrupt>>

\* iperf_tcp_client_connected.
ClientConnected(c) ==
    LET s == [session["client"] EXCEPT !.pollCount = 0] IN
    /\ pcb[c] = "connecting"
    /\ SendMore(s, c, "client", traffic["client"].bytes, 0)
    /\ UNCHANGED <<listener, corrupt>>

Busy_Never(s) == FALSE

Busy(s) == s.conn # NoConn

\* iperf_tcp_accept: refuses a second connection.  The report and the settings
\* start afresh; poll_count does not.
Accept(c) ==
    LET s == session["server"] IN
    /\ listener /\ pcb[c] = "unused" /\ s.live
    /\ \/ /\ Busy(s)
          /\ pcb' = [pcb EXCEPT ![c] = "refused"]
          /\ UNCHANGED session
       \/ /\ ~Busy(s)
          /\ session' = [session EXCEPT !["server"].conn = c, !["server"].bytes = 0,
                                        !["server"].haveSettings = FALSE]
          /\ pcb' = [pcb EXCEPT ![c] = "server"]
    /\ UNCHANGED <<listener, corrupt, reported, traffic>>

\* The same with a listener whose argument is a session that was freed.  What
\* the callback does with that memory cannot be said; nothing is modelled after
\* it.
AcceptDangling(c) ==
    /\ listener /\ pcb[c] = "unused" /\ ~session["server"].live
    /\ corrupt' = TRUE
    /\ UNCHANGED <<session, listener, pcb, reported, traffic>>

-----------------------------------------------------------------------------
(* The server's connection *)

\* A segment is expected to begin with the settings: the first one, and those
\* that begin at an interval of the data.
HeaderDue(s) == ~s.haveSettings \/ (s.bytes - HEADER) % INTERVAL = 0

CountSegment_HeaderTwice(s, len) ==
    IF HeaderDue(s) /\ s.bytes > 0 THEN s.bytes + HEADER + len ELSE s.bytes + len

\* bytes_transferred after a segment; only the settings of the first are counted.
CountSegment(s, len) ==
    IF HeaderDue(s) /\ s.bytes + HEADER <= HEADER THEN s.bytes + HEADER
    ELSE s.bytes + len

TcpRecv_PollKept(c, len) ==
    LET s == session["server"]
        h == traffic["server"] IN
    /\ pcb[c] = "server"
    /\ h.bytes + len <= MaxBytes
    /\ len >= HEADER
    /\ session' = [session EXCEPT !["server"] =
                     [s EXCEPT !.bytes = CountSegment(s, len), !.haveSettings = TRUE]]
    /\ traffic' = [traffic EXCEPT !["server"] =
                     [bytes |-> h.bytes + len, idle |-> 0,
                      first |-> IF h.bytes = 0 THEN len ELSE h.first]]
    /\ UNCHANGED <<pcb, reported, listener, corrupt>>

\* iperf_tcp_recv with data: too little of it where the settings are expected
\* ends the test.
TcpRecv(c, len) ==
    LET s == [session["server"] EXCEPT !.pollCount = 0]
        h == traffic["server"] IN
    /\ pcb[c] = "server"
    /\ h.bytes + len <= MaxBytes
    /\ \/ /\ HeaderDue(s) /\ len < HEADER
          /\ Close(s, c, "done")
       \/ /\ ~(HeaderDue(s) /\ len < HEADER)
          /\ session' = [session EXCEPT !["server"] =
                           [s EXCEPT !.bytes = CountSegment(s, len), !.haveSettings = TRUE]]
          /\ traffic' = [traffic EXCEPT !["server"] =
                           [bytes |-> h.bytes + len, idle |-> 0,
                            first |-> IF h.bytes = 0 THEN len ELSE h.first]]
          /\ UNCHANGED <<pcb, reported>>
    /\ UNCHANGED <<listener, corrupt>>

\* iperf_tcp_recv when the peer has closed, or with an error.
ServerFin(c) ==
    /\ pcb[c] = "server"
    /\ Close(session["server"], c, "done")
    /\ UNCHANGED <<listener, corrupt>>

-----------------------------------------------------------------------------
(* Callbacks of both sides *)

\* iperf_tcp_err: lwIP has freed the pcb of the connection; both pointers of the
\* session are cleared, so that iperf_tcp_close frees it.
TcpErr(c) ==
    /\ pcb[c] \in Attached
    /\ Close([session[Role(c)] EXCEPT !.conn = NoConn, !.serverPcb = FALSE], c, "reset")
    /\ UNCHANGED <<listener, corrupt>>

PollCount_NotCounted(n) == n

\* ++poll_count, a uint8_t.
PollCount(n) == (n + 1) % 256

IdleTooLong(n) == n >= MAX_IDLE

\* History of polls, up to the limit.
IdlePolls(h) == IF h.idle < MAX_IDLE THEN h.idle + 1 ELSE h.idle

\* iperf_tcp_poll, about once a second, from the moment tcp_connect or the accept
\* callback has returned: a client tries to send before it is connected too.
TcpPoll(c) ==
    LET s == [session[Role(c)] EXCEPT !.pollCount = PollCount(@)]
        h == traffic[Role(c)] IN
    /\ pcb[c] \in Attached
    /\ \/ /\ IdleTooLong(s.pollCount)
          /\ Close(s, c, "idle")
       \/ /\ ~IdleTooLong(s.pollCount)
          /\ Role(c) = "client"
          /\ SendMore(s, c, pcb[c], h.bytes, IdlePolls(h))
       \/ /\ ~IdleTooLong(s.pollCount)
          /\ Role(c) = "server"
          /\ session' = [session EXCEPT !["server"] = s]
          /\ traffic' = [traffic EXCEPT !["server"].idle = IdlePolls(h)]
          /\ UNCHANGED <<pcb, reported>>
    /\ UNCHANGED <<listener, corrupt>>

\* iperf_tcp_client_sent: data was acknowledged.
ClientSent(c) ==
    LET s == [session["client"] EXCEPT !.pollCount = 0] IN
    /\ pcb[c] \in {"client", "closing"}
    /\ traffic["client"].bytes < s.bytes
    /\ SendMore(s, c, pcb[c], s.bytes, 0)
    /\ UNCHANGED <<listener, corrupt>>

-----------------------------------------------------------------------------
(* The client's peer closes.  iperf_tx_start_impl registers no receive         *)
(* callback, so that lwIP's own (tcp_recv_null) is called: it closes the       *)
(* connection, and the session is told nothing.                                *)

\* lwIP has received the FIN and has answered with its own.
ClientFin(c) ==
    /\ pcb[c] = "client"
    /\ pcb' = [pcb EXCEPT ![c] = "closing"]
    /\ UNCHANGED <<session, listener, corrupt, reported, traffic>>

\* The peer has acknowledged all of the data and lwIP's FIN: lwIP frees the pcb
\* without tcp_err, and conn_pcb points to nothing from here on.
FinAcked(c) ==
    /\ pcb[c] = "closing"
    /\ traffic["client"].bytes = session["client"].bytes
    /\ pcb' = [pcb EXCEPT ![c] = "lost"]
    /\ UNCHANGED <<session, listener, corrupt, reported, traffic>>

-----------------------------------------------------------------------------

TcpNext ==
    /\ ~corrupt
    /\ \/ StartTcpServer
       \/ \E c \in Conns :
            \/ StartTcpClient(c) \/ ClientConnected(c) \/ ClientSent(c)
            \/ ClientFin(c) \/ FinAcked(c)
            \/ Accept(c) \/ AcceptDangling(c)
            \/ ServerFin(c) \/ \E len \in 1..MaxLen : TcpRecv(c, len)
            \/ TcpErr(c) \/ TcpPoll(c)

TcpSpec == TcpInit /\ [][TcpNext]_tcpVars

\* lwIP's slow timer keeps running.
TcpFairness == \A c \in Conns : WF_tcpVars(TcpPoll(c))

-----------------------------------------------------------------------------
(* Properties *)

TcpTypeOK ==
    /\ session \in [Roles -> [live : BOOLEAN, serverPcb : BOOLEAN,
                              conn : Conns \cup {NoConn}, pollCount : 0..255,
                              bytes : Nat, haveSettings : BOOLEAN, listed : BOOLEAN]]
    /\ listener \in BOOLEAN /\ corrupt \in BOOLEAN
    /\ pcb \in [Conns -> Attached \cup {"unused", "refused", "done", "idle", "reset", "lost"}]
    /\ reported \in [Conns -> Nat]
    /\ traffic \in [Roles -> [bytes : Nat, first : Nat, idle : Nat]]

\* The assertions "pcb mismatch" and "invalid conn" of the callbacks: as long as
\* lwIP can call back for a connection, the session it was given exists and is
\* about that connection.
PcbMatches ==
    \A c \in Conns : pcb[c] \in Attached =>
        session[Role(c)].live /\ session[Role(c)].conn = c

\* No connection is reported to the application twice or before it has ended,
\* and one that iperf_tcp_close ends (done, idle or failed, reset) is reported; a
\* refused one is not, and does not disturb the connection in progress.  Of a
\* client's connection that its peer closes ("lost") no report is promised: the
\* session has no tcp_recv, lwIP ends the connection by itself and, unless a poll
\* or an acknowledgement reaches iperf_tcp_close before that, nobody is told.
ReportedOncePerConnection ==
    \A c \in Conns :
        /\ reported[c] <= 1
        /\ pcb[c] \in {"done", "idle", "reset"} => reported[c] = 1
        /\ pcb[c] \in Attached \cup {"unused", "refused"} => reported[c] = 0

\* After a connection has ended the server accepts the next one, whether it was
\* done, idle, cut short or refused; a reset is the only way in which the listener
\* is left without its session (ListenerHasSession).
ServerKeepsListening ==
    listener /\ (\A c \in Conns : pcb[c] # "reset") =>
        session["server"].live /\ session["server"].serverPcb

\* The assertions "invalid session" and "invalid listen pcb" of iperf_tcp_accept:
\* as long as lwIP has the listener open, the session it was given exists and has
\* it.  (A reset of the connection breaks it: iperf_tcp_err clears both pointers
\* although only the connection's pcb was freed.)
ListenerHasSession ==
    listener => session["server"].live /\ session["server"].serverPcb

\* The server never reports more bytes than were received, although a segment
\* where settings are expected is counted in two parts, and misses at most what
\* follows the settings in the first segment: that is dropped with it, where
\* mmiperf.h has "Number of bytes of data transferred during test".
ServerBytes ==
    LET s == session["server"]
        h == traffic["server"]
    IN  s.conn # NoConn /\ s.haveSettings =>
            s.bytes \in (h.bytes - h.first + HEADER)..h.bytes

\* The list of active sessions holds exactly the sessions that exist, so that a
\* handle found in it can be read.
ListMatches == \A r \in Roles : session[r].listed = session[r].live

\* A peer that falls silent does not keep the only session of a side: again and
\* again neither session has a connection.  The exception is the client whose
\* connection lwIP has ended by itself: no poll reaches it any more and it keeps
\* its session for ever.
ConnectionEnds ==
    []<>(\A r \in Roles :
            session[r].conn # NoConn => pcb[session[r].conn] = "lost")

\* IPERF_TCP_MAX_IDLE_S is the idle time after which a test fails: a connection
\* is given up only after that many polls in which nothing happened on it.
\* (iperf_tcp_accept leaves poll_count as the connection before left it, so that
\* the limit holds for a server's connection from its first data on.)
IdleLimit ==
    [][\A c \in Conns : pcb[c] # "idle" /\ pcb'[c] = "idle" =>
            \/ traffic[Role(c)].idle + 1 >= MAX_IDLE
            \/ pcb[c] = "server" /\ traffic["server"].bytes = 0]_tcpVars

=============================================================================
