---------------------------- MODULE IperfProofs -----------------------------
(***************************************************************************)
(* Proofs about the TCP half of the iperf engine, for any number of        *)
(* connections, any lengths and any limit of idle time; and about the      *)
(* service, whichever half app_main starts.                                *)
(***************************************************************************)
EXTENDS Iperf, IperfUdpProofs

SessionType == [live : BOOLEAN, serverPcb : BOOLEAN, conn : Conns \cup {NoConn},
                pollCount : 0 .. 255, bytes : Nat, haveSettings : BOOLEAN,
                listed : BOOLEAN]

TrafficType == [bytes : Nat, first : Nat, idle : Nat]

\* A session that does not exist has no connection, and the server's counters
\* follow what its connection has received.
FreedHasNone == \A r \in Roles : ~session[r].live => session[r].conn = NoConn

BytesFollow ==
    LET s == session["server"]
        h == traffic["server"]
    IN  /\ s.conn = NoConn => h = NoTraffic
        /\ s.conn # NoConn /\ ~s.haveSettings => h.bytes = 0 /\ s.bytes = 0
        /\ s.conn # NoConn /\ s.haveSettings =>
              s.bytes = h.bytes - h.first + HEADER /\ h.first \in HEADER .. h.bytes

\* Connections whose poll_count counts from the last time anything happened.
Counted(c) ==
    \/ pcb[c] \in Attached \ {"server"}
    \/ pcb[c] = "server" /\ traffic["server"].bytes > 0

PollsFollow ==
    \A c \in Conns :
        Counted(c) => session[Role(c)].pollCount <= traffic[Role(c)].idle

\* The inductive invariant.
TcpInv ==
    /\ TcpTypeOK
    /\ PcbMatches /\ ReportedOncePerConnection
    /\ ServerKeepsListening /\ ListMatches
    /\ FreedHasNone /\ BytesFollow /\ PollsFollow

(***************************************************************************)
(* A connection that ends in iperf_tcp_close is reported, detached from    *)
(* its session and leaves a session that is freed or ready for the next.   *)
(***************************************************************************)
LEMMA CloseStep ==
    ASSUME TcpInv, NEW c \in Conns, pcb[c] \in Attached,
           NEW how \in {"done", "idle", "reset"},
           NEW s \in SessionType, s.live, s.listed,
           s.serverPcb = session[Role(c)].serverPcb \/ how = "reset",
           Close(s, c, how), UNCHANGED <<listener, corrupt>>
    PROVE  TcpInv'
<1> USE IperfTcpAssumption
<1> DEFINE R == Role(c)
<1>0. R \in Roles /\ R = (IF pcb[c] = "server" THEN "server" ELSE "client")
  BY DEF Role, Roles
<1>1. /\ session \in [Roles -> SessionType]
      /\ traffic \in [Roles -> TrafficType]
      /\ pcb \in [Conns -> Attached \cup {"unused", "refused", "done", "idle", "reset", "lost"}]
      /\ reported \in [Conns -> Nat]
      /\ listener \in BOOLEAN /\ corrupt \in BOOLEAN
  BY DEF TcpInv, TcpTypeOK, SessionType, TrafficType
<1>2. Freed \in SessionType /\ CloseSession(s) \in SessionType
      /\ CloseSession(s).conn = NoConn
      /\ CloseSession(s).listed = CloseSession(s).live
      /\ (s.serverPcb => CloseSession(s).live /\ CloseSession(s).serverPcb)
  <2>1. Freed \in SessionType /\ Freed.conn = NoConn /\ Freed.listed = Freed.live
    BY DEF Freed, SessionType
  <2>2. CASE s.serverPcb
    BY <2>1, <2>2 DEF CloseSession, SessionType
  <2>3. CASE ~s.serverPcb
    BY <2>1, <2>3 DEF CloseSession
  <2>4. QED
    BY <2>1, <2>2, <2>3
<1> DEFINE n == CloseSession(s)
<1>3. /\ session' = [session EXCEPT ![R] = n]
      /\ traffic' = [traffic EXCEPT ![R] = NoTraffic]
      /\ pcb' = [pcb EXCEPT ![c] = how]
      /\ reported' = [reported EXCEPT ![c] = @ + 1]
  BY DEF Close, Detached
<1>4. NoTraffic \in TrafficType
  BY DEF NoTraffic, TrafficType
<1> HIDE DEF n, R
<1>5. TcpTypeOK'
  BY <1>0, <1>1, <1>2, <1>3, <1>4 DEF TcpTypeOK, SessionType, TrafficType, n
<1>6. /\ session'[R] = n
      /\ \A r \in Roles : r # R => session'[r] = session[r]
      /\ traffic'[R] = NoTraffic
      /\ \A r \in Roles : r # R => traffic'[r] = traffic[r]
      /\ pcb'[c] = how
      /\ \A d \in Conns : d # c => pcb'[d] = pcb[d]
      /\ reported'[c] = reported[c] + 1
      /\ \A d \in Conns : d # c => reported'[d] = reported[d]
  BY <1>0, <1>1, <1>3
<1>7. \A d \in Conns : pcb'[d] \in Attached =>
         /\ d # c /\ pcb[d] \in Attached /\ Role(d)' = Role(d)
         /\ Role(d) \in Roles /\ Role(d) # R
  <2> SUFFICES ASSUME NEW d \in Conns, pcb'[d] \in Attached
               PROVE  /\ d # c /\ pcb[d] \in Attached /\ Role(d)' = Role(d)
                      /\ Role(d) \in Roles /\ Role(d) # R
    OBVIOUS
  <2>1. d # c
    BY <1>6 DEF Attached
  <2>2. pcb'[d] = pcb[d]
    BY <1>6, <2>1
  <2>3. Role(d)' = Role(d) /\ Role(d) \in Roles
    BY <2>2 DEF Role, Roles
  <2>4. Role(d) # R
    BY <2>1, <2>2 DEF R, TcpInv, PcbMatches
  <2>5. QED
    BY <2>1, <2>2, <2>3, <2>4
<1>8. PcbMatches'
  BY <1>6, <1>7 DEF TcpInv, PcbMatches
<1>9. ReportedOncePerConnection'
  BY <1>1, <1>6 DEF TcpInv, ReportedOncePerConnection, Attached
<1>10. ListMatches'
  BY <1>2, <1>6 DEF TcpInv, ListMatches, n
<1>11. FreedHasNone'
  BY <1>2, <1>6 DEF TcpInv, FreedHasNone, n
<1>12. BytesFollow'
  <2>1. CASE R = "server"
    BY <1>2, <1>6, <2>1 DEF BytesFollow, n
  <2>2. CASE R # "server"
    <3>1. session'["server"] = session["server"] /\ traffic'["server"] = traffic["server"]
      BY <1>6, <2>2 DEF Roles
    <3>2. QED
      BY <3>1 DEF TcpInv, BytesFollow
  <2>3. QED
    BY <2>1, <2>2
<1>13. PollsFollow'
  <2> SUFFICES ASSUME NEW d \in Conns, Counted(d)'
               PROVE  (session[Role(d)].pollCount <= traffic[Role(d)].idle)'
    BY DEF PollsFollow
  <2>1. pcb'[d] \in Attached
    BY DEF Counted, Attached
  <2>2. /\ session'[Role(d)] = session[Role(d)] /\ traffic'[Role(d)] = traffic[Role(d)]
        /\ Role(d)' = Role(d) /\ pcb'[d] = pcb[d]
    BY <1>6, <1>7, <2>1
  <2>3. Counted(d)
    BY <2>2 DEF Counted, Role
  <2>4. QED
    BY <2>2, <2>3 DEF TcpInv, PollsFollow
<1>14. ServerKeepsListening'
  <2> SUFFICES ASSUME listener, \A d \in Conns : pcb'[d] # "reset"
               PROVE  session'["server"].live /\ session'["server"].serverPcb
    BY DEF ServerKeepsListening
  <2>1. how # "reset"
    BY <1>6
  <2>2. \A d \in Conns : pcb[d] # "reset"
    BY <1>6 DEF Attached
  <2>3. session["server"].live /\ session["server"].serverPcb
    BY <2>2 DEF TcpInv, ServerKeepsListening
  <2>4. CASE R = "server"
    BY <1>2, <1>6, <2>1, <2>3, <2>4 DEF n, R
  <2>5. CASE R # "server"
    BY <1>6, <2>3, <2>5 DEF Roles
  <2>6. QED
    BY <2>4, <2>5
<1>15. QED
  BY <1>5, <1>8, <1>9, <1>10, <1>11, <1>12, <1>13, <1>14 DEF TcpInv

\* A callback of connection c that keeps it: the session and the history become
\* s and h, and the connection's place in lwIP becomes place.
Keeps(c, s, h, place) ==
    /\ s \in SessionType /\ h \in TrafficType /\ place \in Attached
    /\ place = "server" <=> pcb[c] = "server"
    /\ s.live /\ s.conn = c /\ s.listed
    /\ s.serverPcb = session[Role(c)].serverPcb
    /\ session' = [session EXCEPT ![Role(c)] = s]
    /\ traffic' = [traffic EXCEPT ![Role(c)] = h]
    /\ pcb' = [pcb EXCEPT ![c] = place]
    /\ UNCHANGED <<reported, listener, corrupt>>
    /\ place # "server" \/ h.bytes > 0 => s.pollCount <= h.idle
    /\ place = "server" /\ ~s.haveSettings => h.bytes = 0 /\ s.bytes = 0
    /\ place = "server" /\ s.haveSettings =>
          s.bytes = h.bytes - h.first + HEADER /\ h.first \in HEADER .. h.bytes

(***************************************************************************)
(* A callback that keeps its connection keeps the session attached to it.  *)
(***************************************************************************)
LEMMA KeepStep ==
    ASSUME TcpInv, NEW c \in Conns, pcb[c] \in Attached,
           NEW s, NEW h, NEW place, Keeps(c, s, h, place)
    PROVE  TcpInv'
<1> USE DEF Keeps
<1> USE IperfTcpAssumption
<1> DEFINE R == Role(c)
<1>0. R \in Roles /\ R = (IF pcb[c] = "server" THEN "server" ELSE "client")
  BY DEF Role, Roles
<1>1. /\ session \in [Roles -> SessionType]
      /\ traffic \in [Roles -> TrafficType]
      /\ pcb \in [Conns -> Attached \cup {"unused", "refused", "done", "idle", "reset", "lost"}]
      /\ reported \in [Conns -> Nat]
      /\ listener \in BOOLEAN /\ corrupt \in BOOLEAN
  BY DEF TcpInv, TcpTypeOK, SessionType, TrafficType
<1> HIDE DEF R
<1>2. TcpTypeOK'
  BY <1>0, <1>1 DEF TcpTypeOK, SessionType, TrafficType, R
<1>3. /\ session'[R] = s /\ traffic'[R] = h
      /\ \A r \in Roles : r # R => session'[r] = session[r] /\ traffic'[r] = traffic[r]
      /\ pcb'[c] = place
      /\ \A d \in Conns : d # c => pcb'[d] = pcb[d]
      /\ reported' = reported
  BY <1>0, <1>1 DEF R
<1>4. Role(c)' = R
  BY <1>0, <1>3 DEF Role
<1>5. \A d \in Conns : d # c /\ pcb'[d] \in Attached =>
         /\ pcb[d] \in Attached /\ Role(d)' = Role(d) /\ Role(d) \in Roles /\ Role(d) # R
  <2> SUFFICES ASSUME NEW d \in Conns, d # c, pcb'[d] \in Attached
               PROVE  /\ pcb[d] \in Attached /\ Role(d)' = Role(d)
                      /\ Role(d) \in Roles /\ Role(d) # R
    OBVIOUS
  <2>1. pcb'[d] = pcb[d]
    BY <1>3
  <2>2. Role(d)' = Role(d) /\ Role(d) \in Roles
    BY <2>1 DEF Role, Roles
  <2>3. Role(d) # R
    BY <2>1 DEF R, TcpInv, PcbMatches
  <2>4. QED
    BY <2>1, <2>2, <2>3
<1>6. PcbMatches'
  BY <1>3, <1>4, <1>5 DEF TcpInv, PcbMatches
<1>7. ReportedOncePerConnection'
  BY <1>3 DEF TcpInv, ReportedOncePerConnection, Attached
<1>8. ListMatches'
  <2>1. s.listed = s.live
    BY DEF SessionType
  <2>2. QED
    BY <1>3, <2>1 DEF TcpInv, ListMatches
<1>9. FreedHasNone'
  BY <1>3 DEF TcpInv, FreedHasNone
<1>10. BytesFollow'
  <2>1. CASE R = "server"
    BY <1>0, <1>3, <2>1 DEF BytesFollow
  <2>2. CASE R # "server"
    <3>1. session'["server"] = session["server"] /\ traffic'["server"] = traffic["server"]
      BY <1>3, <2>2 DEF Roles
    <3>2. QED
      BY <3>1 DEF TcpInv, BytesFollow
  <2>3. QED
    BY <2>1, <2>2
<1>11. PollsFollow'
  <2> SUFFICES ASSUME NEW d \in Conns, Counted(d)'
               PROVE  (session[Role(d)].pollCount <= traffic[Role(d)].idle)'
    BY DEF PollsFollow
  <2>1. CASE d = c
    <3>1. place # "server" \/ h.bytes > 0
      BY <1>0, <1>3, <2>1 DEF Counted
    <3>2. QED
      BY <1>3, <1>4, <2>1, <3>1
  <2>2. CASE d # c
    <3>1. pcb'[d] \in Attached
      BY DEF Counted, Attached
    <3>2. /\ session'[Role(d)] = session[Role(d)] /\ traffic'[Role(d)] = traffic[Role(d)]
          /\ Role(d)' = Role(d) /\ pcb'[d] = pcb[d]
      BY <1>3, <1>5, <2>2, <3>1
    <3>3. Counted(d)
      BY <3>2 DEF Counted, Role
    <3>4. QED
      BY <3>2, <3>3 DEF TcpInv, PollsFollow
  <2>3. QED
    BY <2>1, <2>2
<1>12. ServerKeepsListening'
  <2> SUFFICES ASSUME listener, \A d \in Conns : pcb'[d] # "reset"
               PROVE  session'["server"].live /\ session'["server"].serverPcb
    BY DEF ServerKeepsListening
  <2>1. \A d \in Conns : pcb[d] # "reset"
    BY <1>3 DEF Attached
  <2>2. session["server"].live /\ session["server"].serverPcb
    BY <2>1 DEF TcpInv, ServerKeepsListening
  <2>3. CASE R = "server"
    BY <1>3, <2>2, <2>3 DEF R
  <2>4. CASE R # "server"
    BY <1>3, <2>2, <2>4 DEF Roles
  <2>5. QED
    BY <2>3, <2>4
<1>13. QED
  BY <1>2, <1>6, <1>7, <1>8, <1>9, <1>10, <1>11, <1>12 DEF TcpInv

(***************************************************************************)
(* iperf_tcp_client_send_more closes the connection or keeps it.           *)
(***************************************************************************)
LEMMA SendMoreStep ==
    ASSUME TcpInv, NEW c \in Conns, pcb[c] \in Attached \ {"server"},
           NEW state \in Attached \ {"server"},
           NEW s \in SessionType, NEW acked \in Nat, NEW idle \in Nat,
           s.live, s.conn = c, s.listed,
           s.serverPcb = session["client"].serverPcb, s.pollCount <= idle,
           SendMore(s, c, state, acked, idle), UNCHANGED <<listener, corrupt>>
    PROVE  TcpInv'
<1>0. Role(c) = "client" /\ pcb[c] \in Attached
  BY DEF Role, Attached
<1>1. CASE Close(s, c, "done")
  BY <1>0, <1>1, CloseStep
<1>2. CASE ~Close(s, c, "done")
  <2>1. PICK n \in {0, 1} :
          /\ session' = [session EXCEPT !["client"] = [s EXCEPT !.bytes = @ + n]]
          /\ pcb' = [pcb EXCEPT ![c] = state]
          /\ traffic' = [traffic EXCEPT !["client"].bytes = acked, !["client"].idle = idle]
          /\ UNCHANGED reported
    BY <1>2 DEF SendMore
  <2> DEFINE s2 == [s EXCEPT !.bytes = @ + n]
             h2 == [traffic["client"] EXCEPT !.bytes = acked, !.idle = idle]
  <2>2. traffic \in [Roles -> TrafficType] /\ "client" \in Roles
    BY DEF TcpInv, TcpTypeOK, TrafficType, Roles
  <2>3. s2 \in SessionType /\ s2.live /\ s2.conn = c /\ s2.listed
        /\ s2.serverPcb = s.serverPcb /\ s2.pollCount = s.pollCount
    BY DEF SessionType
  <2>4. h2 \in TrafficType /\ h2.idle = idle
    BY <2>2 DEF TrafficType
  <2>5. session' = [session EXCEPT ![Role(c)] = s2] /\ traffic' = [traffic EXCEPT ![Role(c)] = h2]
    BY <1>0, <2>1, <2>2 DEF TrafficType
  <2> HIDE DEF s2, h2
  <2>6. Keeps(c, s2, h2, state)
    BY <1>0, <2>1, <2>3, <2>4, <2>5 DEF Keeps, Attached
  <2>7. QED
    BY <1>0, <2>6, KeepStep
<1>3. QED
  BY <1>1, <1>2

(***************************************************************************)
(* What PcbMatches says of a connection's session.                         *)
(***************************************************************************)
LEMMA AttachedSession ==
    ASSUME TcpInv, NEW c \in Conns, pcb[c] \in Attached
    PROVE  /\ Role(c) \in Roles
           /\ session[Role(c)] \in SessionType /\ traffic[Role(c)] \in TrafficType
           /\ session[Role(c)].live /\ session[Role(c)].conn = c
           /\ session[Role(c)].listed
           /\ Counted(c) => session[Role(c)].pollCount <= traffic[Role(c)].idle
<1>1. Role(c) \in Roles
  BY DEF Role, Roles
<1>2. session[Role(c)] \in SessionType /\ traffic[Role(c)] \in TrafficType
  BY <1>1 DEF TcpInv, TcpTypeOK, SessionType, TrafficType
<1>3. session[Role(c)].live /\ session[Role(c)].conn = c /\ session[Role(c)].listed
  BY <1>1 DEF TcpInv, PcbMatches, ListMatches
<1>4. QED
  BY <1>1, <1>2, <1>3 DEF TcpInv, PollsFollow

(***************************************************************************)
(* iperf_tcp_client_connected and iperf_tcp_client_sent.                   *)
(***************************************************************************)
LEMMA ConnectedOrSentStep ==
    ASSUME TcpInv, NEW c \in Conns, ClientConnected(c) \/ ClientSent(c)
    PROVE  TcpInv'
<1> DEFINE s == [session["client"] EXCEPT !.pollCount = 0]
<1>1. pcb[c] \in Attached \ {"server"} /\ pcb[c] \in Attached /\ Role(c) = "client"
  BY DEF ClientConnected, ClientSent, Attached, Role
<1>2. /\ session["client"] \in SessionType /\ session["client"].live
      /\ session["client"].conn = c /\ session["client"].listed
      /\ traffic["client"].bytes \in Nat
  BY <1>1, AttachedSession DEF TrafficType
<1>3. /\ s \in SessionType /\ s.live /\ s.conn = c /\ s.listed /\ s.pollCount <= 0
      /\ s.serverPcb = session["client"].serverPcb /\ s.bytes \in Nat
  BY <1>2 DEF SessionType
<1>4. \E state \in Attached \ {"server"}, acked \in Nat : SendMore(s, c, state, acked, 0)
  <2>1. CASE ClientConnected(c)
    BY <1>2, <2>1 DEF ClientConnected, Attached
  <2>2. CASE ClientSent(c)
    BY <1>1, <1>3, <2>2 DEF ClientSent
  <2>3. QED
    BY <2>1, <2>2
<1>5. UNCHANGED <<listener, corrupt>>
  BY DEF ClientConnected, ClientSent
<1> HIDE DEF s
<1>6. QED
  BY <1>1, <1>3, <1>4, <1>5, SendMoreStep

(***************************************************************************)
(* iperf_tcp_recv with data.                                               *)
(***************************************************************************)
LEMMA RecvStep ==
    ASSUME TcpInv, NEW c \in Conns, NEW len \in 1 .. MaxLen, TcpRecv(c, len)
    PROVE  TcpInv'
<1> USE IperfTcpAssumption
<1> DEFINE s == [session["server"] EXCEPT !.pollCount = 0]
           h == traffic["server"]
<1>1. pcb[c] = "server" /\ pcb[c] \in Attached /\ Role(c) = "server"
  BY DEF TcpRecv, Attached, Role
<1>2. /\ session["server"] \in SessionType /\ session["server"].live
      /\ session["server"].conn = c /\ session["server"].listed
      /\ h \in TrafficType
  BY <1>1, AttachedSession
<1>3. /\ s \in SessionType /\ s.live /\ s.conn = c /\ s.listed /\ s.pollCount = 0
      /\ s.serverPcb = session["server"].serverPcb /\ s.bytes = session["server"].bytes
      /\ s.haveSettings = session["server"].haveSettings
  BY <1>2 DEF SessionType
<1>4. /\ h.bytes \in Nat /\ h.first \in Nat /\ s.bytes \in Nat
      /\ ~s.haveSettings => h.bytes = 0 /\ s.bytes = 0
      /\ s.haveSettings => s.bytes = h.bytes - h.first + HEADER /\ h.first \in HEADER .. h.bytes
  BY <1>2, <1>3 DEF TcpInv, BytesFollow, SessionType, TrafficType
<1>5. CASE Close(s, c, "done")
  BY <1>1, <1>3, <1>5, CloseStep DEF TcpRecv
<1>6. CASE ~Close(s, c, "done")
  <2> DEFINE s2 == [s EXCEPT !.bytes = CountSegment(s, len), !.haveSettings = TRUE]
             h2 == [bytes |-> h.bytes + len, idle |-> 0,
                    first |-> IF h.bytes = 0 THEN len ELSE h.first]
  <2>1. /\ session' = [session EXCEPT !["server"] = s2]
        /\ traffic' = [traffic EXCEPT !["server"] = h2]
        /\ UNCHANGED <<pcb, reported, listener, corrupt>>
    BY <1>6 DEF TcpRecv
  <2>0. ~s.haveSettings => len >= HEADER
    BY <1>6 DEF TcpRecv, HeaderDue
  <2>2. CountSegment(s, len) = IF s.haveSettings THEN s.bytes + len ELSE HEADER
    <3> HIDE DEF s, h
    <3>1. CASE s.haveSettings
      <4>1. ~(s.bytes + HEADER <= HEADER)
        BY <1>4, <3>1
      <4>2. QED
        BY <3>1, <4>1 DEF CountSegment
    <3>2. CASE ~s.haveSettings
      BY <1>4, <3>2 DEF CountSegment, HeaderDue
    <3>3. QED
      BY <3>1, <3>2
  <2>3. /\ s2 \in SessionType /\ s2.live /\ s2.conn = c /\ s2.listed /\ s2.pollCount = 0
        /\ s2.serverPcb = session["server"].serverPcb /\ s2.haveSettings
        /\ s2.bytes = IF s.haveSettings THEN s.bytes + len ELSE HEADER
    <3> HIDE DEF s, h
    <3>1. CountSegment(s, len) \in Nat
      BY <1>4, <2>2
    <3>2. QED
      BY <1>3, <2>2, <3>1 DEF SessionType
  <2>4. /\ h2 \in TrafficType /\ h2.idle = 0 /\ h2.bytes = h.bytes + len
        /\ h2.first = IF h.bytes = 0 THEN len ELSE h.first
    BY <1>4 DEF TrafficType
  <2> HIDE DEF s2, h2, s, h
  <2>5. s2.bytes = h2.bytes - h2.first + HEADER /\ h2.first \in HEADER .. h2.bytes
    BY <1>4, <2>0, <2>3, <2>4
  <2>6. pcb' = [pcb EXCEPT ![c] = "server"]
    BY <1>1, <2>1 DEF TcpInv, TcpTypeOK
  <2>7. Keeps(c, s2, h2, "server")
    <3>1. s2.pollCount <= h2.idle
      BY <2>3, <2>4
    <3>2. /\ s2 \in SessionType /\ s2.live /\ s2.conn = c /\ s2.listed
          /\ s2.serverPcb = session["server"].serverPcb /\ s2.haveSettings
          /\ h2 \in TrafficType
      BY <2>3, <2>4
    <3>3. QED
      BY <1>1, <2>1, <2>5, <2>6, <3>1, <3>2 DEF Keeps
  <2>8. QED
    BY <1>1, <2>7, KeepStep
<1>7. QED
  BY <1>5, <1>6

(***************************************************************************)
(* iperf_tcp_recv at the end of the stream, and iperf_tcp_err.             *)
(***************************************************************************)
LEMMA FinOrErrStep ==
    ASSUME TcpInv, NEW c \in Conns, ServerFin(c) \/ TcpErr(c)
    PROVE  TcpInv'
<1>1. pcb[c] \in Attached /\ UNCHANGED <<listener, corrupt>>
  BY DEF ServerFin, TcpErr, Attached
<1>2. /\ session[Role(c)] \in SessionType /\ session[Role(c)].live
      /\ session[Role(c)].listed
  BY <1>1, AttachedSession
<1>3. CASE ServerFin(c)
  <2>1. Close(session[Role(c)], c, "done")
    BY <1>3 DEF ServerFin, Role
  <2>2. QED
    BY <1>1, <1>2, <2>1, CloseStep
<1>4. CASE TcpErr(c)
  <2> DEFINE s == [session[Role(c)] EXCEPT !.conn = NoConn, !.serverPcb = FALSE]
  <2>1. Close(s, c, "reset")
    BY <1>4 DEF TcpErr
  <2>2. s \in SessionType /\ s.live /\ s.listed
    BY <1>2 DEF SessionType
  <2> HIDE DEF s
  <2>3. QED
    BY <1>1, <2>1, <2>2, CloseStep
<1>5. QED
  BY <1>3, <1>4

(***************************************************************************)
(* iperf_tcp_poll.                                                         *)
(***************************************************************************)
LEMMA PollStep ==
    ASSUME TcpInv, NEW c \in Conns, TcpPoll(c)
    PROVE  TcpInv'
<1> USE IperfTcpAssumption
<1> DEFINE s == [session[Role(c)] EXCEPT !.pollCount = PollCount(@)]
           h == traffic[Role(c)]
<1>1. pcb[c] \in Attached /\ UNCHANGED <<listener, corrupt>>
  BY DEF TcpPoll
<1>2. /\ Role(c) \in Roles
      /\ session[Role(c)] \in SessionType /\ h \in TrafficType
      /\ session[Role(c)].live /\ session[Role(c)].conn = c /\ session[Role(c)].listed
      /\ Counted(c) => session[Role(c)].pollCount <= h.idle
  BY <1>1, AttachedSession
<1>3. /\ session[Role(c)].pollCount \in Nat
      /\ PollCount(session[Role(c)].pollCount) \in 0 .. 255
      /\ PollCount(session[Role(c)].pollCount) <= session[Role(c)].pollCount + 1
  BY <1>2 DEF SessionType, PollCount
<1>4. /\ s \in SessionType /\ s.live /\ s.conn = c /\ s.listed
      /\ s.serverPcb = session[Role(c)].serverPcb
      /\ s.bytes = session[Role(c)].bytes /\ s.haveSettings = session[Role(c)].haveSettings
      /\ s.pollCount \in Nat /\ s.pollCount <= session[Role(c)].pollCount + 1
  BY <1>2, <1>3 DEF SessionType
<1>5. h.idle \in Nat /\ IdlePolls(h) \in Nat
  BY <1>2 DEF TrafficType, IdlePolls
<1>6. Counted(c) /\ ~IdleTooLong(s.pollCount) => s.pollCount <= IdlePolls(h)
  BY <1>2, <1>3, <1>4, <1>5 DEF IdleTooLong, IdlePolls
<1>7. CASE Close(s, c, "idle")
  <2> HIDE DEF s
  <2>1. QED
    BY <1>1, <1>4, <1>7, CloseStep
<1>8. CASE /\ ~IdleTooLong(s.pollCount) /\ Role(c) = "client"
           /\ SendMore(s, c, pcb[c], h.bytes, IdlePolls(h))
  <2>1. pcb[c] \in Attached \ {"server"} /\ Counted(c) /\ h.bytes \in Nat
    BY <1>1, <1>2, <1>8 DEF Role, Counted, TrafficType
  <2> HIDE DEF s, h
  <2>2. QED
    BY <1>1, <1>4, <1>5, <1>6, <1>8, <2>1, SendMoreStep
<1>9. CASE /\ ~IdleTooLong(s.pollCount) /\ Role(c) = "server"
           /\ session' = [session EXCEPT !["server"] = s]
           /\ traffic' = [traffic EXCEPT !["server"].idle = IdlePolls(h)]
           /\ UNCHANGED <<pcb, reported>>
  <2> DEFINE h2 == [h EXCEPT !.idle = IdlePolls(h)]
  <2>1. h2 \in TrafficType /\ h2.idle = IdlePolls(h) /\ h2.bytes = h.bytes /\ h2.first = h.first
    BY <1>2, <1>5 DEF TrafficType
  <2>2. traffic' = [traffic EXCEPT ![Role(c)] = h2]
    BY <1>2, <1>9
  <2>3. pcb' = [pcb EXCEPT ![c] = pcb[c]]
    BY <1>9 DEF TcpInv, TcpTypeOK
  <2>4. pcb[c] = "server" =>
          /\ ~s.haveSettings => h2.bytes = 0 /\ s.bytes = 0
          /\ s.haveSettings =>
                s.bytes = h2.bytes - h2.first + HEADER /\ h2.first \in HEADER .. h2.bytes
    BY <1>2, <1>4, <2>1 DEF TcpInv, BytesFollow, Role
  <2>5. pcb[c] # "server" \/ h2.bytes > 0 => s.pollCount <= h2.idle
    BY <1>1, <1>6, <1>9, <2>1 DEF Counted, Attached, Role
  <2> HIDE DEF s, h, h2
  <2>6. Keeps(c, s, h2, pcb[c])
    BY <1>1, <1>4, <1>9, <2>1, <2>2, <2>3, <2>4, <2>5 DEF Keeps
  <2>7. QED
    BY <1>1, <2>6, KeepStep
<1>10. QED
  BY <1>7, <1>8, <1>9 DEF TcpPoll

(***************************************************************************)
(* lwIP closes a client's connection by itself: the session stays as it is.*)
(***************************************************************************)
LEMMA PeerClosesStep ==
    ASSUME TcpInv, NEW c \in Conns, ClientFin(c) \/ FinAcked(c)
    PROVE  TcpInv'
<1>1. /\ pcb \in [Conns -> Attached \cup {"unused", "refused", "done", "idle", "reset", "lost"}]
      /\ UNCHANGED <<session, listener, corrupt, reported, traffic>>
  BY DEF ClientFin, FinAcked, TcpInv, TcpTypeOK
<1>2. PICK place \in {"closing", "lost"} :
        pcb[c] \in Attached \ {"server"} /\ pcb' = [pcb EXCEPT ![c] = place]
  BY DEF ClientFin, FinAcked, Attached
<1>3. /\ pcb'[c] = place /\ \A d \in Conns : d # c => pcb'[d] = pcb[d]
      /\ \A d \in Conns : Role(d)' = Role(d)
  BY <1>1, <1>2 DEF Role
<1>4. TcpTypeOK'
  BY <1>1, <1>2 DEF TcpInv, TcpTypeOK, Attached
<1>5. PcbMatches'
  BY <1>1, <1>2, <1>3 DEF TcpInv, PcbMatches
<1>6. ReportedOncePerConnection'
  BY <1>1, <1>2, <1>3 DEF TcpInv, ReportedOncePerConnection, Attached
<1>7. ServerKeepsListening' /\ ListMatches' /\ FreedHasNone' /\ BytesFollow'
  BY <1>1, <1>2, <1>3 DEF TcpInv, ServerKeepsListening, ListMatches, FreedHasNone,
                          BytesFollow, Attached
<1>8. PollsFollow'
  <2>1. \A d \in Conns : Counted(d)' => Counted(d)
    BY <1>1, <1>2, <1>3 DEF Counted
  <2>2. QED
    BY <1>1, <1>3, <2>1 DEF TcpInv, PollsFollow
<1>9. QED
  BY <1>4, <1>5, <1>6, <1>7, <1>8 DEF TcpInv

(***************************************************************************)
(* A session that calloc has just cleared.                                 *)
(***************************************************************************)
LEMMA FreedSession ==
    Freed \in SessionType /\ Freed.conn = NoConn /\ Freed.pollCount = 0
  BY DEF Freed, SessionType

(***************************************************************************)
(* mmiperf_start_tcp_server: no connection belongs to a server yet.        *)
(***************************************************************************)
LEMMA StartServerStep ==
    ASSUME TcpInv, StartTcpServer
    PROVE  TcpInv'
<1> DEFINE n == [Freed EXCEPT !.live = TRUE, !.serverPcb = TRUE, !.listed = TRUE]
<1>1. /\ session \in [Roles -> SessionType] /\ "server" \in Roles
      /\ session' = [session EXCEPT !["server"] = n]
      /\ ~session["server"].live
      /\ UNCHANGED <<pcb, corrupt, reported, traffic>> /\ listener' = TRUE
  BY DEF StartTcpServer, TcpInv, TcpTypeOK, SessionType, Roles
<1>2. n \in SessionType /\ n.live /\ n.serverPcb /\ n.conn = NoConn /\ n.listed
  BY FreedSession DEF SessionType
<1> HIDE DEF n
<1>3. session'["server"] = n /\ \A r \in Roles : r # "server" => session'[r] = session[r]
  BY <1>1
<1>4. TcpTypeOK'
  <2>1. session' \in [Roles -> SessionType]
    BY <1>1, <1>2
  <2>2. QED
    BY <1>1, <2>1 DEF TcpInv, TcpTypeOK, SessionType
<1>5. \A c \in Conns : pcb[c] \in Attached =>
         Role(c)' = Role(c) /\ Role(c) \in Roles /\ Role(c) # "server"
  BY <1>1 DEF TcpInv, PcbMatches, Role, Roles
<1>6. PcbMatches' /\ ReportedOncePerConnection'
  BY <1>1, <1>3, <1>5 DEF TcpInv, PcbMatches, ReportedOncePerConnection
<1>7. ServerKeepsListening'
  BY <1>2, <1>3 DEF ServerKeepsListening
<1>8. ListMatches' /\ FreedHasNone'
  <2>1. n.listed = n.live
    BY <1>2 DEF SessionType
  <2>2. QED
    BY <1>2, <1>3, <2>1 DEF TcpInv, ListMatches, FreedHasNone
<1>9. BytesFollow'
  <2>1. traffic["server"] = NoTraffic
    BY <1>1 DEF TcpInv, BytesFollow, FreedHasNone
  <2>2. QED
    BY <1>1, <1>2, <1>3, <2>1 DEF BytesFollow
<1>10. PollsFollow'
  <2> SUFFICES ASSUME NEW d \in Conns, Counted(d)'
               PROVE  (session[Role(d)].pollCount <= traffic[Role(d)].idle)'
    BY DEF PollsFollow
  <2>1. Counted(d) /\ pcb[d] \in Attached
    BY <1>1 DEF Counted, Attached
  <2>2. QED
    BY <1>1, <1>3, <1>5, <2>1 DEF TcpInv, PollsFollow
<1>11. QED
  BY <1>4, <1>6, <1>7, <1>8, <1>9, <1>10 DEF TcpInv

(***************************************************************************)
(* mmiperf_start_tcp_client, also when it fails and reports at once.       *)
(***************************************************************************)
LEMMA StartClientStep ==
    ASSUME TcpInv, NEW c \in Conns, StartTcpClient(c)
    PROVE  TcpInv'
<1> USE IperfTcpAssumption
<1> DEFINE n == session'["client"]
<1>0. /\ session \in [Roles -> SessionType] /\ traffic \in [Roles -> TrafficType]
      /\ pcb \in [Conns -> Attached \cup {"unused", "refused", "done", "idle", "reset", "lost"}]
      /\ reported \in [Conns -> Nat] /\ "client" \in Roles /\ "server" \in Roles
      /\ ~session["client"].live /\ pcb[c] = "unused" /\ Role(c) = "client"
      /\ UNCHANGED <<listener, corrupt>>
      /\ Freed \in SessionType /\ NoTraffic \in TrafficType
  BY DEF StartTcpClient, TcpInv, TcpTypeOK, SessionType, TrafficType, Roles, Role, Freed,
         NoTraffic
<1>1. \/ /\ n \in SessionType /\ n.live = TRUE /\ n.listed = TRUE /\ n.conn = c /\ n.pollCount = 0
         /\ session' = [session EXCEPT !["client"] = n]
         /\ pcb' = [pcb EXCEPT ![c] = "connecting"]
         /\ UNCHANGED <<reported, traffic>>
      \/ /\ n \in SessionType /\ n.live = FALSE /\ n.listed = FALSE /\ n.conn = NoConn
         /\ session' = [session EXCEPT !["client"] = n]
         /\ pcb' = [pcb EXCEPT ![c] = "done"]
         /\ reported' = [reported EXCEPT ![c] = @ + 1]
         /\ traffic' = [traffic EXCEPT !["client"] = NoTraffic]
  <2>1. CASE Close(Freed, c, "done")
    <3>1. CloseSession(Freed) = Freed /\ Freed.live = FALSE /\ Freed.listed = FALSE
          /\ Freed.conn = NoConn
      BY DEF CloseSession, Freed
    <3>2. session' = [session EXCEPT !["client"] = Freed] /\ n = Freed
      BY <1>0, <2>1, <3>1 DEF Close
    <3>3. QED
      BY <1>0, <2>1, <3>1, <3>2 DEF Close, Detached
  <2>2. CASE ~Close(Freed, c, "done")
    <3> DEFINE m == [Freed EXCEPT !.live = TRUE, !.conn = c, !.haveSettings = TRUE,
                                  !.listed = TRUE]
    <3>1. session' = [session EXCEPT !["client"] = m]
          /\ pcb' = [pcb EXCEPT ![c] = "connecting"] /\ UNCHANGED <<reported, traffic>>
      BY <2>2 DEF StartTcpClient
    <3>2. m \in SessionType /\ m.live = TRUE /\ m.listed = TRUE /\ m.conn = c /\ m.pollCount = 0
      BY FreedSession DEF SessionType
    <3> HIDE DEF m
    <3>3. n = m
      BY <1>0, <3>1
    <3>4. QED
      BY <3>1, <3>2, <3>3
  <2>3. QED
    BY <2>1, <2>2
<1>2. /\ session'["server"] = session["server"] /\ traffic'["server"] = traffic["server"]
      /\ \A d \in Conns : d # c => pcb'[d] = pcb[d] /\ reported'[d] = reported[d]
      /\ pcb'[c] \in {"connecting", "done"}
      /\ reported'[c] = IF pcb'[c] = "done" THEN reported[c] + 1 ELSE reported[c]
      /\ pcb'[c] = "connecting" => n.live /\ n.conn = c /\ n.pollCount = 0
      /\ n.listed = n.live
      /\ ~n.live => n.conn = NoConn
  BY <1>0, <1>1 DEF Roles
<1>3. TcpTypeOK'
  <2>1. session' \in [Roles -> SessionType] /\ traffic' \in [Roles -> TrafficType]
    BY <1>0, <1>1
  <2>2. /\ pcb' \in [Conns -> Attached \cup {"unused", "refused", "done", "idle", "reset", "lost"}]
        /\ reported' \in [Conns -> Nat]
    BY <1>0, <1>1 DEF Attached
  <2>3. QED
    BY <1>0, <2>1, <2>2 DEF TcpInv, TcpTypeOK, SessionType, TrafficType
<1> HIDE DEF n
<1>4. ASSUME NEW d \in Conns, d # c, pcb'[d] \in Attached
      PROVE  /\ pcb[d] = "server" /\ pcb'[d] = "server"
             /\ Role(d) = "server" /\ Role(d)' = "server"
  BY <1>0, <1>2, <1>4 DEF TcpInv, PcbMatches, Role, Attached
<1>5. pcb'[c] \in Attached => pcb'[c] = "connecting" /\ Role(c)' = "client"
  BY <1>2 DEF Attached, Role
<1>6. PcbMatches'
  <2> SUFFICES ASSUME NEW d \in Conns, pcb'[d] \in Attached
               PROVE  session'[Role(d)'].live /\ session'[Role(d)'].conn = d
    BY DEF PcbMatches
  <2>1. CASE d = c
    BY <1>2, <1>5, <2>1 DEF n
  <2>2. CASE d # c
    <3>1. pcb[d] \in Attached /\ Role(d) = "server" /\ Role(d)' = "server"
      BY <1>4, <2>2 DEF Attached
    <3>2. session["server"].live /\ session["server"].conn = d
      BY <3>1 DEF TcpInv, PcbMatches
    <3>3. QED
      BY <1>2, <3>1, <3>2
  <2>3. QED
    BY <2>1, <2>2
<1>7. ReportedOncePerConnection'
  BY <1>0, <1>2 DEF TcpInv, ReportedOncePerConnection, Attached
<1>8. ServerKeepsListening'
  BY <1>0, <1>2 DEF TcpInv, ServerKeepsListening
<1>9. ListMatches' /\ FreedHasNone'
  BY <1>2 DEF TcpInv, ListMatches, FreedHasNone, Roles, n
<1>10. BytesFollow'
  BY <1>2 DEF TcpInv, BytesFollow
<1>11. PollsFollow'
  <2> SUFFICES ASSUME NEW d \in Conns, Counted(d)'
               PROVE  session'[Role(d)'].pollCount <= traffic'[Role(d)'].idle
    BY DEF PollsFollow
  <2>0. pcb'[d] \in Attached
    BY DEF Counted, Attached
  <2>1. CASE d = c
    <3>1. session'["client"].pollCount = 0 /\ Role(d)' = "client"
      BY <1>2, <1>5, <2>0, <2>1 DEF n
    <3>2. traffic'["client"].idle \in Nat
      BY <1>3 DEF TcpTypeOK, Roles
    <3>3. QED
      BY <3>1, <3>2
  <2>2. CASE d # c
    <3>1. pcb[d] = "server" /\ Role(d) = "server" /\ Role(d)' = "server"
          /\ traffic'["server"].bytes > 0
      BY <1>4, <2>0, <2>2 DEF Counted
    <3>2. Counted(d)
      BY <1>2, <3>1 DEF Counted
    <3>3. QED
      BY <1>2, <3>1, <3>2 DEF TcpInv, PollsFollow
  <2>3. QED
    BY <2>1, <2>2
<1>12. QED
  BY <1>3, <1>6, <1>7, <1>8, <1>9, <1>10, <1>11 DEF TcpInv

(***************************************************************************)
(* iperf_tcp_accept: a second connection leaves the first one alone.       *)
(***************************************************************************)
LEMMA AcceptStep ==
    ASSUME TcpInv, NEW c \in Conns, Accept(c)
    PROVE  TcpInv'
<1> USE IperfTcpAssumption
<1> DEFINE s == session["server"]
<1>0. /\ session \in [Roles -> SessionType] /\ traffic \in [Roles -> TrafficType]
      /\ pcb \in [Conns -> Attached \cup {"unused", "refused", "done", "idle", "reset", "lost"}]
      /\ reported \in [Conns -> Nat] /\ "client" \in Roles /\ "server" \in Roles
      /\ pcb[c] = "unused" /\ s.live /\ s \in SessionType
      /\ UNCHANGED <<listener, corrupt, reported, traffic>>
  BY DEF Accept, TcpInv, TcpTypeOK, SessionType, TrafficType, Roles
<1>1. \A d \in Conns : d # c => pcb'[d] = pcb[d]
  BY <1>0 DEF Accept
<1>2. CASE Busy(s) /\ pcb' = [pcb EXCEPT ![c] = "refused"] /\ session' = session
  <2>1. TcpTypeOK'
    BY <1>0, <1>2 DEF TcpInv, TcpTypeOK
  <2>2. pcb'[c] = "refused"
    BY <1>0, <1>2
  <2>3. \A d \in Conns : pcb'[d] \in Attached => pcb'[d] = pcb[d] /\ Role(d)' = Role(d)
    BY <1>1, <2>2 DEF Attached, Role
  <2>4. PcbMatches'
    BY <1>2, <2>3 DEF TcpInv, PcbMatches
  <2>5. ReportedOncePerConnection' /\ ServerKeepsListening'
    BY <1>0, <1>1, <1>2, <2>2 DEF TcpInv, ReportedOncePerConnection, ServerKeepsListening
  <2>6. ListMatches' /\ FreedHasNone' /\ BytesFollow'
    BY <1>0, <1>2 DEF TcpInv, ListMatches, FreedHasNone, BytesFollow
  <2>7. PollsFollow'
    <3> SUFFICES ASSUME NEW d \in Conns, Counted(d)'
                 PROVE  session'[Role(d)'].pollCount <= traffic'[Role(d)'].idle
      BY DEF PollsFollow
    <3>1. pcb'[d] = pcb[d] /\ Role(d)' = Role(d)
      BY <2>3 DEF Counted, Attached
    <3>2. Counted(d)
      BY <1>0, <3>1 DEF Counted
    <3>3. QED
      BY <1>0, <1>2, <3>1, <3>2 DEF TcpInv, PollsFollow
  <2>8. QED
    BY <2>1, <2>4, <2>5, <2>6, <2>7 DEF TcpInv
<1>3. CASE ~Busy(s)
  <2> DEFINE n == [s EXCEPT !.conn = c, !.bytes = 0, !.haveSettings = FALSE]
  <2>1. /\ session' = [session EXCEPT !["server"] = n]
        /\ pcb' = [pcb EXCEPT ![c] = "server"]
        /\ s.conn = NoConn
    BY <1>0, <1>3 DEF Accept, Busy
  <2>2. /\ n \in SessionType /\ n.live = s.live /\ n.listed = s.listed
        /\ n.serverPcb = s.serverPcb /\ n.conn = c /\ n.bytes = 0 /\ n.haveSettings = FALSE
    BY <1>0 DEF SessionType
  <2> HIDE DEF n
  <2>3. /\ session'["server"] = n /\ session'["client"] = session["client"]
        /\ pcb'[c] = "server"
    BY <1>0, <2>1
  <2>4. TcpTypeOK'
    <3>1. session' \in [Roles -> SessionType]
      BY <1>0, <2>1, <2>2
    <3>2. pcb' \in [Conns -> Attached \cup {"unused", "refused", "done", "idle", "reset", "lost"}]
      BY <1>0, <2>1 DEF Attached
    <3>3. QED
      BY <1>0, <3>1, <3>2 DEF TcpInv, TcpTypeOK, SessionType
  <2>5. ASSUME NEW d \in Conns, d # c, pcb'[d] \in Attached
        PROVE  pcb[d] \in Attached /\ pcb'[d] = pcb[d] /\ Role(d) = "client" /\ Role(d)' = "client"
    BY <1>1, <2>1, <2>5 DEF TcpInv, PcbMatches, Role
  <2>6. traffic["server"] = NoTraffic
    BY <2>1 DEF TcpInv, BytesFollow
  <2>7. PcbMatches'
    <3> SUFFICES ASSUME NEW d \in Conns, pcb'[d] \in Attached
                 PROVE  session'[Role(d)'].live /\ session'[Role(d)'].conn = d
      BY DEF PcbMatches
    <3>1. CASE d = c
      BY <1>0, <2>2, <2>3, <3>1 DEF Role
    <3>2. CASE d # c
      <4>1. pcb[d] \in Attached /\ Role(d) = "client" /\ Role(d)' = "client"
        BY <2>5, <3>2
      <4>2. session["client"].live /\ session["client"].conn = d
        BY <4>1 DEF TcpInv, PcbMatches
      <4>3. QED
        BY <2>3, <4>1, <4>2
    <3>3. QED
      BY <3>1, <3>2
  <2>8. ReportedOncePerConnection'
    BY <1>0, <1>1, <2>3 DEF TcpInv, ReportedOncePerConnection
  <2>9. ServerKeepsListening'
    BY <1>0, <1>1, <2>2, <2>3 DEF TcpInv, ServerKeepsListening
  <2>10. ListMatches' /\ FreedHasNone'
    BY <1>0, <2>2, <2>3 DEF TcpInv, ListMatches, FreedHasNone, Roles
  <2>11. BytesFollow'
    BY <1>0, <2>2, <2>3, <2>6 DEF BytesFollow, NoTraffic
  <2>12. PollsFollow'
    <3> SUFFICES ASSUME NEW d \in Conns, Counted(d)'
                 PROVE  session'[Role(d)'].pollCount <= traffic'[Role(d)'].idle
      BY DEF PollsFollow
    <3>1. d # c
      <4>1. traffic'["server"].bytes = 0
        BY <1>0, <2>6 DEF NoTraffic
      <4>2. QED
        BY <2>3, <4>1 DEF Counted
    <3>2. pcb'[d] \in Attached
      BY DEF Counted, Attached
    <3>3. pcb'[d] = pcb[d] /\ Role(d) = "client" /\ Role(d)' = "client"
      BY <2>5, <3>1, <3>2
    <3>4. Counted(d)
      BY <1>0, <3>3 DEF Counted
    <3>5. QED
      BY <1>0, <2>3, <3>3, <3>4 DEF TcpInv, PollsFollow
  <2>13. QED
    BY <2>4, <2>7, <2>8, <2>9, <2>10, <2>11, <2>12 DEF TcpInv
<1>4. QED
  BY <1>2, <1>3 DEF Accept

(***************************************************************************)
(* TcpInv is inductive: one step per callback.                             *)
(***************************************************************************)
THEOREM TcpInvariant == TcpSpec => []TcpInv
<1>1. TcpInit => TcpInv
  <2> SUFFICES ASSUME TcpInit PROVE TcpInv
    OBVIOUS
  <2>1. /\ \A r \in Roles : session[r] = Freed /\ traffic[r] = NoTraffic
        /\ \A c \in Conns : pcb[c] = "unused" /\ reported[c] = 0
        /\ "server" \in Roles /\ ~listener
    BY DEF TcpInit, Roles
  <2>2. TcpTypeOK
    <3>1. session \in [Roles -> SessionType]
      BY FreedSession DEF TcpInit
    <3>2. traffic \in [Roles -> TrafficType]
      BY DEF TcpInit, NoTraffic, TrafficType
    <3>3. QED
      BY <3>1, <3>2 DEF TcpInit, TcpTypeOK, SessionType, TrafficType
  <2>3. Freed.live = FALSE /\ Freed.listed = FALSE
    BY DEF Freed
  <2>4. PcbMatches /\ ReportedOncePerConnection /\ ServerKeepsListening /\ PollsFollow
    BY <2>1 DEF PcbMatches, ReportedOncePerConnection, ServerKeepsListening,
                PollsFollow, Counted, Attached
  <2>5. ListMatches /\ FreedHasNone /\ BytesFollow
    BY <2>1, <2>3, FreedSession DEF ListMatches, FreedHasNone, BytesFollow
  <2>6. QED
    BY <2>2, <2>4, <2>5 DEF TcpInv
<1>2. TcpInv /\ [TcpNext]_tcpVars => TcpInv'
  <2> SUFFICES ASSUME TcpInv, [TcpNext]_tcpVars PROVE TcpInv'
    OBVIOUS
  <2>1. CASE StartTcpServer
    BY <2>1, StartServerStep
  <2>2. ASSUME NEW c \in Conns, StartTcpClient(c) PROVE TcpInv'
    BY <2>2, StartClientStep
  <2>3. ASSUME NEW c \in Conns, ClientConnected(c) \/ ClientSent(c) PROVE TcpInv'
    BY <2>3, ConnectedOrSentStep
  <2>4. ASSUME NEW c \in Conns, Accept(c) PROVE TcpInv'
    BY <2>4, AcceptStep
  <2>5. ASSUME NEW c \in Conns, ServerFin(c) \/ TcpErr(c) PROVE TcpInv'
    BY <2>5, FinOrErrStep
  <2>6. ASSUME NEW c \in Conns, NEW len \in 1 .. MaxLen, TcpRecv(c, len) PROVE TcpInv'
    BY <2>6, RecvStep
  <2>7. ASSUME NEW c \in Conns, TcpPoll(c) PROVE TcpInv'
    BY <2>7, PollStep
  <2>8. ASSUME UNCHANGED <<session, listener, pcb, reported, traffic>>, corrupt' \in BOOLEAN
        PROVE  TcpInv'
    BY <2>8 DEF TcpInv, TcpTypeOK, PcbMatches, ReportedOncePerConnection,
       ServerKeepsListening, ListMatches, FreedHasNone, BytesFollow, PollsFollow, Counted, Role
  <2>9. CASE UNCHANGED tcpVars \/ \E c \in Conns : AcceptDangling(c)
    <3>1. corrupt' \in BOOLEAN
      BY <2>9 DEF tcpVars, AcceptDangling, TcpInv, TcpTypeOK
    <3>2. QED
      BY <2>8, <2>9, <3>1 DEF tcpVars, AcceptDangling
  <2>10. ASSUME NEW c \in Conns, ClientFin(c) \/ FinAcked(c) PROVE TcpInv'
    BY <2>10, PeerClosesStep
  <2>11. QED
    BY <2>1, <2>2, <2>3, <2>4, <2>5, <2>6, <2>7, <2>9, <2>10 DEF TcpNext
<1>3. QED
  BY <1>1, <1>2, PTL DEF TcpSpec

(***************************************************************************)
(* The types of the sessions, the poll counters and the reports are kept.  *)
(***************************************************************************)
THEOREM TcpTypeCorrect == TcpSpec => []TcpTypeOK
<1>1. TcpInv => TcpTypeOK
  BY DEF TcpInv
<1>2. QED
  BY <1>1, TcpInvariant, PTL

(***************************************************************************)
(* The assertions "pcb mismatch" and "invalid conn" never fail.            *)
(***************************************************************************)
THEOREM TcpCallbacksMatch == TcpSpec => []PcbMatches
<1>1. TcpInv => PcbMatches
  BY DEF TcpInv
<1>2. QED
  BY <1>1, TcpInvariant, PTL

(***************************************************************************)
(* No connection is reported twice or while it is there, and every one     *)
(* that iperf_tcp_close ends is reported.  A client's connection that lwIP *)
(* has ended after its peer's FIN is not among them.                       *)
(***************************************************************************)
THEOREM TcpReportedOnce == TcpSpec => []ReportedOncePerConnection
<1>1. TcpInv => ReportedOncePerConnection
  BY DEF TcpInv
<1>2. QED
  BY <1>1, TcpInvariant, PTL

(***************************************************************************)
(* Until a connection is reset, an open listener has its session.          *)
(***************************************************************************)
THEOREM TcpKeepsListening == TcpSpec => []ServerKeepsListening
<1>1. TcpInv => ServerKeepsListening
  BY DEF TcpInv
<1>2. QED
  BY <1>1, TcpInvariant, PTL

(***************************************************************************)
(* The list of sessions holds exactly those that exist.                    *)
(***************************************************************************)
THEOREM TcpListMatches == TcpSpec => []ListMatches
<1>1. TcpInv => ListMatches
  BY DEF TcpInv
<1>2. QED
  BY <1>1, TcpInvariant, PTL

(***************************************************************************)
(* However the data is cut into segments, the server never counts more     *)
(* bytes than it received, and misses at most what follows the settings in *)
(* the first segment.                                                      *)
(***************************************************************************)
THEOREM TcpServerBytes == TcpSpec => []ServerBytes
<1>1. TcpInv => ServerBytes
  <2> DEFINE s == session["server"]
             h == traffic["server"]
  <2> SUFFICES ASSUME TcpInv, s.conn # NoConn, s.haveSettings
               PROVE  s.bytes \in (h.bytes - h.first + HEADER) .. h.bytes
    BY DEF ServerBytes
  <2>1. h.bytes \in Nat /\ h.first \in Nat
    BY DEF TcpInv, TcpTypeOK, Roles
  <2>2. s.bytes = h.bytes - h.first + HEADER /\ h.first \in HEADER .. h.bytes
    BY DEF TcpInv, BytesFollow
  <2> HIDE DEF s, h
  <2>3. QED
    BY <2>1, <2>2, IperfTcpAssumption
<1>2. QED
  BY <1>1, TcpInvariant, PTL

(***************************************************************************)
(* A connection on which something has happened is given up only after     *)
(* IPERF_TCP_MAX_IDLE_S polls without anything, although poll_count is a   *)
(* byte.                                                                   *)
(***************************************************************************)
THEOREM TcpIdleLimit == TcpSpec => IdleLimit
<1> DEFINE Patient ==
             \A c \in Conns : pcb[c] # "idle" /\ pcb'[c] = "idle" =>
                \/ traffic[Role(c)].idle + 1 >= MAX_IDLE
                \/ pcb[c] = "server" /\ traffic["server"].bytes = 0
<1>1. TcpInv /\ [TcpNext]_tcpVars => Patient
  <2> SUFFICES ASSUME TcpInv, [TcpNext]_tcpVars, NEW c \in Conns,
                      pcb[c] # "idle", pcb'[c] = "idle"
               PROVE  \/ traffic[Role(c)].idle + 1 >= MAX_IDLE
                      \/ pcb[c] = "server" /\ traffic["server"].bytes = 0
    OBVIOUS
  <2>0. pcb \in [Conns -> Attached \cup {"unused", "refused", "done", "idle", "reset", "lost"}]
    BY DEF TcpInv, TcpTypeOK
  <2>1. /\ pcb[c] \in Attached
        /\ IdleTooLong(PollCount(session[Role(c)].pollCount))
    <3> DEFINE Elsewhere(d) ==
                 \E p \in Attached \cup {"refused", "done", "reset", "lost"} :
                    pcb' = [pcb EXCEPT ![d] = p]
    <3>1. ASSUME NEW d \in Conns,
                 \/ StartTcpClient(d) \/ ClientConnected(d) \/ ClientSent(d)
                 \/ Accept(d) \/ ServerFin(d) \/ TcpErr(d) \/ ClientFin(d) \/ FinAcked(d)
                 \/ \E len \in 1 .. MaxLen : TcpRecv(d, len)
          PROVE  pcb' = pcb \/ Elsewhere(d)
      BY <3>1 DEF StartTcpClient, ClientConnected, ClientSent, Accept, ServerFin, TcpErr,
         ClientFin, FinAcked, TcpRecv, SendMore, Close, Detached, Attached
    <3>2. ASSUME NEW d \in Conns, TcpPoll(d)
          PROVE  /\ pcb[d] \in Attached
                 /\ \/ pcb' = pcb \/ Elsewhere(d)
                    \/ /\ IdleTooLong([session[Role(d)] EXCEPT !.pollCount = PollCount(@)].pollCount)
                       /\ pcb' = [pcb EXCEPT ![d] = "idle"]
      BY <3>2 DEF TcpPoll, SendMore, Close, Detached
    <3>3. \A d \in Conns : ~Elsewhere(d)
      BY <2>0 DEF Attached
    <3>4. pcb' # pcb
      OBVIOUS
    <3>5. PICK d \in Conns : TcpPoll(d)
      BY <3>1, <3>3, <3>4 DEF TcpNext, StartTcpServer, AcceptDangling, tcpVars
    <3>6. /\ IdleTooLong([session[Role(d)] EXCEPT !.pollCount = PollCount(@)].pollCount)
          /\ pcb' = [pcb EXCEPT ![d] = "idle"] /\ pcb[d] \in Attached
      BY <3>2, <3>3, <3>4, <3>5
    <3>7. d = c
      BY <2>0, <3>6
    <3>8. session[Role(c)] \in SessionType
      BY <3>6, <3>7, AttachedSession
    <3>9. QED
      BY <3>6, <3>7, <3>8 DEF SessionType
  <2>2. /\ session[Role(c)] \in SessionType /\ traffic[Role(c)] \in TrafficType
        /\ Counted(c) => session[Role(c)].pollCount <= traffic[Role(c)].idle
    BY <2>1, AttachedSession
  <2>3. session[Role(c)].pollCount + 1 >= MAX_IDLE
    BY <2>1, <2>2, IperfTcpAssumption DEF IdleTooLong, PollCount, SessionType
  <2>4. CASE Counted(c)
    BY <2>2, <2>3, <2>4, IperfTcpAssumption DEF SessionType, TrafficType
  <2>5. CASE ~Counted(c)
    <3>1. pcb[c] = "server" /\ ~(traffic["server"].bytes > 0)
      BY <2>1, <2>5 DEF Counted, Attached
    <3>2. traffic["server"].bytes \in Nat
      BY <2>2, <3>1 DEF Role, TrafficType
    <3>3. QED
      BY <3>1, <3>2
  <2>6. QED
    BY <2>4, <2>5
<1>2. QED
  BY <1>1, TcpInvariant, PTL DEF TcpSpec, IdleLimit

-----------------------------------------------------------------------------
(* The service *)

(***************************************************************************)
(* Whatever IPERF_TYPE app_main has read, each half of the engine behaves  *)
(* as it does alone.                                                       *)
(***************************************************************************)
LEMMA IperfHalves == IperfFairSpec => UdpSpec /\ TcpSpec
<1>1. IperfInit => UdpInit /\ TcpInit
  BY DEF IperfInit
<1>2. [IperfNext]_iperfVars => [UdpNext]_udpVars /\ [TcpNext]_tcpVars
  BY DEF IperfNext, iperfVars, StartUdp, StartTcp
<1>3. QED
  BY <1>1, <1>2, PTL DEF IperfFairSpec, UdpSpec, TcpSpec

\* What the reports of the service say of its tests, over UDP and over TCP: each
\* part with the exceptions that its definition names (disturbed UDP tests, a
\* client's connection closed by its peer, a listener after a reset, the payload
\* beside the settings).
ReportsRight ==
    /\ SequenceAccounting /\ ReportCoversTest /\ ReportTruthful
    /\ ReportedOnce /\ ReportNotCrossed
    /\ PcbMatches /\ ReportedOncePerConnection /\ ServerKeepsListening /\ ServerBytes

(***************************************************************************)
(* The statements about the reports of the iperf service, with their       *)
(* exceptions, hold of the composed service for every mode, number of tests*)
(* and connections, and behaviour of the network.                          *)
(***************************************************************************)
THEOREM IperfReportsRight == IperfFairSpec => []ReportsRight /\ IdleLimit
  BY IperfHalves, UdpSequenceAccounting, UdpReportCoversTest, UdpReportTruthful,
     UdpReportedOnce, UdpNotCrossed, TcpCallbacksMatch, TcpReportedOnce,
     TcpKeepsListening, TcpServerBytes, TcpIdleLimit, PTL DEF ReportsRight

=============================================================================
