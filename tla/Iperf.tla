------------------------------- MODULE Iperf --------------------------------
(***************************************************************************)
(* The iperf service of the bridge: app_main starts the UDP or the TCP part*)
(* of the engine, as IPERF_TYPE says.                                      *)
(***************************************************************************)
EXTENDS IperfUdp, IperfTcp

VARIABLE mode   \* iperf_mode

iperfVars == <<udpVars, tcpVars, mode>>

IperfInit == mode \in {"udp", "tcp"} /\ UdpInit /\ TcpInit

StartUdp == mode = "udp" /\ UdpNext /\ UNCHANGED <<tcpVars, mode>>
StartTcp == mode = "tcp" /\ TcpNext /\ UNCHANGED <<udpVars, mode>>

IperfNext == StartUdp \/ StartTcp

IperfFairSpec == IperfInit /\ [][IperfNext]_iperfVars /\ UdpFairness /\ TcpFairness

=============================================================================
