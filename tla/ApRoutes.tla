------------------------------ MODULE ApRoutes ------------------------------
(***************************************************************************)
(* How the 2.4 GHz access point gets its way to the HaLow network          *)
(* (nat_router.c).  When the access point has started, the event task      *)
(* enables NAPT, starts the DNS forwarder and posts two corrections to the *)
(* TCP/IP thread: the default interface, and a missing gateway.  A one-shot*)
(* timer posts both again three seconds later, for an address that was     *)
(* late.  Posting, and the timer, can fail and nobody looks.  An operator  *)
(* named X_... beside X is a mistake in that code which the properties     *)
(* must notice; no specification uses it.                                  *)
(***************************************************************************)
EXTENDS Naturals, Sequences

CONSTANTS
    MaxRouteFaults, \* bound: posts and timer calls that fail
    MaxLeases       \* bound: changes of the HaLow address

ASSUME ApRoutesAssumption == MaxRouteFaults \in Nat /\ MaxLeases \in Nat

VARIABLE
    \* ap            the start of the access point: "off", "event", "started"
    \* napt          NAPT is enabled on its interface
    \* defaultNetif  netif_default of lwIP
    \* addr, gw      address of the HaLow interface (in 10.41.0.0/24, another
    \*               one, or none), and whether it has a gateway
    \* callbacks     posted to the TCP/IP thread
    \* timer         s_route_fix_timer
    \* faults, leases  counted
    \* late          history: the address has changed since the timer fired
    route

\* tcpip_init_done_handler has made the HaLow interface the default one, and
\* app_wlan_start has waited for its first address.
RoutesInit ==
    \E addr \in {"subnet", "other"}, gw \in BOOLEAN :
        route = [ap |-> "off", napt |-> FALSE, defaultNetif |-> "halow", addr |-> addr,
                 gw |-> gw, callbacks |-> <<>>, timer |-> "null", faults |-> 0,
                 leases |-> 0, late |-> FALSE]

\* The outcomes of tcpip_callback(fn): posted, or no memory for the message.
Post(r, fn) ==
    {[r EXCEPT !.callbacks = Append(@, fn)]} \cup
        (IF r.faults < MaxRouteFaults THEN {[r EXCEPT !.faults = @ + 1]} ELSE {})

PostBoth_DefaultOnly(r) == Post(r, "default")

PostBoth(r) == UNION {Post(q, "route") : q \in Post(r, "default")}

\* start_2ghz_ap creates the timer, or fails to, and starts the access point.
Start2GhzAp ==
    /\ route.ap = "off"
    /\ \/ route' = [route EXCEPT !.ap = "event", !.timer = "dormant"]
       \/ /\ route.faults < MaxRouteFaults
          /\ route' = [route EXCEPT !.ap = "event", !.faults = @ + 1]

\* xTimerStart, if there is a timer.
StartFixTimer(r) ==
    IF r.timer = "null" THEN {r}
    ELSE {[r EXCEPT !.timer = "armed"]} \cup
            (IF r.faults < MaxRouteFaults THEN {[r EXCEPT !.faults = @ + 1]} ELSE {})

\* esp_netif (external) starts the interface of the access point, makes it the
\* default one, and then the event reaches wifi_ap_start_handler.  A failure of
\* NAPT is only logged.
ApStart ==
    /\ route.ap = "event"
    /\ \E napt \in BOOLEAN, r \in Post([route EXCEPT !.defaultNetif = "ap"], "default") :
         \E q \in IF r.gw THEN {r} ELSE Post(r, "route") :
           \E p \in StartFixTimer(q) :
              route' = [p EXCEPT !.ap = "started", !.napt = napt]

SetHalowDefault_ApNotSkipped(r) == [r EXCEPT !.defaultNetif = "ap"]

\* set_halow_default_netif_cb: the first interface that is up and does not have
\* the address of the access point, with or without an address of its own.  New
\* interfaces go to the head of netif_list, so that HaLow's is found first.
SetHalowDefault(r) == [r EXCEPT !.defaultNetif = "halow"]

\* ensure_halow_default_route_cb.
EnsureRoute(r) == IF r.addr = "subnet" THEN [r EXCEPT !.gw = TRUE] ELSE r

\* The TCP/IP thread runs what was posted, in order.
RunCallback ==
    /\ route.callbacks # <<>>
    /\ LET r == [route EXCEPT !.callbacks = Tail(@)] IN
       route' = IF Head(route.callbacks) = "default" THEN SetHalowDefault(r)
                                                     ELSE EnsureRoute(r)

\* delayed_route_fix_timer_cb.
FixTimerFires ==
    /\ route.timer = "armed"
    /\ \E r \in PostBoth([route EXCEPT !.timer = "fired"]) : route' = r

\* DHCP (external) changes the address and the gateway, or gives them up.
Leased(r, addr, gw) ==
    [r EXCEPT !.addr = addr, !.gw = gw, !.late = (r.timer = "fired")]

Lease ==
    /\ route.leases < MaxLeases
    /\ \E addr \in {"none", "subnet", "other"}, gw \in BOOLEAN :
          /\ addr = "none" => ~gw
          /\ route' = [Leased(route, addr, gw) EXCEPT !.leases = @ + 1]

RoutesStep == Start2GhzAp \/ ApStart \/ RunCallback \/ FixTimerFires

RoutesNext == RoutesStep \/ Lease

RoutesSpec == RoutesInit /\ [][RoutesNext]_route

\* The main task, the event task, the TCP/IP thread and the timer task run.
RoutesFairSpec ==
    /\ RoutesSpec
    /\ WF_route(Start2GhzAp) /\ WF_route(ApStart)
    /\ WF_route(RunCallback) /\ WF_route(FixTimerFires)

-----------------------------------------------------------------------------
(* Properties *)

Routes == [ap : {"off", "event", "started"}, napt : BOOLEAN, defaultNetif : {"halow", "ap"},
           addr : {"none", "subnet", "other"}, gw : BOOLEAN,
           callbacks : Seq({"default", "route"}),
           timer : {"null", "dormant", "armed", "fired"}, faults : Nat, leases : Nat,
           late : BOOLEAN]

\* A correction is posted to the TCP/IP thread and not yet made.
Pending(r, fn) == \E i \in 1 .. Len(r.callbacks) : r.callbacks[i] = fn

\* At every moment after the start, what is wrong with the path of the clients is
\* about to be corrected, by a callback that is posted or by the timer: the default
\* interface although one post or timer call failed, and if none did the gateway
\* of an address that came before the timer fired.
CorrectionDue ==
    route.ap = "started" =>
        /\ route.faults <= 1 => \/ route.defaultNetif = "halow"
                                \/ Pending(route, "default") \/ route.timer = "armed"
        /\ route.faults = 0 /\ ~route.late /\ route.addr = "subnet" =>
              route.gw \/ Pending(route, "route") \/ route.timer = "armed"

\* Traffic of the clients leaves by HaLow in the end, although one of the posts
\* or timer calls fails; and if none does, an address in the HaLow network that
\* was there before the timer fired has a gateway, whichever of the two
\* corrections came too early for it.
NatPathSettles ==
    <>[](route.ap = "started" =>
            /\ route.faults <= 1 => route.defaultNetif = "halow"
            /\ route.faults = 0 /\ ~route.late /\ route.addr = "subnet" => route.gw)

=============================================================================
