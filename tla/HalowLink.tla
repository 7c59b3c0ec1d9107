----------------------------- MODULE HalowLink ------------------------------
(***************************************************************************)
(* How the bridge follows and restores its HaLow link (mm_app_common.c),   *)
(* with the two layers that report the link to it: the network interface   *)
(* (mmnetif.c) and the IP abstraction layer (mmipal_lwip.c).  Four threads *)
(* are at work:                                                            *)
(*   - main, which starts the station and waits for the first link-up;     *)
(*   - the WLAN driver (external), which reports station states and posts  *)
(*     link events to the mailbox of the TCP/IP thread;                    *)
(*   - the TCP/IP thread, which handles those events and runs              *)
(*     link_status_callback;                                               *)
(*   - the FreeRTOS timer task, which runs do_halow_reconnect.             *)
(* The flags of mm_app_common.c are shared between them without a lock.    *)
(*                                                                         *)
(* An operator X_... beside a definition X is a mistake in that code which *)
(* the properties must notice; no specification uses it.                   *)
(***************************************************************************)
EXTENDS Integers, Sequences

CONSTANTS
    FaultKinds,     \* what may go wrong, a subset of Faults
    MaxFaults       \* bound: how often something goes wrong

\* The access point is lost; the address is lost; mmwlan_sta_disable or
\* mmwlan_sta_enable fails; xTimerStart or xTimerCreate fails.
Faults == {"loss", "address", "disable", "enable", "start", "create"}

ASSUME FaultAssumption == FaultKinds \subseteq Faults /\ MaxFaults \in Nat

VARIABLES
    main,           \* "boot", "start", "waiting", "running"
    sta,            \* station state of the driver
    mailbox,        \* link events posted to the TCP/IP thread: TRUE is up
    netifUp,        \* NETIF_FLAG_LINK_UP
    hasAddr,        \* netif->ip_addr is set (by DHCP)
    ipLinkUp,       \* data->ip_link_state is MMIPAL_LINK_UP
    tcpip,          \* "idle", or "starting": about to call xTimerStart
    timer,          \* reconnect_timer: "null", "dormant", "armed"
    timerTask,      \* where do_halow_reconnect is; "idle" outside of it
    reconnecting, initial_connect_done, link_up_for_led,
    link_established,       \* the semaphore has been given
    faults          \* faults so far

appVars == <<tcpip, timer, reconnecting, initial_connect_done, link_up_for_led,
             link_established>>
linkVars == <<main, sta, mailbox, netifUp, hasAddr, ipLinkUp, timerTask, faults, appVars>>

LinkInit ==
    /\ main = "boot"
    /\ sta = "disabled"
    /\ mailbox = <<>>
    /\ netifUp = FALSE
    /\ hasAddr = FALSE
    /\ ipLinkUp = FALSE
    /\ tcpip = "idle"
    /\ timer = "null"
    /\ timerTask = "idle"
    /\ reconnecting = FALSE
    /\ initial_connect_done = FALSE
    /\ link_up_for_led = FALSE
    /\ link_established = FALSE
    /\ faults = 0

Fault(kind) ==
    /\ kind \in FaultKinds
    /\ faults < MaxFaults
    /\ faults' = faults + 1

-----------------------------------------------------------------------------
(* The main thread *)

\* app_wlan_init: the timers are created; without reconnect_timer the program
\* goes on with a warning.
AppWlanInit ==
    /\ main = "boot"
    /\ main' = "start"
    /\ \/ timer' = "dormant" /\ UNCHANGED faults
       \/ Fault("create") /\ UNCHANGED timer
    /\ UNCHANGED <<sta, mailbox, netifUp, hasAddr, ipLinkUp, timerTask, tcpip,
                   reconnecting, initial_connect_done, link_up_for_led, link_established>>

\* sta_status_callback: only the loss of the connection is shown at once.
StaStatusCallback(state) ==
    link_up_for_led' = (state = "connected" /\ link_up_for_led)

\* app_wlan_start enables the station (or asserts) and waits.
AppWlanStart ==
    /\ main = "start"
    /\ main' = "waiting"
    /\ sta' = "connecting"
    /\ StaStatusCallback("connecting")
    /\ UNCHANGED <<mailbox, netifUp, hasAddr, ipLinkUp, timerTask, faults, tcpip, timer,
                   reconnecting, initial_connect_done, link_established>>

\* mmosal_semb_wait(link_established) returns.
LinkEstablished ==
    /\ main = "waiting"
    /\ link_established
    /\ main' = "running"
    /\ link_established' = FALSE
    /\ UNCHANGED <<sta, mailbox, netifUp, hasAddr, ipLinkUp, timerTask, faults, tcpip, timer,
                   reconnecting, initial_connect_done, link_up_for_led>>

-----------------------------------------------------------------------------
(* The driver: it keeps trying to connect while the station is enabled *)

\* mmnetif_vif_state hands a change of the link to the TCP/IP thread.  The station
\* is the only VIF of the bridge, so its link down is never taken for that of
\* another one (a return that would leave the core locked).  A post that fails for
\* want of room is an assertion: the device stops, and has no further step here.
MmnetifVifState(up) == mailbox' = Append(mailbox, up)

StaConnect ==
    /\ sta = "connecting"
    /\ sta' = "connected"
    /\ StaStatusCallback("connected")
    /\ MmnetifVifState(TRUE)
    /\ UNCHANGED <<main, netifUp, hasAddr, ipLinkUp, timerTask, faults, tcpip, timer,
                   reconnecting, initial_connect_done, link_established>>

StaLose ==
    /\ sta = "connected"
    /\ Fault("loss")
    /\ sta' = "connecting"
    /\ StaStatusCallback("connecting")
    /\ MmnetifVifState(FALSE)
    /\ UNCHANGED <<main, netifUp, hasAddr, ipLinkUp, timerTask, tcpip, timer,
                   reconnecting, initial_connect_done, link_established>>

-----------------------------------------------------------------------------
(* The TCP/IP thread *)

LinkStatusUp_SemaphoreOnReconnect ==
    /\ link_up_for_led' = TRUE
    /\ reconnecting' = FALSE
    /\ initial_connect_done' = TRUE
    /\ link_established' = (link_established \/ reconnecting)
    /\ UNCHANGED <<tcpip, timer>>

LinkStatusUp_SemaphoreEveryTime ==
    /\ link_up_for_led' = TRUE
    /\ reconnecting' = FALSE
    /\ initial_connect_done' = TRUE
    /\ link_established' = TRUE
    /\ UNCHANGED <<tcpip, timer>>

\* link_status_callback, link up.  Neither branch stops reconnect_timer.
LinkStatusUp ==
    /\ link_up_for_led' = TRUE
    /\ reconnecting' = FALSE
    /\ initial_connect_done' = TRUE
    /\ link_established' = (link_established \/ ~initial_connect_done)
    /\ UNCHANGED <<tcpip, timer>>

LinkStatusDown_LedKept ==
    /\ tcpip' = IF initial_connect_done /\ ~reconnecting /\ timer # "null"
                THEN "starting" ELSE "idle"
    /\ UNCHANGED <<timer, reconnecting, initial_connect_done, link_up_for_led, link_established>>

\* link_status_callback, link down, up to the call of xTimerStart.
LinkStatusDown ==
    /\ link_up_for_led' = FALSE
    /\ tcpip' = IF initial_connect_done /\ ~reconnecting /\ timer # "null"
                THEN "starting" ELSE "idle"
    /\ UNCHANGED <<timer, reconnecting, initial_connect_done, link_established>>

\* netif_status_callback reports a change of (link up and address set).
NetifStatusCallback(up) ==
    /\ ipLinkUp' = up
    /\ \/ up = ipLinkUp /\ UNCHANGED appVars
       \/ up /\ ~ipLinkUp /\ LinkStatusUp
       \/ ~up /\ ipLinkUp /\ LinkStatusDown

SetLink_UpByAddressOnly ==
    /\ tcpip = "idle"
    /\ mailbox # <<>>
    /\ mailbox' = Tail(mailbox)
    /\ netifUp' = Head(mailbox)
    /\ IF netifUp /\ ~netifUp' THEN NetifStatusCallback(FALSE)
                              ELSE UNCHANGED <<ipLinkUp, appVars>>
    /\ UNCHANGED <<main, sta, hasAddr, timerTask, faults>>

\* netif_set_link_up or netif_set_link_down, as posted; lwIP calls back only
\* when the flag changes.
SetLink ==
    /\ tcpip = "idle"
    /\ mailbox # <<>>
    /\ mailbox' = Tail(mailbox)
    /\ netifUp' = Head(mailbox)
    /\ IF netifUp' # netifUp THEN NetifStatusCallback(netifUp' /\ hasAddr)
                             ELSE UNCHANGED <<ipLinkUp, appVars>>
    /\ UNCHANGED <<main, sta, hasAddr, timerTask, faults>>

\* DHCP obtains an address; the address survives a loss of the link ...
AddressSet ==
    /\ tcpip = "idle"
    /\ netifUp /\ ~hasAddr
    /\ hasAddr' = TRUE
    /\ NetifStatusCallback(netifUp)
    /\ UNCHANGED <<main, sta, mailbox, netifUp, timerTask, faults>>

\* ... but the server may refuse to renew it.
AddressLost ==
    /\ tcpip = "idle"
    /\ hasAddr
    /\ Fault("address")
    /\ hasAddr' = FALSE
    /\ NetifStatusCallback(FALSE)
    /\ UNCHANGED <<main, sta, mailbox, netifUp, timerTask>>

\* xTimerStart does not wait: it fails when the queue of the timer task is full.
StartTimer ==
    /\ tcpip = "starting"
    /\ tcpip' = "idle"
    /\ \/ timer' = "armed" /\ UNCHANGED faults
       \/ Fault("start") /\ UNCHANGED timer
    /\ UNCHANGED <<main, sta, mailbox, netifUp, hasAddr, ipLinkUp, timerTask,
                   reconnecting, initial_connect_done, link_up_for_led, link_established>>

-----------------------------------------------------------------------------
(* The timer task: do_halow_reconnect *)

TimerFires ==
    /\ timerTask = "idle"
    /\ timer = "armed"
    /\ timer' = "dormant"
    /\ reconnecting' = TRUE
    /\ timerTask' = "disable"
    /\ UNCHANGED <<main, sta, mailbox, netifUp, hasAddr, ipLinkUp, faults, tcpip,
                   initial_connect_done, link_up_for_led, link_established>>

StaDisable_FlagKept ==
    /\ timerTask = "disable"
    /\ \/ /\ timerTask' = "enable"
          /\ sta' = "disabled"
          /\ StaStatusCallback("disabled")
          /\ IF sta = "connected" THEN MmnetifVifState(FALSE) ELSE UNCHANGED mailbox
          /\ UNCHANGED <<reconnecting, faults>>
       \/ /\ timerTask' = "idle"
          /\ Fault("disable")
          /\ UNCHANGED <<sta, mailbox, link_up_for_led, reconnecting>>
    /\ UNCHANGED <<main, netifUp, hasAddr, ipLinkUp, tcpip, timer, initial_connect_done,
                   link_established>>

\* mmwlan_sta_disable; when it fails the flag is reset and that is all.
StaDisable ==
    /\ timerTask = "disable"
    /\ \/ /\ timerTask' = "enable"
          /\ sta' = "disabled"
          /\ StaStatusCallback("disabled")
          /\ IF sta = "connected" THEN MmnetifVifState(FALSE) ELSE UNCHANGED mailbox
          /\ UNCHANGED <<reconnecting, faults>>
       \/ /\ timerTask' = "idle"
          /\ reconnecting' = FALSE
          /\ Fault("disable")
          /\ UNCHANGED <<sta, mailbox, link_up_for_led>>
    /\ UNCHANGED <<main, netifUp, hasAddr, ipLinkUp, tcpip, timer, initial_connect_done,
                   link_established>>

\* The settings are loaded and mmwlan_sta_enable is called.
StaEnable ==
    /\ timerTask = "enable"
    /\ timerTask' = "finish"
    /\ \/ /\ sta' = "connecting"
          /\ StaStatusCallback("connecting")
          /\ UNCHANGED faults
       \/ Fault("enable") /\ UNCHANGED <<sta, link_up_for_led>>
    /\ UNCHANGED <<main, mailbox, netifUp, hasAddr, ipLinkUp, tcpip, timer,
                   reconnecting, initial_connect_done, link_established>>

\* The flag is reset whether or not mmwlan_sta_enable succeeded.
ReconnectDone ==
    /\ timerTask = "finish"
    /\ timerTask' = "idle"
    /\ reconnecting' = FALSE
    /\ UNCHANGED <<main, sta, mailbox, netifUp, hasAddr, ipLinkUp, faults, tcpip, timer,
                   initial_connect_done, link_up_for_led, link_established>>

-----------------------------------------------------------------------------

MainStep == AppWlanInit \/ AppWlanStart \/ LinkEstablished
TcpipStep == SetLink \/ AddressSet \/ StartTimer
TimerStep == TimerFires \/ StaDisable \/ StaEnable \/ ReconnectDone

LinkNext ==
    \/ MainStep
    \/ TcpipStep
    \/ TimerStep
    \/ StaConnect
    \/ StaLose
    \/ AddressLost

LinkSpec == LinkInit /\ [][LinkNext]_linkVars

\* Every thread runs, an access point is in range, and its DHCP server answers.
LinkFairSpec ==
    /\ LinkSpec
    /\ WF_linkVars(MainStep)
    /\ WF_linkVars(SetLink) /\ WF_linkVars(AddressSet) /\ WF_linkVars(StartTimer)
    /\ WF_linkVars(TimerStep)
    /\ WF_linkVars(StaConnect)

-----------------------------------------------------------------------------
(* Properties *)

LinkTypeOK ==
    /\ main \in {"boot", "start", "waiting", "running"}
    /\ sta \in {"disabled", "connecting", "connected"}
    /\ mailbox \in Seq(BOOLEAN)
    /\ netifUp \in BOOLEAN
    /\ hasAddr \in BOOLEAN
    /\ ipLinkUp \in BOOLEAN
    /\ tcpip \in {"idle", "starting"}
    /\ timer \in {"null", "dormant", "armed"}
    /\ timerTask \in {"idle", "disable", "enable", "finish"}
    /\ reconnecting \in BOOLEAN
    /\ initial_connect_done \in BOOLEAN
    /\ link_up_for_led \in BOOLEAN
    /\ link_established \in BOOLEAN

\* The flag that keeps link_status_callback from arming the timer is never
\* left set once do_halow_reconnect has returned, on any of its paths:
\* otherwise no later loss of the link would be followed by a reconnection.
FlagNeverSticks == reconnecting => timerTask # "idle"

\* app_wlan_start is woken by the first link-up, although the link may be lost
\* again before it runs, and no later link-up gives the semaphore that nobody
\* waits for any more.
WokenOnce ==
    /\ main = "waiting" => (link_established <=> initial_connect_done)
    /\ main = "running" => initial_connect_done /\ ~link_established

\* The LED is written by the driver's callback and by the TCP/IP thread, in
\* no fixed order.  Once the events posted so far are handled it shows the
\* truth: one blink exactly if the station is connected and has an address.
LedShowsLink ==
    mailbox = <<>> => (link_up_for_led <=> (sta = "connected" /\ hasAddr))

\* Between the events, the LED never shows a link that the IP layer has
\* already reported lost.
LedNotAhead == link_up_for_led => ipLinkUp

\* The events in the mailbox alternate, starting from the opposite of the
\* flag, and the last one is the state of the station.
MailboxAlternates ==
    \A i \in 1 .. Len(mailbox) :
        mailbox[i] <=> ~(IF i = 1 THEN netifUp ELSE mailbox[i - 1])
MailboxEndsInSta ==
    (IF mailbox = <<>> THEN netifUp ELSE mailbox[Len(mailbox)]) <=> sta = "connected"

\* No thread but main is at work until the station is enabled.
NothingBeforeStart ==
    main \in {"boot", "start"} =>
        /\ sta = "disabled" /\ mailbox = <<>> /\ ~netifUp
        /\ tcpip = "idle" /\ timer # "armed" /\ timerTask = "idle"

\* The inductive invariant.
LinkInv ==
    /\ LinkTypeOK
    /\ FlagNeverSticks
    /\ ipLinkUp <=> (netifUp /\ hasAddr)
    /\ LedNotAhead
    /\ MailboxAlternates
    /\ MailboxEndsInSta
    /\ mailbox = <<>> => (link_up_for_led <=> ipLinkUp)
    /\ timerTask = "enable" => sta = "disabled"
    /\ NothingBeforeStart

\* The application gets past app_wlan_start when an access point is in range.
StartupCompletes == <>(main = "running")

\* A link that goes down comes back, whatever the timer, the driver's own
\* attempts and their failures do to each other, unless do_halow_reconnect has
\* left the station disabled (mmwlan_sta_enable failed).
LinkRecovers ==
    (initial_connect_done /\ ~ipLinkUp)
        ~> (ipLinkUp \/ (sta = "disabled" /\ timerTask = "idle"))

\* "The system automatically attempts to reconnect to HaLow every 15 seconds if
\* the link is lost": while the link is down another attempt is to come.
KeepsTrying ==
    (initial_connect_done /\ ~ipLinkUp) ~> (ipLinkUp \/ timerTask = "disable")

\* "attempt HaLow reconnection after link down": a link that works is not
\* taken down.
ReconnectsOnlyWhenDown == [][TimerFires => ~ipLinkUp]_linkVars

=============================================================================
