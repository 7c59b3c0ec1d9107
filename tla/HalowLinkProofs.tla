-------------------------- MODULE HalowLinkProofs ---------------------------
(***************************************************************************)
(* Proofs about the HaLow link, for any number and kind of faults.         *)
(***************************************************************************)
EXTENDS HalowLink, SequenceTheorems, TLAPS

(***************************************************************************)
(* Posting an event that differs from the last one keeps the mailbox       *)
(* alternating, and makes it end in the new state of the station.          *)
(***************************************************************************)
LEMMA PostStep ==
    ASSUME LinkInv, NEW up \in BOOLEAN, up <=> sta # "connected",
           MmnetifVifState(up), netifUp' = netifUp,
           sta' = "connected" <=> up
    PROVE  /\ mailbox' \in Seq(BOOLEAN) /\ mailbox' # <<>>
           /\ MailboxAlternates' /\ MailboxEndsInSta'
<1> DEFINE n == Len(mailbox)
<1>1. /\ mailbox \in Seq(BOOLEAN) /\ netifUp \in BOOLEAN
      /\ MailboxAlternates /\ MailboxEndsInSta
  BY DEF LinkInv, LinkTypeOK
<1>2. /\ mailbox' \in Seq(BOOLEAN) /\ Len(mailbox') = n + 1 /\ n \in Nat
      /\ \A i \in 1 .. n : mailbox'[i] = mailbox[i] /\ mailbox[i] \in BOOLEAN
      /\ mailbox'[n + 1] = up
  BY <1>1 DEF MmnetifVifState
<1>3. mailbox' # <<>>
  BY <1>2
<1>4. MailboxEndsInSta'
  BY <1>2, <1>3 DEF MailboxEndsInSta
<1>5. up <=> ~(IF n = 0 THEN netifUp ELSE mailbox[n])
  <2>1. mailbox = <<>> <=> n = 0
    BY <1>1, EmptySeq
  <2>2. QED
    BY <1>1, <2>1 DEF MailboxEndsInSta
<1>6. ASSUME NEW i \in 1 .. n + 1
      PROVE  mailbox'[i] <=> ~(IF i = 1 THEN netifUp ELSE mailbox'[i - 1])
  <2>1. CASE i = n + 1
    BY <1>2, <1>5, <2>1
  <2>2. CASE i # n + 1
    <3>1. i \in 1 .. n /\ (i # 1 => i - 1 \in 1 .. n)
      BY <1>2, <2>2
    <3>2. mailbox[i] <=> ~(IF i = 1 THEN netifUp ELSE mailbox[i - 1])
      BY <1>1, <3>1 DEF MailboxAlternates
    <3>3. QED
      BY <1>2, <3>1, <3>2
  <2>3. QED
    BY <2>1, <2>2
<1>7. MailboxAlternates'
  BY <1>2, <1>6 DEF MailboxAlternates
<1>8. QED
  BY <1>2, <1>3, <1>4, <1>7

(***************************************************************************)
(* Handling the first event changes the flag, and keeps the rest of the    *)
(* mailbox alternating from the new value.                                 *)
(***************************************************************************)
LEMMA TakeStep ==
    ASSUME LinkInv, mailbox # <<>>, mailbox' = Tail(mailbox),
           netifUp' = Head(mailbox), sta' = sta
    PROVE  /\ mailbox' \in Seq(BOOLEAN) /\ (netifUp' <=> ~netifUp)
           /\ MailboxAlternates' /\ MailboxEndsInSta'
<1> DEFINE n == Len(mailbox)
<1>1. /\ mailbox \in Seq(BOOLEAN) /\ netifUp \in BOOLEAN
      /\ MailboxAlternates /\ MailboxEndsInSta
  BY DEF LinkInv, LinkTypeOK
<1>2. n \in Nat /\ n >= 1 /\ Head(mailbox) = mailbox[1]
  BY <1>1, EmptySeq
<1>3. /\ mailbox' \in Seq(BOOLEAN) /\ Len(mailbox') = n - 1
      /\ \A i \in 1 .. n - 1 : mailbox'[i] = mailbox[i + 1]
      /\ netifUp' = mailbox[1]
  BY <1>1, <1>2
<1>4. \A i \in 1 .. n : mailbox[i] <=> ~(IF i = 1 THEN netifUp ELSE mailbox[i - 1])
  BY <1>1 DEF MailboxAlternates
<1>5. (netifUp' <=> ~netifUp)
  BY <1>2, <1>3, <1>4
<1>6. ASSUME NEW i \in 1 .. n - 1
      PROVE  mailbox'[i] <=> ~(IF i = 1 THEN netifUp' ELSE mailbox'[i - 1])
  <2>1. i + 1 \in 1 .. n /\ i + 1 # 1 /\ (i + 1) - 1 = i
    BY <1>2
  <2>2. mailbox'[i] <=> ~mailbox[i]
    BY <1>3, <1>4, <2>1
  <2>3. CASE i = 1
    BY <1>3, <2>2, <2>3
  <2>4. CASE i # 1
    <3>1. i - 1 \in 1 .. n - 1 /\ (i - 1) + 1 = i
      BY <1>2, <2>4
    <3>2. QED
      BY <1>3, <2>2, <2>4, <3>1
  <2>5. QED
    BY <2>3, <2>4
<1>7. MailboxAlternates'
  BY <1>2, <1>3, <1>6 DEF MailboxAlternates
<1>8. MailboxEndsInSta'
  <2>0. mailbox[n] <=> sta = "connected"
    BY <1>1 DEF MailboxEndsInSta
  <2>1. CASE n = 1
    <3>1. mailbox' = <<>>
      BY <1>3, <2>1, EmptySeq
    <3>2. QED
      BY <1>3, <2>0, <2>1, <3>1 DEF MailboxEndsInSta
  <2>2. CASE n # 1
    <3>0. n - 1 \in 1 .. n - 1 /\ (n - 1) + 1 = n /\ n - 1 # 0
      <4>1. \A k \in Nat : k >= 1 /\ k # 1 =>
                k - 1 \in 1 .. k - 1 /\ (k - 1) + 1 = k /\ k - 1 # 0
        OBVIOUS
      <4>2. QED
        BY ONLY <1>2, <2>2, <4>1
    <3>1. mailbox' # <<>>
      BY <1>3, <3>0, EmptySeq
    <3>2. mailbox'[Len(mailbox')] = mailbox[n]
      BY <1>3, <3>0
    <3>3. QED
      BY <2>0, <3>1, <3>2 DEF MailboxEndsInSta
  <2>3. QED
    BY <2>1, <2>2
<1>9. QED
  BY <1>3, <1>5, <1>7, <1>8

(***************************************************************************)
(* What the driver's callback does to the LED.                             *)
(***************************************************************************)
LEMMA LedStep ==
    ASSUME link_up_for_led \in BOOLEAN
    PROVE  /\ StaStatusCallback("connecting") => link_up_for_led' = FALSE
           /\ StaStatusCallback("disabled") => link_up_for_led' = FALSE
           /\ StaStatusCallback("connected") => link_up_for_led' = link_up_for_led
<1>1. "connecting" # "connected" /\ "disabled" # "connected"
  OBVIOUS
<1>2. QED
  BY <1>1, Zenon DEF StaStatusCallback

(***************************************************************************)
(* What netif_status_callback does: the IP link follows its argument, and  *)
(* so does the LED when the IP link changes.                               *)
(***************************************************************************)
LEMMA CallbackStep ==
    ASSUME LinkTypeOK, NEW up \in BOOLEAN, NetifStatusCallback(up)
    PROVE  /\ ipLinkUp' \in BOOLEAN /\ (ipLinkUp' <=> up)
           /\ tcpip' \in {"idle", "starting"}
           /\ timer' = timer
           /\ reconnecting' \in BOOLEAN /\ (reconnecting' => reconnecting)
           /\ initial_connect_done' \in BOOLEAN
           /\ link_up_for_led' \in BOOLEAN
           /\ link_established' \in BOOLEAN
           /\ (ipLinkUp <=> up) => link_up_for_led' = link_up_for_led /\ tcpip' = tcpip
           /\ ~(ipLinkUp <=> up) => (link_up_for_led' <=> up)
<1>1. CASE up = ipLinkUp
  BY <1>1 DEF LinkTypeOK, NetifStatusCallback, LinkStatusUp, LinkStatusDown, appVars
<1>2. CASE up /\ ~ipLinkUp
  BY <1>2 DEF LinkTypeOK, NetifStatusCallback, LinkStatusUp, LinkStatusDown, appVars
<1>3. CASE ~up /\ ipLinkUp
  <2>1. LinkStatusDown /\ ipLinkUp' = up
    BY <1>3, Zenon DEF NetifStatusCallback
  <2>2. QED
    BY <1>3, <2>1 DEF LinkTypeOK, LinkStatusDown
<1>4. QED
  BY <1>1, <1>2, <1>3 DEF LinkTypeOK

(***************************************************************************)
(* LinkInv is inductive: one step per action.                              *)
(***************************************************************************)
THEOREM LinkInvariant == LinkSpec => []LinkInv
<1>1. LinkInit => LinkInv
  <2> SUFFICES ASSUME LinkInit PROVE LinkInv
    OBVIOUS
  <2>1. mailbox \in Seq(BOOLEAN) /\ Len(mailbox) = 0
    BY DEF LinkInit
  <2>2. MailboxAlternates /\ MailboxEndsInSta
    BY <2>1 DEF LinkInit, MailboxAlternates, MailboxEndsInSta
  <2>3. QED
    BY <2>1, <2>2 DEF LinkInit, LinkInv, LinkTypeOK, FlagNeverSticks, LedNotAhead, NothingBeforeStart
<1>2. LinkInv /\ [LinkNext]_linkVars => LinkInv'
  <2> SUFFICES ASSUME LinkInv, [LinkNext]_linkVars PROVE LinkInv'
    OBVIOUS
  <2>0. ASSUME mailbox' = mailbox, netifUp' = netifUp,
               sta' = "connected" <=> sta = "connected"
        PROVE  MailboxAlternates' /\ MailboxEndsInSta'
    BY <2>0 DEF LinkInv, MailboxAlternates, MailboxEndsInSta
  <2>1. CASE AppWlanInit
    BY <2>0, <2>1 DEF AppWlanInit, LinkInv, LinkTypeOK, FlagNeverSticks, LedNotAhead, NothingBeforeStart
  <2>2. CASE AppWlanStart
    <3>1. sta = "disabled" /\ sta' = "connecting"
      BY <2>2 DEF AppWlanStart, LinkInv, NothingBeforeStart
    <3>2. mailbox = <<>> => ~netifUp
      BY <3>1 DEF LinkInv, MailboxEndsInSta
    <3>3. link_up_for_led' = FALSE
      BY <2>2, LedStep DEF AppWlanStart, LinkInv, LinkTypeOK
    <3>4. LinkTypeOK'
      BY <2>2, <3>3 DEF AppWlanStart, LinkInv, LinkTypeOK
    <3>5. QED
      BY <2>0, <2>2, <3>1, <3>2, <3>3, <3>4
         DEF AppWlanStart, LinkInv, FlagNeverSticks, LedNotAhead, NothingBeforeStart
  <2>3. CASE LinkEstablished
    BY <2>0, <2>3 DEF LinkEstablished, LinkInv, LinkTypeOK, FlagNeverSticks, LedNotAhead, NothingBeforeStart
  <2>4. CASE StaConnect
    <3>1. /\ mailbox' \in Seq(BOOLEAN) /\ mailbox' # <<>>
          /\ MailboxAlternates' /\ MailboxEndsInSta'
      BY <2>4, PostStep DEF StaConnect
    <3>2. QED
      BY <2>4, <3>1 DEF StaConnect, StaStatusCallback, LinkInv, LinkTypeOK,
                        FlagNeverSticks, LedNotAhead, NothingBeforeStart
  <2>5. CASE StaLose
    <3>1. /\ mailbox' \in Seq(BOOLEAN) /\ mailbox' # <<>>
          /\ MailboxAlternates' /\ MailboxEndsInSta'
      BY <2>5, PostStep DEF StaLose
    <3>2. QED
      BY <2>5, <3>1 DEF StaLose, StaStatusCallback, LinkInv, LinkTypeOK,
                        FlagNeverSticks, LedNotAhead, NothingBeforeStart
  <2>6. CASE SetLink
    <3>1. /\ mailbox' \in Seq(BOOLEAN) /\ (netifUp' <=> ~netifUp)
          /\ MailboxAlternates' /\ MailboxEndsInSta'
      BY <2>6, TakeStep DEF SetLink
    <3>2. NetifStatusCallback(netifUp' /\ hasAddr)
      BY <2>6, <3>1 DEF SetLink, LinkInv, LinkTypeOK
    <3>3. /\ UNCHANGED <<main, sta, hasAddr, timerTask>>
      BY <2>6 DEF SetLink
    <3>4. (netifUp' /\ hasAddr) \in BOOLEAN /\ netifUp' \in BOOLEAN
      BY <2>6 DEF SetLink, LinkInv, LinkTypeOK
    <3>5. LinkTypeOK /\ main \notin {"boot", "start"}
      BY <2>6 DEF SetLink, LinkInv, NothingBeforeStart
    <3>6. QED
      BY <3>1, <3>2, <3>3, <3>4, <3>5, CallbackStep
         DEF LinkInv, LinkTypeOK, FlagNeverSticks, LedNotAhead, NothingBeforeStart
  <2>7. CASE AddressSet
    BY <2>0, <2>7 DEF AddressSet, NetifStatusCallback, LinkStatusUp, LinkStatusDown, appVars,
                      LinkInv, LinkTypeOK, FlagNeverSticks, LedNotAhead, NothingBeforeStart
  <2>8. CASE AddressLost
    <3>1. NetifStatusCallback(FALSE) /\ LinkTypeOK
      BY <2>8 DEF AddressLost, LinkInv
    <3>2. /\ UNCHANGED <<main, sta, mailbox, netifUp, timerTask>>
          /\ hasAddr' = FALSE
      BY <2>8 DEF AddressLost
    <3>3. FALSE \in BOOLEAN
      OBVIOUS
    <3>4. QED
      BY <2>0, <3>1, <3>2, <3>3, CallbackStep
         DEF LinkInv, LinkTypeOK, FlagNeverSticks, LedNotAhead, NothingBeforeStart
  <2>9. CASE StartTimer
    BY <2>0, <2>9 DEF StartTimer, LinkInv, LinkTypeOK, FlagNeverSticks, LedNotAhead, NothingBeforeStart
  <2>10. CASE TimerFires
    BY <2>0, <2>10 DEF TimerFires, LinkInv, LinkTypeOK, FlagNeverSticks, LedNotAhead, NothingBeforeStart
  <2>11. CASE StaDisable
    <3>1. CASE sta = "connected" /\ sta' = "disabled" /\ MmnetifVifState(FALSE)
      <4>1. /\ mailbox' \in Seq(BOOLEAN) /\ mailbox' # <<>>
            /\ MailboxAlternates' /\ MailboxEndsInSta'
        BY <2>11, <3>1, PostStep DEF StaDisable
      <4>2. QED
        BY <2>11, <3>1, <4>1 DEF StaDisable, StaStatusCallback, LinkInv, LinkTypeOK,
                                 FlagNeverSticks, LedNotAhead, NothingBeforeStart
    <3>2. CASE sta # "connected" /\ sta' = "disabled" /\ mailbox' = mailbox
      <4>1. mailbox = <<>> => ~netifUp
        BY <3>2 DEF LinkInv, MailboxEndsInSta
      <4>2. link_up_for_led' \in BOOLEAN /\ (link_up_for_led' => link_up_for_led)
        <5>1. StaStatusCallback("disabled") \/ link_up_for_led' = link_up_for_led
          BY <2>11 DEF StaDisable
        <5>2. link_up_for_led \in BOOLEAN
          BY DEF LinkInv, LinkTypeOK
        <5>3. CASE StaStatusCallback("disabled")
          <6>1. link_up_for_led' = FALSE
            BY <5>2, <5>3, LedStep
          <6>2. QED
            BY <6>1
        <5>4. CASE link_up_for_led' = link_up_for_led
          BY <5>2, <5>4
        <5>5. QED
          BY <5>1, <5>3, <5>4
      <4>3. LinkTypeOK'
        BY <2>11, <3>2, <4>2 DEF StaDisable, LinkInv, LinkTypeOK
      <4>4. QED
        BY <2>0, <2>11, <3>2, <4>1, <4>2, <4>3
           DEF StaDisable, LinkInv, FlagNeverSticks, LedNotAhead, NothingBeforeStart
    <3>3. CASE sta' = sta /\ mailbox' = mailbox /\ timerTask' = "idle"
      <4>1. reconnecting' = FALSE /\ link_up_for_led' = link_up_for_led
        BY <2>11, <3>3 DEF StaDisable
      <4>2. LinkTypeOK'
        BY <2>11, <3>3, <4>1 DEF StaDisable, LinkInv, LinkTypeOK
      <4>3. QED
        BY <2>0, <2>11, <3>3, <4>1, <4>2
           DEF StaDisable, LinkInv, FlagNeverSticks, LedNotAhead, NothingBeforeStart
    <3>4. QED
      BY <2>11, <3>1, <3>2, <3>3 DEF StaDisable
  <2>12. CASE StaEnable
    <3>1. sta = "disabled"
      BY <2>12 DEF StaEnable, LinkInv
    <3>2. mailbox = <<>> => ~netifUp
      BY <3>1 DEF LinkInv, MailboxEndsInSta
    <3>3. link_up_for_led' \in BOOLEAN /\ (link_up_for_led' => link_up_for_led)
      <4>1. StaStatusCallback("connecting") \/ link_up_for_led' = link_up_for_led
        BY <2>12 DEF StaEnable
      <4>2. link_up_for_led \in BOOLEAN
        BY DEF LinkInv, LinkTypeOK
      <4>3. CASE StaStatusCallback("connecting")
        <5>1. link_up_for_led' = FALSE
          BY <4>2, <4>3, LedStep
        <5>2. QED
          BY <5>1
      <4>4. CASE link_up_for_led' = link_up_for_led
        BY <4>2, <4>4
      <4>5. QED
        BY <4>1, <4>3, <4>4
    <3>4. sta' \in {"disabled", "connecting"} /\ LinkTypeOK'
      BY <2>12, <3>1, <3>3 DEF StaEnable, LinkInv, LinkTypeOK
    <3>5. QED
      BY <2>0, <2>12, <3>1, <3>2, <3>3, <3>4
         DEF StaEnable, LinkInv, FlagNeverSticks, LedNotAhead, NothingBeforeStart
  <2>13. CASE ReconnectDone
    BY <2>0, <2>13 DEF ReconnectDone, LinkInv, LinkTypeOK, FlagNeverSticks, LedNotAhead, NothingBeforeStart
  <2>14. CASE UNCHANGED linkVars
    BY <2>0, <2>14 DEF linkVars, appVars, LinkInv, LinkTypeOK, FlagNeverSticks, LedNotAhead, NothingBeforeStart
  <2>15. QED
    BY <2>1, <2>2, <2>3, <2>4, <2>5, <2>6, <2>7, <2>8, <2>9, <2>10, <2>11, <2>12,
       <2>13, <2>14 DEF LinkNext, MainStep, TcpipStep, TimerStep
<1>3. QED
  BY <1>1, <1>2, PTL DEF LinkSpec

(***************************************************************************)
(* The reconnecting flag is never left set after do_halow_reconnect.       *)
(***************************************************************************)
THEOREM FlagReset == LinkSpec => []FlagNeverSticks
<1>1. LinkInv => FlagNeverSticks
  BY DEF LinkInv
<1>2. QED
  BY <1>1, LinkInvariant, PTL

(***************************************************************************)
(* The LED tells the truth whenever no link event is waiting.              *)
(***************************************************************************)
THEOREM LedTruthful == LinkSpec => []LedShowsLink
<1>1. LinkInv => LedShowsLink
  BY DEF LinkInv, LinkTypeOK, MailboxEndsInSta, LedShowsLink
<1>2. QED
  BY <1>1, LinkInvariant, PTL

(***************************************************************************)
(* The first link-up wakes app_wlan_start and no other one gives the       *)
(* semaphore, for any order of the four threads.                           *)
(***************************************************************************)
THEOREM StartWokenOnce == LinkSpec => []WokenOnce
<1> DEFINE WokenInv == /\ WokenOnce
                       /\ main \in {"boot", "start"} =>
                             ~initial_connect_done /\ ~link_established
<1>1. LinkInit => WokenInv
  BY DEF LinkInit, WokenOnce
<1>2. LinkInv /\ WokenInv /\ [LinkNext]_linkVars => WokenInv'
  <2> SUFFICES ASSUME LinkInv, WokenInv, [LinkNext]_linkVars PROVE WokenInv'
    OBVIOUS
  <2>1. /\ main \in {"boot", "start", "waiting", "running"}
        /\ initial_connect_done \in BOOLEAN /\ link_established \in BOOLEAN
    BY DEF LinkInv, LinkTypeOK
  <2>2. ASSUME UNCHANGED <<main, initial_connect_done, link_established>>
        PROVE  WokenInv'
    BY <2>2 DEF WokenOnce
  <2>3. ASSUME NEW up, NetifStatusCallback(up), main' = main,
               main \notin {"boot", "start"} \/ up = FALSE
        PROVE  WokenInv'
    <3>1. CASE UNCHANGED <<initial_connect_done, link_established>>
      BY <2>2, <2>3, <3>1
    <3>2. CASE LinkStatusUp /\ up
      BY <2>1, <2>3, <3>2 DEF LinkStatusUp, WokenOnce
    <3>3. QED
      BY <2>3, <3>1, <3>2 DEF NetifStatusCallback, LinkStatusDown, appVars
  <2>4. CASE SetLink
    <3>1. main \notin {"boot", "start"} /\ main' = main
      BY <2>4 DEF SetLink, LinkInv, NothingBeforeStart
    <3>2. NetifStatusCallback(netifUp' /\ hasAddr) \/ UNCHANGED appVars
      BY <2>4 DEF SetLink
    <3>3. CASE UNCHANGED appVars
      BY <2>2, <3>1, <3>3 DEF appVars
    <3>4. CASE NetifStatusCallback(netifUp' /\ hasAddr)
      <4>1. PICK up : NetifStatusCallback(up)
        BY <3>4
      <4>2. QED
        BY <2>3, <3>1, <4>1
    <3>5. QED
      BY <3>2, <3>3, <3>4
  <2>5. CASE AddressSet
    <3>1. main \notin {"boot", "start"} /\ main' = main /\ NetifStatusCallback(netifUp)
      BY <2>5 DEF AddressSet, LinkInv, NothingBeforeStart
    <3>2. QED
      BY <2>3, <3>1
  <2>6. CASE AddressLost
    <3>1. main' = main /\ NetifStatusCallback(FALSE)
      BY <2>6 DEF AddressLost
    <3>2. QED
      BY <2>3, <3>1
  <2>7. CASE AppWlanInit \/ AppWlanStart
    BY <2>1, <2>7 DEF AppWlanInit, AppWlanStart, WokenOnce
  <2>8. CASE LinkEstablished
    BY <2>1, <2>8 DEF LinkEstablished, WokenOnce
  <2>9. QED
    BY <2>2, <2>4, <2>5, <2>6, <2>7, <2>8
       DEF LinkNext, MainStep, TcpipStep, TimerStep, StaConnect, StaLose, StartTimer,
           TimerFires, StaDisable, StaEnable, ReconnectDone, linkVars, appVars
<1>3. QED
  BY <1>1, <1>2, LinkInvariant, PTL DEF LinkSpec

\* Something that is under way will bring the link back: the driver's attempt to
\* connect, an event that the TCP/IP thread has not handled, DHCP, or
\* do_halow_reconnect, which is about to enable the station.
WayBack ==
    \/ sta = "connecting" \/ mailbox # <<>> \/ (netifUp /\ ~hasAddr)
    \/ timerTask = "enable"

\* The link of a device that has started is up or on its way back.
NeverStranded == main \notin {"boot", "start"} /\ ~ipLinkUp => WayBack

(***************************************************************************)
(* As long as mmwlan_sta_enable does not fail, no interleaving of the      *)
(* threads, no loss and no other failure leaves the link down with nothing *)
(* under way: do_halow_reconnect leaves the station enabled.               *)
(***************************************************************************)
THEOREM LinkNeverStranded == "enable" \notin FaultKinds /\ LinkSpec => []NeverStranded
<1> SUFFICES ASSUME "enable" \notin FaultKinds PROVE LinkSpec => []NeverStranded
  OBVIOUS
<1> DEFINE Kept == sta = "disabled" => main \in {"boot", "start"} \/ timerTask = "enable"
<1>1. LinkInit => Kept
  BY DEF LinkInit
<1>2. LinkInv /\ Kept /\ [LinkNext]_linkVars => Kept'
  <2> SUFFICES ASSUME LinkInv, Kept, [LinkNext]_linkVars PROVE Kept'
    OBVIOUS
  <2>1. CASE AppWlanInit \/ AppWlanStart
    BY <2>1 DEF AppWlanInit, AppWlanStart
  <2>2. CASE StaConnect \/ StaLose
    BY <2>2 DEF StaConnect, StaLose
  <2>3. CASE TimerFires \/ ReconnectDone \/ StaDisable
    BY <2>3 DEF TimerFires, ReconnectDone, StaDisable, LinkInv, NothingBeforeStart
  <2>4. CASE StaEnable
    BY <2>4 DEF StaEnable, Fault
  <2>5. CASE SetLink \/ AddressSet \/ AddressLost \/ StartTimer \/ LinkEstablished
             \/ UNCHANGED linkVars
    BY <2>5 DEF SetLink, AddressSet, AddressLost, StartTimer, LinkEstablished, linkVars
  <2>6. QED
    BY <2>1, <2>2, <2>3, <2>4, <2>5 DEF LinkNext, MainStep, TcpipStep, TimerStep
<1>3. LinkInv /\ Kept => NeverStranded
  BY DEF LinkInv, LinkTypeOK, MailboxEndsInSta, NeverStranded, WayBack
<1>4. QED
  BY <1>1, <1>2, <1>3, LinkInvariant, PTL DEF LinkSpec

=============================================================================
