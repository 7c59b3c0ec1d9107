--------------------------- MODULE ApRoutesProofs ---------------------------
(***************************************************************************)
(* Proofs about the routes of the access point, for any number of failing  *)
(* calls and of changes of the HaLow address.                              *)
(***************************************************************************)
EXTENDS ApRoutes, SequenceTheorems, TLAPS

\* The default interface is right, or the callback that makes it so is posted.
Defaulted(r) == r.defaultNetif = "halow" \/ Pending(r, "default")

\* One failed call leaves the default interface to the timer; the gateway is
\* left to it whether or not a call failed.  Before the start there is nothing to
\* correct, and only a failed call leaves the access point without its timer.
DueInv(r) ==
    /\ r.ap = "off" => r.timer = "null" /\ r.faults = 0
    /\ r.ap = "event" => /\ r.timer \in {"null", "dormant"}
                         /\ r.timer = "null" => r.faults > 0
    /\ r.ap = "started" =>
          /\ r.faults = 0 => Defaulted(r) /\ r.timer \in {"armed", "fired"}
          /\ r.faults = 1 => Defaulted(r) \/ r.timer = "armed"
          /\ r.faults = 0 /\ ~r.late /\ r.addr = "subnet" =>
                r.gw \/ Pending(r, "route") \/ r.timer = "armed"

\* The inductive invariant.
RoutesInv == route \in Routes /\ DueInv(route)

\* States that differ in callbacks and faults only.
SameButPosts(q, r) ==
    /\ q.ap = r.ap /\ q.napt = r.napt /\ q.defaultNetif = r.defaultNetif
    /\ q.addr = r.addr /\ q.gw = r.gw /\ q.timer = r.timer /\ q.late = r.late

(***************************************************************************)
(* tcpip_callback puts a correction behind those that are posted, or fails *)
(* and is counted.                                                         *)
(***************************************************************************)
LEMMA PostOutcome ==
    ASSUME NEW r \in Routes, NEW fn \in {"default", "route"}, NEW q \in Post(r, fn)
    PROVE  /\ q \in Routes /\ SameButPosts(q, r)
           /\ \A g : Pending(r, g) => Pending(q, g)
           /\ \/ q.faults = r.faults /\ Pending(q, fn)
              \/ q.faults = r.faults + 1
<1>1. CASE q = [r EXCEPT !.callbacks = Append(@, fn)]
  <2> DEFINE n == Len(r.callbacks)
  <2>1. r.callbacks \in Seq({"default", "route"}) /\ n \in Nat
    BY DEF Routes
  <2>2. /\ q.callbacks = Append(r.callbacks, fn) /\ q.faults = r.faults
        /\ SameButPosts(q, r)
    BY <1>1 DEF Routes, SameButPosts
  <2>3. /\ q.callbacks \in Seq({"default", "route"}) /\ Len(q.callbacks) = n + 1
        /\ q.callbacks[n + 1] = fn
        /\ \A i \in 1 .. n : q.callbacks[i] = r.callbacks[i]
    BY <2>1, <2>2
  <2>4. q \in Routes
    BY <1>1, <2>2, <2>3 DEF Routes
  <2>5. Pending(q, fn) /\ \A g : Pending(r, g) => Pending(q, g)
    BY <2>1, <2>3 DEF Pending
  <2>6. QED
    BY <2>2, <2>4, <2>5
<1>2. CASE q = [r EXCEPT !.faults = @ + 1]
  BY <1>2 DEF Routes, SameButPosts, Pending
<1>3. QED
  BY <1>1, <1>2 DEF Post

(***************************************************************************)
(* Running the first callback leaves the others posted.                    *)
(***************************************************************************)
LEMMA TailPending ==
    ASSUME NEW r \in Routes, r.callbacks # <<>>, NEW fn, Pending(r, fn),
           NEW q, q.callbacks = Tail(r.callbacks), Head(r.callbacks) # fn
    PROVE  Pending(q, fn)
<1> DEFINE s == r.callbacks
<1>1. s \in Seq({"default", "route"}) /\ Len(s) \in Nat /\ Head(s) = s[1]
  BY DEF Routes
<1>2. PICK i \in 1 .. Len(s) : s[i] = fn
  BY DEF Pending
<1>3. i # 1 /\ i - 1 \in 1 .. Len(s) - 1 /\ (i - 1) + 1 = i
  BY <1>1, <1>2
<1>4. Len(Tail(s)) = Len(s) - 1 /\ \A j \in 1 .. Len(s) - 1 : Tail(s)[j] = s[j + 1]
  BY <1>1
<1>5. Tail(s)[i - 1] = fn
  BY <1>2, <1>3, <1>4
<1>6. QED
  BY <1>3, <1>4, <1>5 DEF Pending

(***************************************************************************)
(* wifi_ap_start_handler: both corrections and the timer, each of which    *)
(* may fail.                                                               *)
(***************************************************************************)
LEMMA ApStartStep == ASSUME RoutesInv, ApStart PROVE RoutesInv'
<1>1. route \in Routes /\ DueInv(route) /\ route.ap = "event"
  BY DEF RoutesInv, ApStart
<1>2. PICK napt \in BOOLEAN, r \in Post([route EXCEPT !.defaultNetif = "ap"], "default") :
         \E q \in IF r.gw THEN {r} ELSE Post(r, "route") :
           \E p \in StartFixTimer(q) :
              route' = [p EXCEPT !.ap = "started", !.napt = napt]
  BY DEF ApStart
<1>3. PICK q \in IF r.gw THEN {r} ELSE Post(r, "route") :
         \E p \in StartFixTimer(q) :
              route' = [p EXCEPT !.ap = "started", !.napt = napt]
  BY <1>2
<1>4. PICK p \in StartFixTimer(q) : route' = [p EXCEPT !.ap = "started", !.napt = napt]
  BY <1>3
<1> DEFINE b == [route EXCEPT !.defaultNetif = "ap"]
<1>5. /\ b \in Routes /\ b.gw = route.gw /\ b.addr = route.addr /\ b.timer = route.timer
      /\ b.faults = route.faults /\ b.late = route.late
  BY <1>1 DEF Routes
<1> HIDE DEF b
<1>6. /\ r \in Routes /\ SameButPosts(r, b)
      /\ \/ r.faults = b.faults /\ Pending(r, "default")
         \/ r.faults = b.faults + 1
  BY <1>2, <1>5, PostOutcome DEF b
<1>7. /\ q \in Routes /\ SameButPosts(q, r)
      /\ Pending(r, "default") => Pending(q, "default")
      /\ \/ q.faults = r.faults /\ (r.gw \/ Pending(q, "route"))
         \/ q.faults = r.faults + 1
  <2>1. CASE r.gw
    BY <1>3, <1>6, <2>1 DEF SameButPosts
  <2>2. CASE ~r.gw
    BY <1>3, <1>6, <2>2, PostOutcome
  <2>3. QED
    BY <2>1, <2>2
<1>8. /\ p \in Routes /\ p.callbacks = q.callbacks /\ p.gw = q.gw /\ p.addr = q.addr
      /\ p.late = q.late
      /\ \/ q.timer = "null" /\ p.timer = "null" /\ p.faults = q.faults
         \/ p.timer = "armed" /\ p.faults = q.faults
         \/ p.faults = q.faults + 1
  BY <1>4, <1>7 DEF StartFixTimer, Routes
<1>9. /\ route' \in Routes /\ route'.ap = "started" /\ route'.callbacks = p.callbacks
      /\ route'.timer = p.timer /\ route'.faults = p.faults /\ route'.gw = p.gw
  BY <1>4, <1>8 DEF Routes
<1>10. /\ route.faults \in Nat /\ (route.timer = "null" => route.faults > 0)
       /\ q.timer = route.timer /\ p.gw = r.gw
  BY <1>1, <1>5, <1>6, <1>7, <1>8 DEF SameButPosts, DueInv, Routes
<1>11. \A g : Pending(route', g) <=> Pending(q, g)
  BY <1>8, <1>9 DEF Pending
<1>12. CASE Pending(q, "default")
  <2>1. Defaulted(route')
    BY <1>11, <1>12 DEF Defaulted
  <2>2. route'.faults = 0 => /\ route'.timer = "armed"
    BY <1>5, <1>6, <1>7, <1>8, <1>9, <1>10
  <2>3. QED
    BY <1>9, <2>1, <2>2 DEF RoutesInv, DueInv
<1>13. CASE ~Pending(q, "default")
  <2>1. r.faults = route.faults + 1
    BY <1>5, <1>6, <1>7, <1>13
  <2>2. route'.faults # 0 /\ (route'.faults = 1 => route'.timer = "armed")
    BY <1>7, <1>8, <1>9, <1>10, <2>1
  <2>3. QED
    BY <1>9, <2>2 DEF RoutesInv, DueInv
<1>14. QED
  BY <1>12, <1>13

(***************************************************************************)
(* delayed_route_fix_timer_cb posts both corrections again.                *)
(***************************************************************************)
LEMMA FixTimerStep == ASSUME RoutesInv, FixTimerFires PROVE RoutesInv'
<1>1. route \in Routes /\ DueInv(route) /\ route.timer = "armed"
  BY DEF RoutesInv, FixTimerFires
<1> DEFINE b == [route EXCEPT !.timer = "fired"]
<1>2. /\ b \in Routes /\ b.timer = "fired" /\ b.ap = route.ap /\ b.addr = route.addr
      /\ b.faults = route.faults /\ b.callbacks = route.callbacks
      /\ b.defaultNetif = route.defaultNetif
  BY <1>1 DEF Routes
<1>3. PICK r \in Post(b, "default") : route' \in Post(r, "route")
  BY DEF FixTimerFires, PostBoth
<1> HIDE DEF b
<1>4. /\ r \in Routes /\ SameButPosts(r, b) /\ (Pending(b, "default") => Pending(r, "default"))
      /\ \/ r.faults = b.faults /\ Pending(r, "default")
         \/ r.faults = b.faults + 1
  BY <1>2, <1>3, PostOutcome
<1>5. /\ route' \in Routes /\ SameButPosts(route', r)
      /\ Pending(r, "default") => Pending(route', "default")
      /\ \/ route'.faults = r.faults /\ Pending(route', "route")
         \/ route'.faults = r.faults + 1
  BY <1>3, <1>4, PostOutcome
<1>6. /\ route'.ap = "started" /\ route'.timer = "fired" /\ route.ap = "started"
      /\ route'.defaultNetif = route.defaultNetif
      /\ Pending(route, "default") => Pending(route', "default")
  BY <1>1, <1>2, <1>4, <1>5 DEF SameButPosts, DueInv, Routes, Pending
<1>7. route.faults \in Nat /\ r.faults \in Nat /\ route'.faults \in Nat
  BY <1>1, <1>4, <1>5 DEF Routes
<1>8. route.faults = 0 => Defaulted(route')
  BY <1>1, <1>6 DEF DueInv, Defaulted
<1>9. route'.faults = 0 => route.faults = 0 /\ Pending(route', "route")
  BY <1>2, <1>4, <1>5, <1>7
<1>10. route'.faults = 1 => route.faults = 0 \/ Pending(route', "default")
  BY <1>2, <1>4, <1>5, <1>7
<1>11. QED
  BY <1>5, <1>6, <1>8, <1>9, <1>10 DEF RoutesInv, DueInv, Defaulted

(***************************************************************************)
(* A callback makes the correction that it was posted for.                 *)
(***************************************************************************)
LEMMA CallbackStep == ASSUME RoutesInv, RunCallback PROVE RoutesInv'
<1>1. route \in Routes /\ DueInv(route) /\ route.callbacks # <<>>
  BY DEF RoutesInv, RunCallback
<1> DEFINE r == [route EXCEPT !.callbacks = Tail(@)]
<1>2. route.callbacks \in Seq({"default", "route"})
      /\ Tail(route.callbacks) \in Seq({"default", "route"})
      /\ Head(route.callbacks) \in {"default", "route"}
  BY <1>1, HeadTailProperties DEF Routes
<1>3. /\ r \in Routes /\ r.callbacks = Tail(route.callbacks)
      /\ SameButPosts(r, route) /\ r.faults = route.faults
  BY <1>1, <1>2 DEF Routes, SameButPosts
<1>4. route' = IF Head(route.callbacks) = "default" THEN SetHalowDefault(r) ELSE EnsureRoute(r)
  BY DEF RunCallback
<1> HIDE DEF r
<1>5. /\ route' \in Routes /\ route'.callbacks = Tail(route.callbacks)
      /\ route'.faults = route.faults /\ route'.ap = route.ap /\ route'.timer = route.timer
      /\ route'.late = route.late /\ route'.addr = route.addr
      /\ Head(route.callbacks) = "default" =>
            route'.defaultNetif = "halow" /\ route'.gw = route.gw
      /\ Head(route.callbacks) = "route" =>
            /\ route'.defaultNetif = route.defaultNetif
            /\ route'.gw = route.gw \/ route'.gw
            /\ route.addr = "subnet" => route'.gw
  BY <1>2, <1>3, <1>4 DEF SetHalowDefault, EnsureRoute, Routes, SameButPosts
<1>6. PICK q : q = route'
  OBVIOUS
<1>7. Defaulted(route) => Defaulted(route')
  <2>1. CASE Head(route.callbacks) = "default"
    BY <1>5, <2>1 DEF Defaulted
  <2>2. CASE Head(route.callbacks) # "default"
    BY <1>1, <1>2, <1>5, <1>6, <2>2, TailPending DEF Defaulted
  <2>3. QED
    BY <2>1, <2>2
<1>8. route.addr = "subnet" /\ (route.gw \/ Pending(route, "route")) =>
          route'.gw \/ Pending(route', "route")
  <2>1. CASE Head(route.callbacks) = "route"
    BY <1>5, <2>1
  <2>2. CASE Head(route.callbacks) # "route"
    BY <1>1, <1>2, <1>5, <1>6, <2>2, TailPending
  <2>3. QED
    BY <2>1, <2>2
<1>9. QED
  BY <1>1, <1>5, <1>7, <1>8 DEF RoutesInv, DueInv

(***************************************************************************)
(* The invariant.                                                          *)
(***************************************************************************)
THEOREM RoutesInvariant == RoutesSpec => []RoutesInv
<1>1. RoutesInit => RoutesInv
  BY EmptySeq DEF RoutesInit, RoutesInv, Routes, DueInv
<1>2. RoutesInv /\ [RoutesNext]_route => RoutesInv'
  <2> SUFFICES ASSUME RoutesInv, [RoutesNext]_route PROVE RoutesInv'
    OBVIOUS
  <2>1. CASE Start2GhzAp
    <3>1. route \in Routes /\ route.ap = "off" /\ route.timer = "null" /\ route.faults \in Nat
      BY <2>1 DEF Start2GhzAp, RoutesInv, DueInv, Routes
    <3>2. /\ route' \in Routes /\ route'.ap = "event"
          /\ \/ route'.timer = "dormant"
             \/ route'.timer = "null" /\ route'.faults = route.faults + 1
      <4>1. CASE route' = [route EXCEPT !.ap = "event", !.timer = "dormant"]
        BY <3>1, <4>1 DEF Routes
      <4>2. CASE route' = [route EXCEPT !.ap = "event", !.faults = @ + 1]
        <5>1. PICK n \in Nat : n = route.faults + 1
          BY <3>1
        <5>2. route' = [route EXCEPT !.ap = "event", !.faults = n]
          BY <4>2, <5>1
        <5>3. QED
          BY <3>1, <5>1, <5>2 DEF Routes
      <4>3. QED
        BY <2>1, <4>1, <4>2 DEF Start2GhzAp
    <3>3. QED
      BY <3>1, <3>2 DEF RoutesInv, DueInv
  <2>2. CASE Lease
    <3>1. PICK addr \in {"none", "subnet", "other"}, gw \in BOOLEAN :
             route' = [Leased(route, addr, gw) EXCEPT !.leases = @ + 1]
      BY <2>2 DEF Lease
    <3>2. route \in Routes
      BY DEF RoutesInv
    <3> DEFINE late == route.timer = "fired"
    <3> HIDE DEF late
    <3>3. PICK l \in BOOLEAN : l <=> late
      OBVIOUS
    <3>4. late = l
      BY <3>3 DEF late
    <3>5. route' = [[route EXCEPT !.addr = addr, !.gw = gw, !.late = late]
                        EXCEPT !.leases = @ + 1]
      BY <3>1 DEF Leased, late
    <3>6. PICK n \in Nat : n = route.leases + 1
      BY <3>2 DEF Routes
    <3>7. route' = [route EXCEPT !.addr = addr, !.gw = gw, !.late = l, !.leases = n]
      BY <3>2, <3>4, <3>5, <3>6 DEF Routes
    <3>8. /\ route' \in Routes /\ route'.ap = route.ap /\ route'.timer = route.timer
          /\ route'.faults = route.faults /\ route'.callbacks = route.callbacks
          /\ route'.defaultNetif = route.defaultNetif /\ route'.late = l
      BY <3>2, <3>7 DEF Routes
    <3>9. l <=> route.timer = "fired"
      BY <3>3 DEF late
    <3>10. \A g : Pending(route', g) <=> Pending(route, g)
      BY <3>8 DEF Pending
    <3>11. QED
      BY <3>8, <3>9, <3>10 DEF RoutesInv, DueInv, Defaulted
  <2>3. QED
    BY <2>1, <2>2, ApStartStep, FixTimerStep, CallbackStep DEF RoutesNext, RoutesStep, RoutesInv
<1>3. QED
  BY <1>1, <1>2, PTL DEF RoutesSpec

\* Although tcpip_callback and xTimerStart may fail and nat_router.c does not look,
\* one failure leaves a correction of the default interface under way, and
\* without one a correction of the gateway; no order of the event task, the
\* timer, DHCP and the TCP/IP thread loses it.
THEOREM RoutesCorrectionDue == RoutesSpec => []CorrectionDue
<1>1. RoutesInv => CorrectionDue
  <2> SUFFICES ASSUME RoutesInv PROVE CorrectionDue
    OBVIOUS
  <2>1. route.faults \in Nat
    BY DEF RoutesInv, Routes
  <2>2. route.faults <= 1 => route.faults = 0 \/ route.faults = 1
    BY <2>1
  <2>3. QED
    BY <2>2 DEF RoutesInv, DueInv, Defaulted, CorrectionDue
<1>2. QED
  BY <1>1, RoutesInvariant, PTL

=============================================================================
