# Verification of the HaLow to Wi-Fi bridge

TLA+ models of the XIAO HaLow to Wi-Fi bridge (`examples/iperf`) and of the
parts of the Morse Micro framework it stands on, checked with TLC on small
instances and, where it pays, proved with TLAPS for every instance. All paths
below are relative to the root of the repository.

## 1. The system

The bridge is an ESP32 with a HaLow (802.11ah) transceiver. It joins a HaLow
network as a station, opens a 2.4 GHz access point, and routes between them
with NAPT. It answers DNS for its clients and has a web page for its settings.

| component | source | state | operations | talks to |
|---|---|---|---|---|
| boot and iperf service | `examples/iperf/main/src/iperf.c`, `mm_app_loadconfig.c` | none | `app_main`, `load_*` | settings, link, access point, iperf |
| HaLow link supervision | `.../mm_app_common.c` | `reconnecting`, `initial_connect_done`, `link_up_for_led`, timers, semaphore | `app_wlan_init/start`, `sta_status_callback`, `link_status_callback`, `do_halow_reconnect` | driver (calls and callbacks), IP layer (callback), timer task |
| DNS forwarder | `.../dns_forwarder.c` | pending table, cache, socket, task handle | `dns_forwarder_start`, one receive loop | clients and upstream over UDP |
| access point, NAPT, routes | `.../nat_router.c` | AP netif, route-fix timer, lwIP default netif | `start_2ghz_ap`, AP start event, route fix | TCP/IP thread, DNS forwarder, web server |
| settings | `.../settings.c` | seven keys in NVS | init, load, save | flash |
| web configuration | `.../web_config.c` | the request in progress | get, save, reboot handlers | settings |
| IP layer | `framework/src/mmipal/lwip/mmipal_lwip.c` | `ip_link_state`, address modes, callbacks | init, link status callback, get/set address | lwIP |
| network interface | `framework/src/mmipal/lwip/mmnetif.c` | VIF, wrapper pool `RX_POOL` | rx, tx, link state, init | driver, lwIP, packet memory |
| packet memory | `framework/src/mmpktmem/mmpktmem_heap.c` | two atomic counters, pause flag, two free lists | init, deinit, alloc/free for tx and rx, flow control state | driver, network interface |
| static packet memory | `framework/src/mmpktmem/mmpktmem_static.c` | free lists under a lock | the same | the same |
| iperf engine, UDP | `framework/src/mmiperf/lwip/mmiperf_udp.c` | one server session, counters; a task per client | start, receive callbacks, client task, reports | lwIP |
| iperf engine, TCP | `framework/src/mmiperf/lwip/mmiperf_tcp.c`, `common/mmiperf_list.c` | sessions, list of sessions | start, accept, receive, sent, poll, error, close | lwIP |
| SLIP | `framework/src/slip/slip.c` | receive state | `slip_rx`, `slip_tx` | UART transport |
| OS shim | `framework/mm_shims/mmosal_shim_freertos_esp32.c` | failure record kept over a reset | wrappers over FreeRTOS | FreeRTOS |
| driver, firmware, hostap | binaries and vendored code | | | everything above |

What is hard here:

- **lock-free counters** in the packet memory, touched by the driver's tasks,
  the TCP/IP thread and applications, with a pause flag that must never be
  left set;
- **three threads and one flag**: reconnection runs in the timer task, link
  events arrive in the TCP/IP thread, station states in the driver;
- **an unreliable network** in front of two fixed-size tables;
- **order of release**: packet first, wrapper second;
- **a clock that wraps**, timers that are not stopped, retries that are not
  made;
- **settings written in seven steps** to a flash that survives resets, read
  again by a timer while they are written, and needed before the page that
  could correct them is up;
- **corrections posted to another thread** by calls whose results are ignored;
- **sessions that lwIP calls back for**, which end in a dozen places, and a UDP
  protocol in which the final datagram is repeated, doubled and delayed.

The properties that make each part correct: packets are never leaked, freed
twice or over the limit, and a pause ends (packet memory, network interface);
replies go to who asked, once, and are fresh (DNS); a lost link is restored and
the LED tells the truth (link); a save does what the web page says and usable
settings lead to the web page (settings and boot); traffic leaves by HaLow
(routes); counters add up, tests are reported once and end, and no callback
meets a freed session (iperf).

## 2. The modules

| module | models | kind |
|---|---|---|
| `PktMemTx` | transmit half of the heap packet memory | component |
| `RxPath` | receive half, with `mmnetif_rx` and the pbuf wrappers | component |
| `PktMem` | both halves (EXTENDS) and the shutdown loop | composition |
| `DnsForwarder` | the DNS forwarder against an unreliable network | component |
| `HalowLink` | link supervision with `mmnetif` and `mmipal` callbacks | component, composes three files |
| `PacketPool` | what either half of the packet memory promises | abstract specification |
| `Bridge` | settings, boot sequence, web server, the credentials of a reconnection | composition of five files |
| `SettingsStore` | what the web page promises about the settings | abstract specification |
| `ApRoutes` | access point start, default interface and gateway | component |
| `IperfUdp`, `IperfTcp` | the two halves of the iperf engine | components |
| `Iperf` | the service that `app_main` starts, one half or the other | composition |
| `CountingLemmas` | counting by cardinality of a set that gains or loses one element | lemmas |
| `PktMemProofs`, `DnsForwarderProofs`, `HalowLinkProofs`, `BridgeProofs`, `ApRoutesProofs`, `IperfUdpProofs`, `IperfProofs` | theorems about the modules they are named after and, for `PktMemProofs` and `IperfProofs`, the parts these compose | proofs |
| `MC_*` | instances for TLC | |

In every component module an operator `X_Something` next to a definition `X` is
a plausible mistake in the code that `X` models. No specification uses these;
substituted for `X`, each one makes TLC report the property it is listed with
in `PROJECT.json`.

### PktMemTx

State: `tx_data_pool_allocated` (`txAllocated`), the pause flag (`txPaused`),
the length of the list of reserved command buffers (`txCmdFree`), what has been
handed out (`txOut`, `txCmdOut`), and the driver's idea of the flow control
state (`driverPaused`). The counter and the flag are C11 atomics, so **each
atomic access is one action**, and `txPc` says where each task is inside
`mmhal_wlan_alloc_mmpkt_for_tx` or `tx_data_pool_pkt_free`. The list of command
buffers is used inside a critical section: one action each. `mmnetif_tx` is the
source of data packets (`AllocTxData`, after waiting for the driver to be
ready; `TransmitBlocked` when the wait times out); management frames and
commands of the driver do not wait. The heap may fail at any time.

The flow control callback has no argument. The driver (external) asks
`mmhal_wlan_pktmem_tx_flow_control_state` in it; this is how the callback is
documented in `mmhal_wlan.h`.

### RxPath

State: `rx_pool_allocated`, the command response reserve, packets held by the
driver (`rxHeld`), free elements of `RX_POOL` (`wrappers`), wrapped packets in
the IP stack (`inStack`). `mmnetif_rx` is split where it changes hands:
`MmnetifRx` (VIF check, wrapper), `TcpipInput` (accepted or refused),
`WrapRelease` then `WrapFree` (the two halves of `mmpkt_pbuf_wrapper_free`).

### PktMem

Both of the above plus the shutdown `mmhal_wlan_pktmem_deinit`: `DeinitPoll` is
one iteration, `LoopExit` the condition exactly as written in the code.

### DnsForwarder

One task handles one datagram per action: the task runs alone on its tables, so
nothing finer is observable. A message is a client, a transaction id and a
question; `KeyOf` is the hash of the question, or `NoKey` for a message in
which `dns_question_len` finds none. Tables are indexed from 0 as in the code,
and the scans (`PendingPut`, `PendingMatch`, `CacheHit`, `Victim`) are stated by
what the loop returns: the first slot with a property. Network and upstream
(external) lose, duplicate and reorder exchanges; `inFlight` counts them.
`NowSec` is the wrapped clock, and the run lets it wrap. `asked`, `askedFor`, `replied` and `reply` are
history variables.

### HalowLink

Four threads: main, driver (external), TCP/IP thread, timer task. Link events
travel through the mailbox of the TCP/IP thread (`MmnetifVifState` posts,
`SetLink` handles), change the interface flag, and reach
`link_status_callback` through `netif_status_callback`, which reports only
changes of "link up and address set". `do_halow_reconnect` is four actions
(flag set, disable, enable, flag reset), since the other threads run during the
two blocking calls. The callback for link-down is split between reading the
flag and calling `xTimerStart`, which may fail at any time. The station is the
only VIF of the bridge, so the branch of `mmnetif_vif_state` for the link down of
another VIF (which returns with the core locked) is never taken, and the VIF that
is remembered tells nothing apart. A post that does not fit the mailbox is an
assertion in the code; the model's mailbox is unbounded. The driver keeps trying to connect by itself
while the station is enabled, as `mmwlan.h` documents.

Everything that may go wrong is a `Fault` of a kind in `FaultKinds`, at most
`MaxFaults` times. A failure of the first `mmwlan_sta_enable` is an assertion in
the code, hence a reset, and is not modelled.

### PacketPool

Data packets and command buffers that users hold, handed out one at a time and
within the two sizes. `TxImplementsPool` and `RxImplementsPool` state that
`PktMemTx` and `RxPath` implement it; the mapping takes what has been handed
out, so the increments of allocations that fail are invisible. Both are checked
by TLC and proved.

### Bridge

One device over several starts. `flash` is the NVS namespace, one entry per key;
a reset (`Restart`) keeps it and nothing else. `boot` is the place of
`app_main`: settings, channel list (asserts a known country), station, link,
access point (asserts a password that `esp_wifi_set_config` takes), web server.
`save_post_handler` is split where others can see it: `SavePost` receives, loads
and overlays, `SetField` is one `nvs_set`, `SaveCommit` the commit and the
answer. `httpd` serves one request at a time. `Received` gives what
`httpd_req_recv` may return of a form: all of it, or a beginning that may end
inside a text. `ReconnectSsid` and `ReconnectPass` are the two reads of
`load_mmwlan_sta_args` in the timer task between which a save may write. The code
ignores the result of each `nvs_get` separately: `Unread` says which keys a
`settings_load` may fail to read (all with one failed `nvs_open`, otherwise one
per failed call), and `Lapsed` gives those their defaults. A body that arrives in
part is no failed call, since a single `httpd_req_recv` may return any beginning
of it; it has a bound of its own (`MaxParts`). A flash write is taken to be
visible to reads at once, as NVS documents it. Texts are model values: what counts
is which text it is, whether it is empty, whether it fits its field (`Fit`: a text
in `TooLong` is cut by `strncpy`), and whether its end was lost. The second
`nvs_flash_init`, in `start_2ghz_ap`, finds NVS initialised and does nothing.

`SettingsStore` is an atomic register with one operation per answer of the web
page; `KeepsPromise` states the refinement, with `Stored` (the settings of the
next start, a save in progress left out) for its register. After a failed call in
a save, a partial body that loses something, or an interrupted save, nothing is
promised (`intact` is false) until a complete form has been saved. `torn` marks
credentials of which the two reads were overlapped by a save, or of which one
alone could not be read. `CredentialsMatch` thus names the three ways in which the
code can mix an SSID with the passphrase of another network, and excludes any
other.

### ApRoutes

One record `route`: the access point's start, `netif_default`, address and
gateway of the HaLow interface, the callbacks posted to the TCP/IP thread, the
timer. `Post` is a `tcpip_callback` with both outcomes. DHCP (external) changes
the address at any time. That `esp_netif` makes the access point the default
interface is external too; it is the reason the code gives for the correction.

### IperfUdp

The server keeps one session (`client`, `nextId`, `counters`, `expired`), and a
client task per test goes through `loop`, `wait`, `remove`. A datagram is where
it comes from, its number and whether it is final; a report is the counters.
The network is a set of datagrams and a set of reports; copies stay behind, any
one may be lost, and order is free. `ServerRecv` is the whole of
`iperf_udp_server_recv` for a datagram that finds or begins a session,
`ServerDrops` for one that does not. The history `history` says of each test
what the server saw of it and how often it was reported, or that its session was
disturbed (refused, shared, or begun again after a pause of a minute or by a late
or repeated final datagram). A disturbed test may be reported twice, or with
counters that start late: `ReportedOnce`, `ReportTruthful` and `ReportCoversTest`
speak of the others, and say so. `next_packet_id` is an `int32_t` that gets a
64-bit number plus one; numbers stay below 2^31 (`NumbersFit`).

### IperfTcp

`session` is the `iperf_state_tcp` of the server and of the client; `pcb` says
of each connection which callbacks lwIP (external) would make. Every callback
runs to its end on the stack's task, so each is one action. `CloseSession` and
`Detached` are the two halves of `iperf_tcp_close`. A poll sends for every client,
before it is connected and after its peer has closed too, as the code tests only
that it is not a server. The client registers no `tcp_recv`: when its peer closes
first, lwIP's own receiver closes the connection (`ClientFin`, "closing"), and
once everything is acknowledged frees it without `tcp_err` (`FinAcked`, "lost").
Unless a poll or an acknowledgement ends the test in between, the session is then
never reported and never freed. `ReportedOncePerConnection` and `ConnectionEnds`
have this end as their one exception. lwIP is not in the repository; these two
steps are from its documented behaviour. After `iperf_tcp_err` the
server's session is freed while its listener stays open with a pointer to it;
the next connection (`AcceptDangling`) ends the model, since nothing can be said
of what follows. `traffic` is history.

## 3. What TLC checks

| run | instance | shows |
|---|---|---|
| `pktmem_tx` | 3 tasks, 2 of them in the driver, 5 blocks | accounting, pause and unpause, command reserve; the data path always becomes ready again; refinement of `PacketPool` |
| `rx_path` | 3 tasks, 3 packets, 1 response buffer | accounting of packets and wrappers on every path; empty wrapper pool only in the release window; refinement of `PacketPool` |
| `pktmem_deinit_wait` | 1 task per direction | **violation**: it waits when nothing is allocated, and not when something is |
| `dns_forwarder` | 2 clients, 2 ids, 3 questions, table and cache of 2, a loss and a duplicate | one reply per query, no query forgotten before the table overflows, no slot leaked by the forwarder, answers cross only by shared ids, a stale answer is served only across a wrap of the clock, everything is answered unless the network lost it or there were more queries than slots |
| `dns_crossed` | 2 clients, shared id | **violation**: an answer goes to the wrong client |
| `halow_link` | every kind of fault, up to 4 | the flag never sticks, the LED is truthful, the start is woken by the first link-up and only by it, start-up completes, the link comes back unless the station was left disabled |
| `halow_retry` | a loss and a failed enable | **violation**: no further attempt is made |
| `halow_teardown` | one loss | **violation**: the timer takes down a link that works |
| `bridge` | 2 forms, one of them too long for a field, 3 networks, 1 failing call, 1 partial body, 1 reset, 1 reconnection | refinement of `SettingsStore`, credentials mixed only in the three ways named, restarts only for a stated reason, usable settings lead to the web page |
| `ap_routes` | 2 failing calls, 2 changes of address | a default interface left wrong by one failed call is still to be corrected; traffic leaves by HaLow in the end; an address that came before the timer has a gateway |
| `iperf` | 2 UDP tests, 2 endpoints; 4 TCP connections | counting and reports of undisturbed tests for every order of arrival, callbacks and sessions over every way of ending, no second or early report, idle limit, every test ends, and every connection but a client's that its peer closed |
| `iperf_listener` | the same | **violation**: after a reset of its connection the server's listener is open without a session |

Each violation is a disagreement between the code and what one of its comments,
messages or documents says; `findings` in `PROJECT.json` quotes both sides.

Bounds. Three tasks are the least with which one can be between two atomic
accesses while a second completes an allocation and a third a free. Five blocks
are the least that three tasks allow (see below), so every threshold is
crossed. Tables of two slots have a first, a last and a full state; three
queries overfill a table of two, and three questions a cache of two. Time passes
the lifetime, and the clock wraps at the end of it (`TickWrap` = 2 = `MaxTime`), so
that an entry stored before the wrap is looked up after it. The faults of the link model are counted together, so every pair,
and every sequence of up to four, occurs. In `bridge` one fault meets every step
of a save and of a start, before or after a reset at every step, and one partial
body stops at every field. One form is complete; the other changes some fields,
to a network out of range, a password that the device does not accept, a name that
is too long and a number out of range, and leaves some empty. In
`iperf` a test of two datagrams and a final one meets a test that consists of
the final one alone (number 0), two datagrams are in flight, which is what a
reordering or a duplicate takes, and segments are shorter than, as long as and
longer than a header (of 2 units, with an interval of 3). Four connections are
enough for one refused, one closed, one reset and one after it. Runs in which
the system may come to rest (all queries sent, link up and no fault left, tests
over, shutdown done) do not check for deadlock; the packet memory runs do.

Fairness. `TxFairSpec`: a task inside a call gets to run (the scheduler is
preemptive and no call blocks), and the driver sends, hence frees, what it
holds. Nothing is assumed about callers that are idle. `DnsFairSpec`: the task
reads its socket. `LinkFairSpec`: threads run, the access point is in range and
its DHCP server answers; without these no reconnection can succeed.
`BridgeFairSpec`: the main task and the web server's task run, and a network in
range lets the station in. `RoutesFairSpec`: the main, event, TCP/IP and timer
tasks run. `UdpFairness`: the client's task runs, and its waits, all of which
have a timeout, end; nothing of the network or the server. `TcpFairness`: lwIP's
slow timer polls connections.

## 4. What TLAPS proves

| module | theorems | state |
|---|---|---|
| `PktMemProofs` | `TxInvariant`, `TxTypeCorrect`, `TxCounterExact`, `FreeNeverAsserts`, `TxPoolLimited`, `TxReserveConserved`, `NoLostUnpause`, `DriverViewCorrect` | every invariant of `pktmem_tx`, types, the pool limit, the assertion in the free |
| | `RxInvariant`, `RxTypeCorrect`, `RxNoLeak`, `RxPoolLimited`, `RxWrappersConserved`, `RxReserveConserved`, `WrapperShortage` | every invariant of `rx_path`, types, the pool limit |
| | `TxRefinesPool`, `RxRefinesPool` | each half implements `PacketPool` |
| | `PktMemHalves`, `PktMemEarlyExit` | both halves with the shutdown behave as each does alone; when the shutdown loop is left early |
| `DnsForwarderProofs` | `DnsInvariant`, `DnsTypeCorrect`, `DnsOneReplyPerQuery` | types, no reply without a query |
| | `DnsSlotsHaveExchange`, `DnsNoQueryForgotten` | no slot is leaked by the forwarder, no query is forgotten before the table overflows |
| | `DnsCrossing` | answers cross only by shared ids, if no two questions have the same hash |
| | `DnsFresh` | a stale answer was stored before a wrap of the clock and served after it |
| `HalowLinkProofs` | `LinkInvariant`, `FlagReset`, `LedTruthful`, `StartWokenOnce` | every invariant of `halow_link` |
| | `LinkNeverStranded` | the link is up or on its way back, if `mmwlan_sta_enable` does not fail |
| `BridgeProofs` | `BridgeInvariant`, `BridgeTypeCorrect`, `BridgeKeepsPromise` | `BridgeSpec` implements `SettingsStore` |
| | `BridgeCredentials` | credentials mixed only in the three ways named, if forms and defaults give them in pairs that fit |
| | `BridgeRestartsExplained`, `BridgeStartFollowsStore` | the device restarts for a stated reason, and starts with what is stored |
| `ApRoutesProofs` | `RoutesInvariant`, `RoutesCorrectionDue` | the invariant of `ap_routes` |
| `IperfUdpProofs` | `UdpInvariant`, `UdpTypeCorrect`, `UdpSequenceAccounting`, `UdpReportedOnce`, `UdpNotCrossed`, `UdpReportTruthful`, `UdpReportCoversTest` | types, and every invariant of the UDP half |
| `IperfProofs` | `TcpInvariant`, `TcpTypeCorrect`, `TcpCallbacksMatch`, `TcpReportedOnce`, `TcpKeepsListening`, `TcpServerBytes`, `TcpListMatches`, `TcpIdleLimit` | every safety property of the TCP half in `iperf`, and that the list holds the live sessions |
| | `IperfReportsRight` | all of these of both halves, with their exceptions, of the service that `app_main` starts |

Assumptions on constants: sizes are natural numbers and sets of tasks finite.
The transmit pool needs one more, `Cardinality(TxThreads) + 2 <=
TX_POOL_N_BLOCKS` (20 blocks by default): a task that gives up unpausing because
it sees the counter at the threshold relies on that counter standing for
packets that exist. Increments of allocations that are about to fail count too,
at most one per other task; with fewer blocks than this they alone could hide
the threshold, and a pause would be left with no packet to end it. Two theorems
have a hypothesis that the code does not guarantee, and say so in their
statement: `NoCollision` in `DnsCrossing`, since the cache compares hashes and
not questions, and `"enable" \notin FaultKinds` in `LinkNeverStranded`, which is exactly the fault after which the run `halow_retry` shows
the device stranded: the theorem says that no other fault, in any number, does
that. `PairedForms` in `BridgeCredentials` is about users. `DnsFresh` has no
hypothesis about the clock: the wrap is in the formula.

Some properties name an exception that is itself a flaw of the code, and hold for
the rest: `FreshAnswers` (a wrap of the clock), `ReportedOnce` and its companions
(disturbed tests), `ReportedOncePerConnection` and `ConnectionEnds` (a client
closed by its peer), `ServerKeepsListening` (a reset, which `iperf_listener` shows
to be real), `IdleLimit` (a server's connection before its first data, whose
`poll_count` is that of the connection before), `ServerBytes` (what follows the
settings in the first segment is not counted, against `mmiperf.h:112`), and
`CredentialsMatch` (three). They say that the exception is the only one. The
hazards in `PROJECT.json` repeat this where it matters.

The inductive invariants.

- `TxInv`: exact accounting (`txAllocated` is the packets handed out plus the
  tasks inside an allocation) is what gives the threshold its meaning, the pool
  limit bounds what is granted, and `PauseHasReleaser` is inductive only with
  both. The refinements need the accounting too: a step that hands a packet out
  finds fewer than N out.
- `LinkInv` adds to the two properties that events in the mailbox alternate and
  end in the station's state: without it the LED's agreement at an empty mailbox
  is not inductive. `WokenOnce` and `NeverStranded` are inductive relative to it.
- `DnsInv` counts, for each client and id, replies and slots against queries;
  `OriginInv` says that everything pending, in flight and cached was asked for.
  A table of counts is taken as a set with one element per thing counted
  (`Units`), so that `EverySlotHasExchange` compares cardinalities: a response
  takes one element away and frees the first slot that waits for its id.
  `QueriesInv` adds that no more slots are in use than there were queries, so the
  table has a free slot until it has seen more queries than it holds.
- `BridgeInv` ties a save in progress to flash: the fields written so far are the
  new ones, the rest still those from before, as long as nothing has failed. The
  commit then is one step of the register. `PairInv` adds that what is stored is
  a pair, and that a reconnection in progress that is not torn holds its SSID.
  `UnreadKeys` and `LapsedFacts` say what a load gives when some keys cannot be
  read: without a failed call, all that is stored. `CountsInv` says that the
  counts of failed calls and resets are numbers, so that a step which does not raise them had neither, and that no reconnection
  runs before the device is up.
- `RoutesInv`: of the two posts of the start event and the two of the timer,
  which one still owes a correction after no and after one failed call. The
  second post of an event may fail after the first did not, so the callbacks
  waiting and the state of the timer have to be told apart by the count.
- `UdpInv`: the sum of the counters; everything in flight, kept or received comes
  from the endpoint of its test; and the counters of an undisturbed test, like
  every report of it, agree with its history. `NumbersInv`, relative to it, bounds
  the number of every datagram in flight and the next number expected by what
  the client has sent, and says that a final datagram, a closed session or a
  report means that the client has stopped; the report then covers the test.
- `TcpInv`: a connection with callbacks attached is the connection of a live
  session, a freed session has none, sessions are listed while they live, and the
  count of polls is bounded by the idle history except on a fresh server connection.

Counting steps rest on `CountingLemmas`.

The compositions add nothing that disturbs a part: `PktMemHalves` and
`IperfHalves` show that every step of the whole is a step or a stutter of each
half, and carry the theorems over.

Only proved, and in no run: the type invariants; the pool limits `PoolLimit` and
`RxPoolLimit`, which the runs cover by the refinement of `PacketPool`;
`FreeAssertion`; `ListMatches`; `NeverStranded`, the safety behind
`LinkRecovers`; `StartFollowsStore`, the safety behind `WebPageComesUp`; and
`DeinitEarlyExit`. The last one generalises the finding of
`pktmem_deinit_wait`: whatever the sizes of the reserves, the loop is left early
only while the whole reserve is in use.

Only model-checked: all liveness (`EventuallyReady`, `AllAnswered`,
`StartupCompletes`, `LinkRecovers`, `WebPageComesUp`, `NatPathSettles`,
`ClientFinishes`, `ConnectionEnds`), which is out of the prover's reach, and the
properties that the code violates. Every invariant and every action property of
a passing run has its theorem.

## 5. What is not modelled, and what could come next

- `mmpktmem_static.c` is not compiled (`framework/src/mmpktmem/CMakeLists.txt`
  names the heap variant only). `PacketPool` is what it would have to implement.
- `slip.c` is used by the `rf-test` example, not by the bridge.
- The OS shim wraps FreeRTOS calls one to one; the HAL sets up pins, SPI and
  interrupts of one board. Neither has a protocol of its own.
- `mmipal_lwip.c` beyond the link callback: reading and setting addresses and the
  offloads are single calls into lwIP or the driver.
- Which live entry the full DNS cache loses: the comment at `dns_forwarder.c:128`
  says the oldest, but the scan starts from `now_sec + 1` and so always takes slot 0
  when none has expired. `Victim` models the code; no property depends on it.
- The HTML and wording of the web page, logging, RSSI samples, the blink sequence
  of the LED, payload bytes and durations.
- In the iperf engine: multicast, and failures of the start functions before a
  session exists. Two leaks there (a UDP report that arrives after the last look,
  the pcb and semaphore of a client that cannot bind) and `tcp_abort` inside a
  callback that returns `ERR_OK` are known and left out: they concern buffers and
  control blocks inside lwIP, which the model does not count.
- The vendored supplicant (`hostap`), the driver and the firmware, which come as
  third-party source or binaries, and the other example programs.

Next: safety behind the remaining liveness properties, as `NeverStranded` is
behind `LinkRecovers`: what a connection that is never given up, and a query that
is never answered, are still waiting for. There is no bound on how stale an answer
can be once the clock has wrapped: an entry that expired is then live again. The
stale `poll_count` and the client closed by its peer could be expected violations
of their own, as the listener is.
