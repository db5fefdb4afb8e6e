----------------------------- MODULE ReportLink -----------------------------
(***************************************************************************)
(* The path of a HID report over Bluetooth: key processing hands it to     *)
(* bluetooth_send_keyboard or bluetooth_send_consumer (bluetooth.c), which *)
(* sends it at once or puts it in the report buffer; bluetooth_task reads  *)
(* one packet of the module per round (ckbt51.c), handles the connection   *)
(* event in it, runs report_buffer_task and may sleep (lpm.c); the module  *)
(* answers every report with the state of its own FIFO, from which the     *)
(* host takes the reports.                                                 *)
(*                                                                         *)
(* The module and the host are external.  The keyboard is in Bluetooth     *)
(* mode, bonded to one host; reset, pairing and host selection are left to *)
(* module Bluetooth.                                                       *)
(***************************************************************************)
EXTENDS ReportBuffer, FiniteSets

CONSTANTS
    Nkro,        \* keymap_config.nkro: which of the two keyboard paths is taken
    Consumer,    \* consumer (media key) reports are sent too
    Noise,       \* the module may answer ACK_CHECKSUM_ERROR
    FifoSize,    \* capacity of the module's FIFO
    AckBound,    \* the module answers a report within this many milliseconds
    TxRoom,      \* bound: commands waiting in the UART (sdWrite blocks)
    MaxReports   \* bound: reports in a behaviour

ASSUME LinkAssumption ==
    /\ Nkro \in BOOLEAN /\ Consumer \in BOOLEAN /\ Noise \in BOOLEAN
    /\ FifoSize \in Nat /\ AckBound \in Nat /\ TxRoom \in Nat /\ MaxReports \in Nat
    /\ FifoSize > 0
    /\ AckBound < AwakeTime

VARIABLES
    mcu,       \* report_buffer.c, the timers and the UART, see ReportBuffer
    bt_state,  \* bluetooth.c
    held,      \* kinds whose last report has something pressed (last_report,
               \* last_consumer_usage)
    rx,        \* packets of the module not yet read by ckbt51_task
    linked,    \* the module has a link to the host
    fifo,      \* reports accepted by the module, not yet taken by the host
    host,      \* serial number of the report the host took last
    hostDown,  \* the host believes a key is pressed
    got,       \* serial numbers of the reports the host took
    gen,       \* reports generated
    excused,   \* reports given up by design: full ring, no link
    burst,     \* how many of the last reports came since the ring was last empty
    dropped    \* serial number of the last report that found the ring full

vars == <<mcu, bt_state, held, rx, linked, fifo, host, hostDown, got, gen,
          excused, burst, dropped>>

KbType == IF Nkro THEN "NKRO" ELSE "KB"

Kinds == {KbType} \union (IF Consumer THEN {"CONSUMER"} ELSE {})

Connect == [type |-> "CONNECT", id |-> 0, down |-> FALSE]

Ack == {"SUCCESS", "HALF", "FULL"} \union (IF Noise THEN {"ERROR"} ELSE {})

Report == [type : Kinds, id : 1 .. MaxReports, down : BOOLEAN]

Ids(S) == {r.id : r \in S} \ {0}

SeqIds(s) == Ids({s[i] : i \in DOMAIN s})

\* Reports the firmware still answers for: in the ring, or sent and not yet
\* accepted by the module.
Pending(b) == Ids(Queued(b)) \union (IF b.retry > 0 THEN Ids({b.kb_rpt}) ELSE {})

Times == 0 .. MaxTime
Spans == 0 .. AwakeTime
Retries == 0 .. RetryCount + FullRetry
Intervals == {DefaultInterval, DefaultInterval + HalfExtra}
Entries == Report \union {NoReport}
Rings == [Slots -> Entries]
Commands == Seq(Report \union {Connect})

Mcu == [queue : Rings, head : Slots, tail : Slots, kb_rpt : Entries,
        retry : Retries, interval : Intervals, sinceReport : Times,
        sinceRetry : Times, now : Times, awake : Spans, tx : Commands]

(***************************************************************************)
(* bluetooth.c: handing a report over.                                     *)
(***************************************************************************)

\* Seeded fault: an idle ring is bypassed although a report is still unanswered.
send_nkro_past_retry(b, r) ==
    IF report_buffer_is_empty(b) /\ report_buffer_next_inverval(b)
    THEN report_buffer_update_timer(transport_send(b, r))
    ELSE report_buffer_enqueue(b, r)

\* The NKRO path of bluetooth_send_keyboard: always through the ring.
send_nkro(b, r) ==
    LET firstBuffer == /\ report_buffer_is_empty(b)
                       /\ report_buffer_next_inverval(b)
                       /\ b.retry = 0
        q == report_buffer_enqueue(b, r)
    IN IF firstBuffer THEN report_buffer_task(report_buffer_set_retry(q, 0), TRUE) ELSE q

SendsDirectly(b) == report_buffer_is_empty(b) /\ report_buffer_next_inverval(b)

\* The other path, and bluetooth_send_consumer: past an idle ring, whatever retry.
send_direct(b, r) ==
    IF SendsDirectly(b)
    THEN report_buffer_update_timer(transport_send(b, r))
    ELSE report_buffer_enqueue(b, r)

bluetooth_send(b, r) == IF r.type = "NKRO" THEN send_nkro(b, r) ELSE send_direct(b, r)

\* The report finds no slot (the return value that the callers ignore).
Drops(b, r) == report_buffer_is_full(b) /\ ~(r.type # "NKRO" /\ SendsDirectly(b))

\* process_record_kb, then the report of the pressed or released key.  Without a
\* connection the report is not kept: it only makes the keyboard reconnect.
Key(kind, down) ==
    LET r == [type |-> kind, id |-> gen + 1, down |-> down]
        m == lpm_timer_reset(mcu)
    IN /\ gen < MaxReports
       /\ Len(mcu.tx) < TxRoom
       /\ gen' = gen + 1
       /\ held' = IF down THEN held \union {kind} ELSE held \ {kind}
       /\ IF bt_state = "CONNECTED"
          THEN /\ mcu' = bluetooth_send(m, r)
               /\ excused' = IF Drops(m, r) THEN excused \union {gen + 1} ELSE excused
               /\ burst' = burst + 1
               /\ dropped' = IF Drops(m, r) THEN gen + 1 ELSE dropped
               /\ UNCHANGED bt_state
          ELSE /\ IF m.now = 0
                  THEN mcu' = m /\ UNCHANGED bt_state
                  ELSE /\ mcu' = [m EXCEPT !.tx = Append(@, Connect)]
                       /\ bt_state' = "RECONNECTING"
               /\ excused' = excused \union {gen + 1}
               /\ UNCHANGED <<burst, dropped>>
       /\ UNCHANGED <<rx, linked, fifo, host, hostDown, got>>

(***************************************************************************)
(* bluetooth_task.  Each action below is one whole round of it, named for  *)
(* the packet ckbt51_task reads in that round.                             *)
(***************************************************************************)

\* Seeded fault: every answer is taken for success.
ack_handler_full_is_success(b, ack) ==
    report_buffer_set_inverval(report_buffer_set_retry(b, 0), DefaultInterval)

ack_handler(b, ack) ==
    CASE ack = "SUCCESS" ->
            report_buffer_set_inverval(report_buffer_set_retry(b, 0), DefaultInterval)
      [] ack = "HALF" ->
            report_buffer_set_inverval(report_buffer_set_retry(b, 0), DefaultInterval + HalfExtra)
      [] ack = "FULL" -> report_buffer_set_retry(b, FullRetry)
      [] OTHER -> b

\* report_buffer_task and lpm_task.  Whether the backlight is off, no key is
\* down, the battery was sampled and USB is unplugged is left open.  Waking
\* starts the UART afresh; the module sends an unread connection event again,
\* and SleepsAnswered says that no answer is unread.
EndRound(b, connected) ==
    LET m == report_buffer_task(b, connected)
    IN \/ mcu' = m
       \/ m.awake = 0 /\ \E stale \in {0, MaxTime} : mcu' = enter_power_mode(m, stale)

\* A burst ends with the round that leaves the ring empty; n reports are new.
EndBurst(n) ==
    burst' = IF report_buffer_is_empty(mcu') THEN 0 ELSE burst + n

Outside == <<linked, fifo, host, hostDown, got>>

RoundQuiet ==
    /\ rx = <<>>
    /\ Len(mcu.tx) < TxRoom
    /\ EndRound(mcu, bt_state = "CONNECTED")
    /\ EndBurst(0)
    /\ UNCHANGED <<rx, bt_state, held, gen, excused, dropped, Outside>>

RoundAck ==
    /\ rx # <<>> /\ Head(rx) \in Ack
    /\ Len(mcu.tx) < TxRoom
    /\ EndRound(ack_handler(mcu, Head(rx)), bt_state = "CONNECTED")
    /\ rx' = Tail(rx)
    /\ EndBurst(0)
    /\ UNCHANGED <<bt_state, held, gen, excused, dropped, Outside>>

\* bluetooth_enter_connected: the indicator lights up for longer than the low
\* power timer, and clear_keyboard sends an empty consumer and then an empty
\* keyboard report, each only if the last one was not empty.
RoundConnected ==
    LET Release(kind, id) == [type |-> kind, id |-> id, down |-> FALSE]
        m0 == lpm_timer_reset(mcu)
        n1 == IF "CONSUMER" \in held THEN gen + 1 ELSE gen
        m1 == IF "CONSUMER" \in held THEN bluetooth_send(m0, Release("CONSUMER", n1)) ELSE m0
        n2 == IF KbType \in held THEN n1 + 1 ELSE n1
        m2 == IF KbType \in held THEN bluetooth_send(m1, Release(KbType, n2)) ELSE m1
    IN /\ rx # <<>> /\ Head(rx) = "CONNECTED"
       /\ Len(mcu.tx) + 1 < TxRoom
       /\ n2 <= MaxReports
       /\ bt_state' = "CONNECTED"
       /\ gen' = n2
       /\ held' = {}
       /\ EndRound(m2, TRUE)
       /\ rx' = Tail(rx)
       /\ EndBurst(n2 - gen)
       /\ UNCHANGED <<excused, dropped, Outside>>

\* bluetooth_enter_disconnected: the reports still pending are discarded.
RoundDisconnected ==
    LET m == IF bt_state = "CONNECTED" THEN lpm_timer_reset(mcu) ELSE mcu
    IN /\ rx # <<>> /\ Head(rx) = "DISCONNECTED"
       /\ bt_state' = "DISCONNECTED"
       /\ EndRound(report_buffer_init(m), FALSE)
       /\ rx' = Tail(rx)
       /\ EndBurst(0)
       /\ excused' = excused \union Pending(mcu)
       /\ UNCHANGED <<held, gen, dropped, Outside>>

Round == RoundQuiet \/ RoundAck \/ RoundConnected \/ RoundDisconnected

(***************************************************************************)
(* The clock.  The module answers a report AckBound milliseconds after it  *)
(* was sent, at the latest.                                                *)
(***************************************************************************)
Outstanding == SeqIds(mcu.tx) # {} \/ \E i \in DOMAIN rx : rx[i] \in Ack

Tick ==
    /\ Outstanding => mcu.sinceReport < AckBound
    /\ mcu' = TimerTick(mcu)
    /\ UNCHANGED <<bt_state, held, rx, gen, excused, burst, dropped, Outside>>

(***************************************************************************)
(* The module (external), as ckbt51.c uses it.                             *)
(***************************************************************************)
TakeCommand == mcu' = [mcu EXCEPT !.tx = Tail(@)]

\* A report is accepted unless the FIFO is full; the answer says how full it is.
ModuleAccept ==
    /\ mcu.tx # <<>> /\ Head(mcu.tx) # Connect /\ linked
    /\ Len(fifo) < FifoSize
    /\ fifo' = Append(fifo, Head(mcu.tx))
    /\ rx' = Append(rx, IF 2 * (Len(fifo) + 1) > FifoSize THEN "HALF" ELSE "SUCCESS")
    /\ TakeCommand
    /\ UNCHANGED <<bt_state, held, linked, host, hostDown, got, gen, excused, burst, dropped>>

ModuleRefuse ==
    /\ mcu.tx # <<>> /\ Head(mcu.tx) # Connect /\ linked
    /\ \/ Len(fifo) = FifoSize /\ rx' = Append(rx, "FULL")
       \/ Noise /\ rx' = Append(rx, "ERROR")
    /\ TakeCommand
    /\ UNCHANGED <<bt_state, held, gen, excused, burst, dropped, Outside>>

\* Without a link a report is discarded; a connect command changes nothing when
\* there is a link, or other commands behind it.
ModuleDiscard ==
    /\ mcu.tx # <<>>
    /\ IF Head(mcu.tx) = Connect THEN linked \/ Len(mcu.tx) > 1 ELSE ~linked
    /\ excused' = excused \union Ids({Head(mcu.tx)})
    /\ TakeCommand
    /\ UNCHANGED <<bt_state, held, rx, gen, burst, dropped, Outside>>

\* A link comes up, or an attempt fails, long after the UART was drained.
ModuleLinkResult(event) ==
    /\ ~linked /\ rx = <<>>
    /\ \/ mcu.tx = <<Connect>> /\ TakeCommand
       \/ mcu.tx = <<>> /\ event = "CONNECTED" /\ UNCHANGED mcu
    /\ rx' = <<event>>
    /\ linked' = (event = "CONNECTED")
    /\ UNCHANGED <<bt_state, held, fifo, host, hostDown, got, gen, excused, burst, dropped>>

\* The link is lost: the FIFO is cleared and the host releases every key.
ModuleLinkLost ==
    /\ linked
    /\ linked' = FALSE
    /\ rx' = Append(rx, "DISCONNECTED")
    /\ excused' = excused \union SeqIds(fifo)
    /\ fifo' = <<>>
    /\ hostDown' = FALSE
    /\ UNCHANGED <<mcu, bt_state, held, host, got, gen, burst, dropped>>

HostReceive ==
    /\ fifo # <<>>
    /\ fifo' = Tail(fifo)
    /\ host' = Head(fifo).id
    /\ hostDown' = IF Head(fifo).type = "CONSUMER" THEN hostDown ELSE Head(fifo).down
    /\ got' = got \union {Head(fifo).id}
    /\ UNCHANGED <<mcu, bt_state, held, rx, linked, gen, excused, burst, dropped>>

Module == ModuleAccept \/ ModuleRefuse \/ ModuleDiscard

(***************************************************************************)
(* Boot: bt_transport_enable has sent a connect command.                   *)
(***************************************************************************)
Init ==
    /\ mcu = [queue |-> [i \in Slots |-> NoReport], head |-> 0, tail |-> 0,
              kb_rpt |-> NoReport, retry |-> 0, interval |-> DefaultInterval,
              sinceReport |-> 0, sinceRetry |-> 0, now |-> 0, awake |-> AwakeTime,
              tx |-> <<Connect>>]
    /\ bt_state = "RECONNECTING"
    /\ held = {}
    /\ rx = <<>>
    /\ linked = FALSE
    /\ fifo = <<>>
    /\ host = 0
    /\ hostDown = FALSE
    /\ got = {}
    /\ gen = 0
    /\ excused = {}
    /\ burst = 0
    /\ dropped = 0

Next ==
    \/ \E kind \in Kinds, down \in BOOLEAN : Key(kind, down)
    \/ Round
    \/ Tick
    \/ Module
    \/ \E event \in {"CONNECTED", "DISCONNECTED"} : ModuleLinkResult(event)
    \/ ModuleLinkLost
    \/ HostReceive

Spec == Init /\ [][Next]_vars

\* The main loop and the clock never stop; the module answers; the host polls.
FairSpec == Spec /\ WF_vars(Round) /\ WF_vars(Tick) /\ WF_vars(Module) /\ WF_vars(HostReceive)

(***************************************************************************)
(* Properties.                                                             *)
(***************************************************************************)

\* The types of the state; in particular both indices stay within the ring and
\* the retry counter within its two starting values.
TypeOK ==
    /\ mcu \in Mcu
    /\ bt_state \in {"CONNECTED", "DISCONNECTED", "RECONNECTING"}
    /\ held \subseteq Kinds
    /\ rx \in Seq(Ack \union {"CONNECTED", "DISCONNECTED"})
    /\ linked \in BOOLEAN
    /\ fifo \in Seq(Report)
    /\ host \in 0 .. MaxReports
    /\ hostDown \in BOOLEAN
    /\ got \subseteq 1 .. MaxReports
    /\ gen \in 0 .. MaxReports
    /\ excused \subseteq 1 .. MaxReports
    /\ burst \in Nat
    /\ dropped \in 0 .. MaxReports

\* The ring holds reports newer than the one being sent, oldest first.
RingOrdered(b, last) ==
    /\ b.kb_rpt.id <= last
    /\ \A i \in Occupied(b) : b.kb_rpt.id < b.queue[i].id /\ b.queue[i].id <= last
    /\ \A i, j \in Occupied(b) : Ahead(b, i) < Ahead(b, j) => b.queue[i].id < b.queue[j].id

\* Host, module and UART hold reports in the order they were made, none newer
\* than the one being sent.
WireOrdered(tx, kb, f, h) ==
    /\ h <= kb
    /\ \A i \in DOMAIN f : h <= f[i].id /\ f[i].id <= kb
    /\ \A i, j \in DOMAIN f : i < j => f[i].id <= f[j].id
    /\ \A j \in DOMAIN tx : tx[j] # Connect =>
          h <= tx[j].id /\ tx[j].id <= kb /\ \A i \in DOMAIN f : f[i].id <= tx[j].id
    /\ \A i, j \in DOMAIN tx :
          i < j /\ tx[i] # Connect /\ tx[j] # Connect => tx[i].id <= tx[j].id

\* Reports never overtake each other: what the host has is older than what the
\* module holds, that is older than what is on the UART, that is no newer than
\* the report being sent, and the ring holds newer ones still, oldest first.  A
\* report may arrive twice (it is sent again when its answer is late), never
\* after a newer one: an old report after a newer one would press a released
\* key again.
InOrder ==
    /\ RingOrdered(mcu, gen)
    /\ WireOrdered(mcu.tx, mcu.kb_rpt.id, fifo, host)

\* No report disappears: one that was handed over while connected is in the
\* ring, or is being sent and will be sent again, or is on its way in the UART
\* or the module, or has reached the host, unless it was given up by design (it
\* found the ring full, or the link was lost).  Sleeping in particular, which
\* empties the buffer, happens only when there is nothing in it.
NothingLost ==
    1 .. gen \subseteq got \union excused \union Pending(mcu) \union SeqIds(fifo) \union SeqIds(mcu.tx)

\* The keyboard sleeps only when no answer of the module is unread: its UART is
\* started afresh when it wakes up (a step back of the clock).
SleepsAnswered ==
    [][mcu'.now < mcu.now => \A i \in DOMAIN rx' : rx'[i] \notin Ack]_vars

\* Connected, and nothing on its way.
Settled ==
    /\ bt_state = "CONNECTED" /\ linked
    /\ rx = <<>> /\ fifo = <<>> /\ mcu.tx = <<>>
    /\ report_buffer_is_empty(mcu) /\ mcu.retry = 0

\* When everything has settled the host agrees with the keyboard on whether a
\* key is pressed, through lost links and reconnections: no key is stuck (unless
\* the last report found the ring full).
NoStuckKey ==
    Settled /\ dropped # gen => hostDown = (KbType \in held)

\* A macro whose reports number at most one less than the ring's size, started on
\* an idle buffer, loses nothing.
MacroFits == burst < QueueSize => dropped <= gen - burst

\* The comment at report_buffer.c:23-26: a macro may be as long as half the ring
\* size, two reports per character.
MacroPromise == burst <= QueueSize => dropped <= gen - burst

\* Every report reaches the host or is given up by design: again and again, all that
\* were made so far have.
Delivered == []<>(1 .. gen \subseteq got \union excused)
=============================================================================
