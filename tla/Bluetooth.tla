------------------------------ MODULE Bluetooth ------------------------------
(***************************************************************************)
(* The connection manager of the keyboard: bluetooth.c (state machine and  *)
(* event handlers), transport.c (the USB/Bluetooth switch), the host keys  *)
(* and the pairing timer of k3_pro.c, and the connection commands and      *)
(* events of ckbt51.c.                                                     *)
(*                                                                         *)
(* The firmware is one record k, and its functions are operators from one  *)
(* such record to the next; the fields keep the names of the code.         *)
(*   transport, driver   transport.c, host.c                               *)
(*   bt_state, host_index, pincodeEntry   bluetooth.c                      *)
(*   nkro                keymap_config.nkro; nkroBt and nkroUsb are the    *)
(*                       two members of the nkro_t of transport.c          *)
(*   held                kinds whose last report was not empty             *)
(*   ring, due           the report buffer as a FIFO, and whether the      *)
(*                       report interval has passed (ReportBuffer has the  *)
(*                       ring, the timers, the retries and low power mode) *)
(*   wire                commands on the UART, not yet taken by the module *)
(*   usbDown             kinds the USB host believes pressed               *)
(*   firstDisconnect, host_idx, armed     k3_pro.c and its pairing timer   *)
(*   critical            battery_is_critical_low()                         *)
(* The module and the Bluetooth hosts are external.                        *)
(***************************************************************************)
EXTENDS Integers, Sequences, FiniteSets

CONSTANTS
    Hosts,      \* host indices, 1 .. HOST_DEVICES_COUNT
    Kinds,      \* kinds of reports: "KB", "CONSUMER"
    Nkro,       \* the NKRO setting in the EEPROM
    RingRoom,   \* bound: a handler starts with at most this many reports in the ring
    WireRoom,   \* bound: and with at most this many commands or events on the UART
    Chances     \* bound: switch flips, host keys, link changes, resets

ASSUME HostAssumption == IsFiniteSet(Hosts) /\ Hosts \subseteq Nat \ {0} /\ Hosts # {}
ASSUME KindAssumption == "KB" \in Kinds /\ Kinds \subseteq {"KB", "CONSUMER"}
ASSUME ModeAssumption == Nkro \in BOOLEAN
ASSUME RoomAssumption == RingRoom \in Nat /\ WireRoom \in Nat /\ Chances \in Nat

VARIABLES
    k,         \* the firmware
    hostKey,   \* a host key (BT_HST1..3) is UP, DOWN or being RELEASED
    rx,        \* events of the module, not yet read
    link,      \* the host the module is linked to, 0 for none
    target,    \* the host it tries to reach
    pairing,   \* the host slot it is discoverable for
    pin,       \* "ENTRY": it waits for a PIN; "OVER": it did; "NEVER"
    last,      \* the host that index 0 stands for in a command
    hostDown,  \* per Bluetooth host: the kinds it believes pressed
    left       \* chances left

vars == <<k, hostKey, rx, link, target, pairing, pin, last, hostDown, left>>

States == {"RESET", "INITIALIZED", "CONNECTED", "DISCONNECTED", "PARING", "RECONNECTING"}

HostIndex == Hosts \union {0}

Command(type, h) == [type |-> type, host |-> h, kind |-> "NONE", down |-> FALSE]

ReportTo(h, kind, down) == [type |-> "REPORT", host |-> h, kind |-> kind, down |-> down]

Reports == [type : {"REPORT"}, host : HostIndex, kind : Kinds, down : BOOLEAN]

Commands == [type : {"CONNECT", "PAIR", "DISCONNECT"}, host : HostIndex,
             kind : {"NONE"}, down : {FALSE}]

Firmware == [transport : {"USB", "BT"}, driver : {"USB", "BT"}, bt_state : States,
             host_index : HostIndex, pincodeEntry : BOOLEAN, nkro : BOOLEAN,
             nkroBt : BOOLEAN, nkroUsb : BOOLEAN, held : SUBSET Kinds,
             ring : Seq(Reports), due : BOOLEAN, wire : Seq(Reports \union Commands),
             usbDown : SUBSET Kinds, firstDisconnect : BOOLEAN, host_idx : HostIndex,
             armed : BOOLEAN, critical : BOOLEAN]

Event(type, h) == [type |-> type, host |-> h]

Events == [type : {"RESET", "CONNECTED", "DISCOVERABLE", "RECONNECTING", "DISCONNECTED",
                   "PINCODE_ENTRY", "EXIT_PINCODE_ENTRY"}, host : HostIndex]

Write(f, cmd) == [f EXCEPT !.wire = Append(@, cmd)]

(***************************************************************************)
(* bluetooth.c: commands to the module.  zero says whether                 *)
(* sync_timer_read32() is 0, which it is right after waking up.            *)
(***************************************************************************)

\* Seeded fault: the battery is not looked at.
bluetooth_connect_unguarded(f, zero) ==
    IF zero THEN f ELSE [Write(f, Command("CONNECT", 0)) EXCEPT !.bt_state = "RECONNECTING"]

bluetooth_connect(f, zero) ==
    IF f.critical \/ zero
    THEN f
    ELSE [Write(f, Command("CONNECT", 0)) EXCEPT !.bt_state = "RECONNECTING"]

\* Seeded fault: the connected host is connected again.
bluetooth_connect_ex_again(f, h) ==
    IF f.critical
    THEN f
    ELSE [Write(f, Command("CONNECT", h)) EXCEPT !.bt_state = "RECONNECTING", !.host_index = h]

bluetooth_connect_ex(f, h) ==
    IF f.critical \/ (f.host_index = h /\ f.bt_state = "CONNECTED")
    THEN f
    ELSE [Write(f, Command("CONNECT", h)) EXCEPT !.bt_state = "RECONNECTING", !.host_index = h]

bluetooth_pairing_ex(f, h) ==
    IF f.critical
    THEN f
    ELSE [Write(f, Command("PAIR", h)) EXCEPT !.bt_state = "PARING", !.host_index = h]

bluetooth_disconnect(f) == Write(f, Command("DISCONNECT", 0))

(***************************************************************************)
(* bluetooth.c: reports.                                                   *)
(***************************************************************************)
report_buffer_init(f) == [f EXCEPT !.ring = <<>>, !.due = FALSE]

report_buffer_task(f) ==
    IF f.bt_state = "CONNECTED" /\ f.ring # <<>> /\ f.due
    THEN [Write(f, Head(f.ring)) EXCEPT !.ring = Tail(@), !.due = FALSE]
    ELSE f

\* Past an empty ring, or into the ring.
send_or_enqueue(f, r) ==
    IF f.ring = <<>> /\ f.due
    THEN [Write(f, r) EXCEPT !.due = FALSE]
    ELSE [f EXCEPT !.ring = Append(@, r)]

\* NKRO reports take the ring even when they can leave at once.
bluetooth_send_keyboard(f, down, zero) ==
    LET paired == f.bt_state = "CONNECTED"
        r == ReportTo(IF paired THEN f.host_index ELSE 0, "KB", down)
        q == [f EXCEPT !.ring = Append(@, r)]
    IN IF f.bt_state = "PARING" /\ ~f.pincodeEntry THEN f
       ELSE IF paired \/ f.bt_state = "PARING"
       THEN IF ~f.nkro THEN send_or_enqueue(f, r)
            ELSE IF f.ring = <<>> /\ f.due THEN report_buffer_task(q)
            ELSE q
       ELSE IF f.bt_state # "RESET" THEN bluetooth_connect(f, zero)
       ELSE f

bluetooth_send_consumer(f, down, zero) ==
    IF f.bt_state = "CONNECTED" THEN send_or_enqueue(f, ReportTo(f.host_index, "CONSUMER", down))
    ELSE IF f.bt_state # "RESET" THEN bluetooth_connect(f, zero)
    ELSE f

\* host_keyboard_send and host_consumer_send, to the driver in charge.
host_send(f, kind, down, zero) ==
    IF f.driver = "USB"
    THEN [f EXCEPT !.usbDown = IF down THEN @ \union {kind} ELSE @ \ {kind}]
    ELSE IF kind = "KB" THEN bluetooth_send_keyboard(f, down, zero)
    ELSE bluetooth_send_consumer(f, down, zero)

\* Only a report that differs from the last one is sent.
Release(f, kind, zero) ==
    IF kind \in f.held
    THEN host_send([f EXCEPT !.held = @ \ {kind}], kind, FALSE, zero)
    ELSE f

clear_keyboard(f, zero) == Release(Release(f, "CONSUMER", zero), "KB", zero)

(***************************************************************************)
(* bluetooth.c: event handlers.                                            *)
(***************************************************************************)
bluetooth_enter_reset(f) == [f EXCEPT !.bt_state = "RESET"]

bluetooth_enter_discoverable(f) == [f EXCEPT !.bt_state = "PARING"]

bluetooth_enter_reconnecting(f) == [f EXCEPT !.bt_state = "RECONNECTING"]

bluetooth_enter_connected(f, h, zero) ==
    LET c == clear_keyboard([f EXCEPT !.bt_state = "CONNECTED", !.host_index = h], zero)
    IN [c EXCEPT !.nkro = c.nkroBt]

\* k3_pro.c: early says whether sync_timer_read32() is below one second.
bluetooth_enter_disconnected_kb(f, early, zero) ==
    IF f.firstDisconnect /\ early /\ f.transport = "BT"
    THEN [bluetooth_connect(f, zero) EXCEPT !.firstDisconnect = FALSE]
    ELSE f

\* Seeded fault: the ring is emptied only when it was in use, so that the reports for
\* the old host stay in it when the connection is ended for another host.
bluetooth_enter_disconnected_keeps_ring(f, early, zero) ==
    LET g == [f EXCEPT !.bt_state = "DISCONNECTED"]
    IN bluetooth_enter_disconnected_kb(
           IF f.bt_state = "CONNECTED" THEN report_buffer_init(g) ELSE g, early, zero)

bluetooth_enter_disconnected(f, early, zero) ==
    bluetooth_enter_disconnected_kb(
        report_buffer_init([f EXCEPT !.bt_state = "DISCONNECTED"]), early, zero)

bluetooth_enter_pin_code_entry(f) == [f EXCEPT !.nkro = FALSE, !.pincodeEntry = TRUE]

bluetooth_exit_pin_code_entry(f) == [f EXCEPT !.nkro = TRUE, !.pincodeEntry = FALSE]

bluetooth_event_queue_task(f, e, early, zero) ==
    CASE e.type = "RESET" -> bluetooth_enter_reset(f)
      [] e.type = "CONNECTED" -> bluetooth_enter_connected(f, e.host, zero)
      [] e.type = "DISCOVERABLE" -> bluetooth_enter_discoverable(f)
      [] e.type = "RECONNECTING" -> bluetooth_enter_reconnecting(f)
      [] e.type = "DISCONNECTED" -> bluetooth_enter_disconnected(f, early, zero)
      [] e.type = "PINCODE_ENTRY" -> bluetooth_enter_pin_code_entry(f)
      [] OTHER -> bluetooth_exit_pin_code_entry(f)

(***************************************************************************)
(* transport.c.                                                            *)
(***************************************************************************)
bt_transport_enable(f, enable, zero) ==
    IF enable
    THEN IF f.driver = "BT" THEN f
         ELSE bluetooth_connect(bluetooth_disconnect([f EXCEPT !.driver = "BT"]), zero)
    ELSE IF f.bt_state = "CONNECTED" THEN bluetooth_send_keyboard(f, FALSE, zero)
    ELSE f

usb_transport_enable(f, enable) ==
    IF enable THEN [f EXCEPT !.driver = "USB"] ELSE [f EXCEPT !.usbDown = @ \ {"KB"}]

\* Seeded fault: the keys are released after the driver was changed.
set_transport_clears_late(f, new, zero) ==
    LET g == [f EXCEPT !.transport = new]
        u == clear_keyboard(bt_transport_enable(usb_transport_enable(g, TRUE), FALSE, zero), zero)
        b == clear_keyboard(usb_transport_enable(bt_transport_enable(g, TRUE, zero), FALSE), zero)
    IN IF new = "USB"
       THEN [u EXCEPT !.nkroBt = u.nkro, !.nkro = u.nkroUsb]
       ELSE [b EXCEPT !.nkroUsb = b.nkro, !.nkro = b.nkroBt]

set_transport(f, new, zero) ==
    LET g == clear_keyboard([f EXCEPT !.transport = new], zero)
        u == bt_transport_enable(usb_transport_enable(g, TRUE), FALSE, zero)
        b == usb_transport_enable(bt_transport_enable(g, TRUE, zero), FALSE)
    IN IF new = "USB"
       THEN [u EXCEPT !.nkroBt = u.nkro, !.nkro = u.nkroUsb]
       ELSE [b EXCEPT !.nkroUsb = b.nkro, !.nkro = b.nkroBt]

(***************************************************************************)
(* battery.c.  low: the voltage has been below the limit for long enough;  *)
(* usb: the cable is plugged in.                                           *)
(***************************************************************************)
battery_task(f, low, usb) ==
    LET g == IF low /\ f.transport = "BT" /\ f.bt_state = "CONNECTED" /\ ~f.critical
             THEN [bluetooth_disconnect(f) EXCEPT !.critical = TRUE]
             ELSE f
    IN IF usb THEN [g EXCEPT !.critical = FALSE] ELSE g

(***************************************************************************)
(* The main loop.                                                          *)
(***************************************************************************)
CanRun == hostKey # "RELEASED" /\ Len(k.wire) <= WireRoom

Spend(n) == left >= n /\ left' = left - n

Module == <<rx, link, target, pairing, pin, last, hostDown>>

\* bluetooth_tasks: the mode switch (flip: it was moved), one event, the ring,
\* the battery.
Round(flip) ==
    \E zero, early, low, usb \in BOOLEAN :
        LET other == IF k.transport = "USB" THEN "BT" ELSE "USB"
            f == IF flip THEN set_transport(k, other, zero) ELSE k
            g == IF rx = <<>> THEN f ELSE bluetooth_event_queue_task(f, Head(rx), early, zero)
        IN /\ CanRun
           /\ flip => Len(k.ring) <= RingRoom
           /\ zero => early
           /\ low => ~usb
           /\ k' = battery_task(report_buffer_task(g), low, usb)
           /\ rx' = IF rx = <<>> THEN rx ELSE Tail(rx)
           /\ Spend(Cardinality({x \in {1, 2} : (x = 1 /\ flip) \/ (x = 2 /\ low)}))
           /\ UNCHANGED <<hostKey, link, target, pairing, pin, last, hostDown>>

\* A key changes the keyboard report or the consumer report.
Key(kind) ==
    \E zero \in BOOLEAN :
        LET down == kind \notin k.held
            f == [k EXCEPT !.held = IF down THEN @ \union {kind} ELSE @ \ {kind}]
        IN /\ CanRun /\ Len(rx) <= WireRoom /\ Len(k.ring) <= RingRoom
           /\ k' = host_send(f, kind, down, zero)
           /\ UNCHANGED <<hostKey, left, Module>>

\* process_record_kb_bt, BT_HST1 ... BT_HST3: holding the key for two seconds
\* starts pairing.
HostKeyPress(h) ==
    /\ CanRun /\ Len(rx) <= WireRoom /\ hostKey = "UP" /\ k.transport = "BT"
    /\ hostKey' = "DOWN"
    /\ k' = bluetooth_connect_ex([k EXCEPT !.host_idx = h, !.armed = TRUE], h)
    /\ Spend(1)
    /\ UNCHANGED Module

\* The release takes two steps, between which the timer may expire.
HostKeyRelease ==
    /\ hostKey = "DOWN"
    /\ IF k.transport = "BT"
       THEN hostKey' = "RELEASED" /\ k' = [k EXCEPT !.host_idx = 0]
       ELSE hostKey' = "UP" /\ UNCHANGED k
    /\ UNCHANGED <<left, Module>>

HostKeyTimerReset ==
    /\ hostKey = "RELEASED"
    /\ hostKey' = "UP"
    /\ k' = [k EXCEPT !.armed = FALSE]
    /\ UNCHANGED <<left, Module>>

\* The callback of the virtual timer, in interrupt context.
pairing_key_timer_cb ==
    /\ k.armed /\ Len(k.wire) <= WireRoom
    /\ k' = bluetooth_pairing_ex([k EXCEPT !.armed = FALSE], k.host_idx)
    /\ UNCHANGED <<hostKey, left, Module>>

\* The report interval passes.
Elapse ==
    /\ ~k.due
    /\ k' = [k EXCEPT !.due = TRUE]
    /\ UNCHANGED <<hostKey, left, Module>>

(***************************************************************************)
(* The module (external), as ckbt51.c and bluetooth.c use it.              *)
(***************************************************************************)
TakeCommand == k.wire # <<>> /\ k' = [k EXCEPT !.wire = Tail(@)]

PinOver == IF pin = "ENTRY" THEN "OVER" ELSE pin

\* The host of a lost link releases every key.
Unlink ==
    /\ link' = 0 /\ pin' = PinOver
    /\ hostDown' = [h \in Hosts |-> IF h = link THEN {} ELSE hostDown[h]]

Farewell ==
    (IF pin = "ENTRY" THEN <<Event("EXIT_PINCODE_ENTRY", 0)>> ELSE <<>>) \o
    (IF link # 0 THEN <<Event("DISCONNECTED", link)>> ELSE <<>>)

ModuleReport ==
    /\ TakeCommand /\ Head(k.wire).type = "REPORT"
    /\ hostDown' = [h \in Hosts |->
          IF h # link THEN hostDown[h]
          ELSE IF Head(k.wire).down THEN hostDown[h] \union {Head(k.wire).kind}
          ELSE hostDown[h] \ {Head(k.wire).kind}]
    /\ UNCHANGED <<hostKey, rx, link, target, pairing, pin, last, left>>

\* Connecting or pairing ends the current link first; connecting to the host
\* that is linked changes nothing.
ModuleSeek ==
    LET cmd == Head(k.wire)
        h == IF cmd.host = 0 THEN last ELSE cmd.host
    IN /\ TakeCommand /\ cmd.type \in {"CONNECT", "PAIR"}
       /\ last' = h
       /\ IF cmd.type = "CONNECT" /\ h = link
          THEN UNCHANGED <<rx, link, target, pairing, pin, hostDown>>
          ELSE /\ Unlink
               /\ target' = IF cmd.type = "CONNECT" THEN h ELSE 0
               /\ pairing' = IF cmd.type = "PAIR" THEN h ELSE 0
               /\ rx' = rx \o Farewell \o
                     <<Event(IF cmd.type = "PAIR" THEN "DISCOVERABLE" ELSE "RECONNECTING", h)>>
       /\ UNCHANGED <<hostKey, left>>

ModuleStop ==
    /\ TakeCommand /\ Head(k.wire).type = "DISCONNECT"
    /\ Unlink /\ target' = 0 /\ pairing' = 0
    /\ rx' = rx \o Farewell \o (IF link = 0 THEN <<Event("DISCONNECTED", last)>> ELSE <<>>)
    /\ UNCHANGED <<hostKey, last, left>>

\* A link takes far longer to come up than the UART to drain.
ModuleLinkUp(h) ==
    /\ link = 0 /\ pin # "ENTRY" /\ rx = <<>>
    /\ \A i \in DOMAIN k.wire : k.wire[i].type # "REPORT"
    /\ h = target \/ h = pairing \/ (target = 0 /\ pairing = 0 /\ h = last)
    /\ link' = h /\ target' = 0 /\ pairing' = 0 /\ last' = h
    /\ rx' = <<Event("CONNECTED", h)>>
    /\ Spend(1)
    /\ UNCHANGED <<k, hostKey, pin, hostDown>>

\* The link is lost, an attempt fails, pairing times out.
ModuleGivesUp ==
    LET h == IF link # 0 THEN link ELSE IF target # 0 THEN target ELSE pairing
    IN /\ h # 0 /\ Len(rx) <= WireRoom
       /\ Unlink /\ target' = 0 /\ pairing' = 0
       /\ rx' = rx \o (IF pin = "ENTRY" THEN <<Event("EXIT_PINCODE_ENTRY", 0)>> ELSE <<>>) \o
                 <<Event("DISCONNECTED", h)>>
       /\ Spend(1)
       /\ UNCHANGED <<k, hostKey, last>>

ModulePin ==
    /\ pairing # 0 /\ Len(rx) <= WireRoom
    /\ pin' = IF pin = "ENTRY" THEN "OVER" ELSE "ENTRY"
    /\ rx' = Append(rx, Event(IF pin = "ENTRY" THEN "EXIT_PINCODE_ENTRY" ELSE "PINCODE_ENTRY", 0))
    /\ IF pin = "ENTRY" THEN UNCHANGED left ELSE Spend(1)
    /\ UNCHANGED <<k, hostKey, link, target, pairing, last, hostDown>>

\* The module restarts, and says so before it says that it is disconnected.
ModuleReset ==
    /\ Len(rx) <= WireRoom
    /\ Unlink /\ target' = 0 /\ pairing' = 0
    /\ rx' = rx \o <<Event("RESET", 0), Event("DISCONNECTED", last)>>
    /\ Spend(1)
    /\ UNCHANGED <<k, hostKey, last>>

Init ==
    /\ k = [transport |-> "USB", driver |-> "USB", bt_state |-> "INITIALIZED",
            host_index |-> 0, pincodeEntry |-> FALSE, nkro |-> Nkro, nkroBt |-> Nkro,
            nkroUsb |-> FALSE, held |-> {}, ring |-> <<>>, due |-> FALSE, wire |-> <<>>,
            usbDown |-> {}, firstDisconnect |-> TRUE, host_idx |-> 0, armed |-> FALSE,
            critical |-> FALSE]
    /\ hostKey = "UP"
    /\ last \in Hosts
    /\ rx = <<Event("DISCONNECTED", last)>>
    /\ link = 0 /\ target = 0 /\ pairing = 0 /\ pin = "NEVER"
    /\ hostDown = [h \in Hosts |-> {}]
    /\ left = Chances

Next ==
    \/ \E flip \in BOOLEAN : Round(flip)
    \/ \E kind \in Kinds : Key(kind)
    \/ \E h \in Hosts : HostKeyPress(h)
    \/ HostKeyRelease
    \/ HostKeyTimerReset
    \/ pairing_key_timer_cb
    \/ Elapse
    \/ ModuleReport
    \/ ModuleSeek
    \/ ModuleStop
    \/ \E h \in Hosts : ModuleLinkUp(h)
    \/ ModuleGivesUp
    \/ ModulePin
    \/ ModuleReset

Spec == Init /\ [][Next]_vars

(***************************************************************************)
(* Properties.                                                             *)
(***************************************************************************)

\* The types of the firmware record and of the module's state; the driver in
\* charge is always the one of the selected transport.
TypeOK ==
    /\ k \in Firmware /\ k.driver = k.transport
    /\ hostKey \in {"UP", "DOWN", "RELEASED"}
    /\ rx \in Seq(Events)
    /\ {link, target, pairing} \subseteq HostIndex /\ last \in Hosts
    /\ pin \in {"NEVER", "ENTRY", "OVER"}
    /\ hostDown \in [Hosts -> SUBSET Kinds]
    /\ left \in 0 .. Chances

\* When nothing is under way on the UART the firmware's idea of the connection
\* is the module's: connected, and to which host, connecting, or discoverable.
\* A connected keyboard that believes it is not would reconnect for ever.
Agreement ==
    rx = <<>> /\ k.wire = <<>> =>
        /\ k.bt_state = "CONNECTED" <=> link # 0
        /\ link # 0 => k.host_index = link
        /\ target # 0 => k.bt_state = "RECONNECTING"
        /\ pairing # 0 => k.bt_state = "PARING"

\* What was typed for one host never reaches another one, although reports wait
\* in the ring across a change of host.  (Digits of a PIN are for no host, 0.)
RightHost ==
    k.wire # <<>> /\ Head(k.wire).type = "REPORT" /\ link # 0 => Head(k.wire).host \in {0, link}

\* Nothing is on its way.
Settled == rx = <<>> /\ k.wire = <<>> /\ k.ring = <<>>

\* When everything has settled the host in charge (USB or Bluetooth) agrees with
\* the keyboard on what is pressed, and no other host believes anything is:
\* moving the mode switch or changing hosts with a key down leaves no key stuck.
\* As long as no PIN was asked for: a digit that waits in the ring until the link is
\* up is typed into the host, and its release is dropped when PIN entry ends
\* before it.
KeysReleased ==
    Settled /\ pin = "NEVER" =>
        /\ k.usbDown = IF k.transport = "USB" THEN k.held ELSE {}
        /\ \A h \in Hosts : hostDown[h] = IF k.transport = "BT" /\ h = link THEN k.held ELSE {}

Seeks(f) == Cardinality({i \in DOMAIN f.wire : f.wire[i].type \in {"CONNECT", "PAIR"}})

\* With a critically low battery no step of any part (keys, the mode switch, an
\* event, the pairing timer) asks the module to connect or to pair.
BatteryGuard == [][k.critical /\ k'.critical => Seeks(k') <= Seeks(k)]_vars

\* bluetooth.c:210, "Enable NKRO since it may be disabled in pin code entry": a
\* connected keyboard in Bluetooth mode has the NKRO setting of its EEPROM.
NkroRestored == k.bt_state = "CONNECTED" /\ k.transport = "BT" => k.nkro = Nkro
=============================================================================
