-------------------------------- MODULE Uart --------------------------------
(***************************************************************************)
(* The line from the Bluetooth module to the keyboard: ckbt51_task finds   *)
(* packets in the bytes of the serial driver, one step per main loop       *)
(* round, and ckbt51_event_handler acknowledges connection events, which   *)
(* the module sends again, twice at most, when it gets no acknowledgement. *)
(* Bytes are the real ones, so that a payload may look like a header.      *)
(*                                                                         *)
(* The module is external: it sends one connection event after another,    *)
(* with other packets in between, and takes an event for lost when the     *)
(* keyboard has nothing more to read and has not answered.  The keyboard   *)
(* takes any serial number, so any may be sent.                            *)
(***************************************************************************)
EXTENDS Integers, Sequences, FiniteSets, SequencesExt, FiniteSetsExt

CONSTANTS
    Connections,    \* connection events, as pairs <<status, host index>>
    Others,         \* payloads of the packets sent in between
    Serials,        \* serial numbers of packets
    Noise,          \* values that a byte may be garbled to
    Attempts,       \* 3: a connection event is sent once and retried twice
    MaxFaults,      \* bound: faults
    MaxEvents,      \* bound: connection events sent
    MaxOthers,      \* bound: other packets right behind one transmission of an event
    RxRoom          \* bound: bytes in the queue of the serial driver

Byte == 0..255
PACKECT_HEADER_LEN == 5
CKBT51_EVT_CONNECTION == 179
BufLen == 32
\* The serial driver queues so many bytes.
SERIAL_BUFFERS_SIZE == 128
\* CKBT51_CONNECTED .. CKBT51_EXIT_PINCODE_ENTRY
Statuses == 32..37

ASSUME BytesAssumption ==
    /\ Connections \subseteq Byte \X Byte
    /\ Others \subseteq Seq(Byte)
    /\ Noise \subseteq Byte /\ Serials \subseteq Byte
    /\ {Attempts, MaxFaults, MaxEvents, MaxOthers} \subseteq Nat
    /\ RxRoom \in 1..SERIAL_BUFFERS_SIZE

VARIABLES
    rx,                 \* the input queue of the serial driver
    wait_for_new_pkt, len,  \* static variables of ckbt51_task; sn takes no part here
    bt_events,          \* history: the events that were queued for bluetooth_task
    sent,               \* history: the connection events that the module has raised
    out,                \* bytes of the packet the module is sending
    tries,              \* how often it has sent the current event
    others,             \* other packets sent behind it
    acked,              \* the keyboard has acknowledged it
    faults,             \* faults so far
    misled              \* history: of a packet whose serial number is the length byte
                        \* itself, that byte was lost

parser == <<wait_for_new_pkt, len>>
keyboard == <<rx, parser, bt_events>>
vars == <<keyboard, sent, out, tries, others, acked, faults, misled>>

Sum(s) == FoldLeft(LAMBDA a, b : a + b, 0, s)

\* A packet of the module: header, length and its complement, serial number,
\* payload and the 16-bit sum of the payload.
Packet(n, data) ==
    <<170, 87, Len(data) + 2, 255 - (Len(data) + 2), n>> \o data
        \o <<Sum(data) % 256, Sum(data) \div 256>>

ConnectionPacket(n, e) == Packet(n, <<CKBT51_EVT_CONNECTION, e[1], 0, e[2]>>)
-----------------------------------------------------------------------------
(***************************************************************************)
(* ckbt51_task, on a record of the queue and the static variables.         *)
(***************************************************************************)
Drop(q, n) == SubSeq(q, n + 1, Len(q))

\* Mutant of ReadHeader: the length is not compared with its complement.
HeaderUnchecked(k) ==
    IF ~k.wait \/ Len(k.rx) < PACKECT_HEADER_LEN THEN k
    ELSE IF k.rx[1] # 170 THEN [k EXCEPT !.rx = Drop(@, 1)]
    ELSE IF k.rx[2] # 87 THEN [k EXCEPT !.rx = Drop(@, 2)]
    ELSE [rx |-> Drop(k.rx, 5), wait |-> FALSE, len |-> k.rx[3]]

\* Mutant of ReadHeader: a byte that begins no header is not taken from the queue.
HeaderPeeked(k) ==
    IF ~k.wait \/ Len(k.rx) < PACKECT_HEADER_LEN \/ k.rx[1] # 170 THEN k
    ELSE IF k.rx[2] # 87 THEN [k EXCEPT !.rx = Drop(@, 2)]
    ELSE IF 255 - k.rx[3] # k.rx[4] THEN [k EXCEPT !.rx = Drop(@, 5)]
    ELSE [rx |-> Drop(k.rx, 5), wait |-> FALSE, len |-> k.rx[3]]

\* The first part: a header is looked for, and skipped as far as it is none.
ReadHeader(k) ==
    IF ~k.wait \/ Len(k.rx) < PACKECT_HEADER_LEN THEN k
    ELSE IF k.rx[1] # 170 THEN [k EXCEPT !.rx = Drop(@, 1)]
    ELSE IF k.rx[2] # 87 THEN [k EXCEPT !.rx = Drop(@, 2)]
    ELSE IF 255 - k.rx[3] # k.rx[4] THEN [k EXCEPT !.rx = Drop(@, 5)]
    ELSE [rx |-> Drop(k.rx, 5), wait |-> FALSE, len |-> k.rx[3]]

\* The checksum test.
Valid(buf) ==
    LET sum == Sum(SubSeq(buf, 1, Len(buf) - 2))
    IN  Len(buf) >= 2 /\ buf[Len(buf) - 1] = sum % 256 /\ buf[Len(buf)] = (sum \div 256) % 256

\* Mutant of ckbt51_event_handler: the host index is taken from the byte before it.
HandlerWrongByte(buf) ==
    LET byte(i) == IF i <= Len(buf) THEN buf[i] ELSE 0
    IN  IF byte(1) = CKBT51_EVT_CONNECTION
        THEN /\ acked' = TRUE
             /\ bt_events' = IF byte(2) \in Statuses THEN Append(bt_events, <<byte(2), byte(3)>>)
                                                     ELSE bt_events
        ELSE UNCHANGED <<acked, bt_events>>

\* ckbt51_event_handler: a connection event is acknowledged, and queued when its
\* status is a known one.  The other events do not take part in this exchange.
ckbt51_event_handler(buf) ==
    LET byte(i) == IF i <= Len(buf) THEN buf[i] ELSE 0    \* buf[32] = {0}
    IN  IF byte(1) = CKBT51_EVT_CONNECTION
        THEN /\ acked' = TRUE
             /\ bt_events' = IF byte(2) \in Statuses THEN Append(bt_events, <<byte(2), byte(4)>>)
                                                     ELSE bt_events
        ELSE UNCHANGED <<acked, bt_events>>

\* Mutant of ckbt51_task: a damaged packet is given up byte by byte only when it
\* does not parse, and the parser goes on waiting for its payload.
TaskStaysInPayload ==
    LET h == ReadHeader([rx |-> rx, wait |-> wait_for_new_pkt, len |-> len])
        full == ~h.wait /\ Len(h.rx) >= h.len
        buf == SubSeq(h.rx, 1, h.len)
    IN  /\ rx' = IF full THEN Drop(h.rx, h.len) ELSE h.rx
        /\ wait_for_new_pkt' = (h.wait \/ (full /\ Valid(buf)))
        /\ len' = h.len
        /\ IF full /\ Valid(buf) THEN ckbt51_event_handler(buf)
                                 ELSE UNCHANGED <<acked, bt_events>>
        /\ UNCHANGED <<sent, out, tries, others, faults, misled>>

\* A call: header and, when it is complete, payload.
ckbt51_task ==
    LET h == ReadHeader([rx |-> rx, wait |-> wait_for_new_pkt, len |-> len])
        full == ~h.wait /\ Len(h.rx) >= h.len
        buf == SubSeq(h.rx, 1, h.len)
    IN  /\ rx' = IF full THEN Drop(h.rx, h.len) ELSE h.rx
        /\ wait_for_new_pkt' = (h.wait \/ full)
        /\ len' = h.len
        /\ IF full /\ Valid(buf) THEN ckbt51_event_handler(buf)
                                 ELSE UNCHANGED <<acked, bt_events>>
        /\ UNCHANGED <<sent, out, tries, others, faults, misled>>

\* The call would do nothing.
Idle ==
    IF wait_for_new_pkt THEN Len(rx) < PACKECT_HEADER_LEN ELSE Len(rx) < len

\* Waking up from low power mode initialises the serial driver again; what the
\* parser was waiting for is not reset.
ckbt51_init ==
    /\ faults < MaxFaults
    /\ faults' = faults + 1
    /\ rx' = <<>>
    /\ UNCHANGED <<parser, bt_events, sent, out, tries, others, acked, misled>>
-----------------------------------------------------------------------------
(***************************************************************************)
(* The module and the line.                                                *)
(***************************************************************************)
\* A byte arrives; or it is lost or garbled.
ByteArrives ==
    /\ out # <<>> /\ Len(rx) < RxRoom
    /\ rx' = Append(rx, Head(out))
    /\ out' = Tail(out)
    /\ UNCHANGED <<parser, bt_events, sent, tries, others, acked, faults, misled>>

ByteDamaged ==
    /\ out # <<>> /\ Len(rx) < RxRoom /\ faults < MaxFaults
    /\ faults' = faults + 1
    /\ out' = Tail(out)
    /\ \/ /\ UNCHANGED rx
          /\ misled' = (misled \/ (Len(out) > 2 /\ out[1] + out[2] = 255 /\ out[1] = out[3]))
       \/ /\ \E b \in Noise \ {Head(out)} : rx' = Append(rx, b)
          /\ UNCHANGED misled
    /\ UNCHANGED <<parser, bt_events, sent, tries, others, acked>>

\* The acknowledgement is lost on its way to the module.
AckLost ==
    /\ acked /\ faults < MaxFaults
    /\ acked' = FALSE /\ faults' = faults + 1
    /\ UNCHANGED <<keyboard, sent, out, tries, others, misled>>

\* The module is not waiting for the answer to an event.
Free == sent = <<>> \/ acked \/ tries = Attempts

\* The module sends nothing at the moment, and the keyboard has read everything
\* that it can.
Quiet == out = <<>> /\ Idle

Raise(e, n) ==
    /\ Quiet /\ Free /\ Len(sent) < MaxEvents
    /\ sent' = Append(sent, e)
    /\ out' = ConnectionPacket(n, e)
    /\ tries' = 1 /\ others' = 0 /\ acked' = FALSE
    /\ UNCHANGED <<keyboard, faults, misled>>

Retry ==
    /\ Quiet /\ ~Free
    /\ \E n \in Serials : out' = ConnectionPacket(n, Last(sent))
    /\ tries' = tries + 1 /\ others' = 0
    /\ UNCHANGED <<keyboard, sent, acked, faults, misled>>

\* Another packet, right behind the one being sent.
SendOther(data, n) ==
    /\ out # <<>> /\ Len(out) < PACKECT_HEADER_LEN /\ others < MaxOthers
    /\ others' = others + 1
    /\ out' = out \o Packet(n, data)
    /\ UNCHANGED <<keyboard, sent, tries, acked, faults, misled>>

Init ==
    /\ rx = <<>> /\ wait_for_new_pkt = TRUE /\ len = 255 /\ bt_events = <<>>
    /\ sent = <<>> /\ out = <<>> /\ tries = 0 /\ others = 0 /\ acked = FALSE
    /\ faults = 0 /\ misled = FALSE

Next ==
    \/ ckbt51_task
    \/ ckbt51_init
    \/ ByteArrives \/ ByteDamaged \/ AckLost
    \/ \E e \in Connections, n \in Serials : Raise(e, n)
    \/ Retry
    \/ \E data \in Others, n \in Serials : SendOther(data, n)

\* The main loop keeps running, and the module keeps sending.
Fairness ==
    /\ WF_vars(ckbt51_task)
    /\ WF_vars(ByteArrives)
    /\ WF_vars(Retry)

Spec == Init /\ [][Next]_vars /\ Fairness
-----------------------------------------------------------------------------
(***************************************************************************)
(* Properties.                                                             *)
(***************************************************************************)
\* "Check wheather len is valid" (ckbt51_task), as it is meant: the length of a packet
\* that is being read leaves room for the checksum and fits in buf[32].  The code does
\* not keep it: when the length byte of AA 57 06 F9 06 is lost, AA 57 F9 06 passes.
PacketFits == ~wait_for_new_pkt => len \in 2..BufLen

\* The types of the variables; buf[32] of ckbt51_task never overflows, although a length
\* beyond it may be accepted: only when a length byte was lost right before an equal
\* serial number, and then it is more than the queue of the serial driver holds.
TypeOK ==
    /\ rx \in Seq(Byte) /\ Len(rx) <= RxRoom
    /\ wait_for_new_pkt \in BOOLEAN /\ len \in Byte
    /\ PacketFits \/ (misled /\ len > SERIAL_BUFFERS_SIZE)
    /\ bt_events \in Seq(Byte \X Byte) /\ sent \in Seq(Connections)
    /\ out \in Seq(Byte) /\ misled \in BOOLEAN
    /\ tries \in 0..Attempts /\ others \in 0..MaxOthers /\ acked \in BOOLEAN /\ faults \in 0..MaxFaults

\* Only events that the module has raised are handled, in the order in which it
\* raised them: however bytes are lost or garbled, no other event is made up from
\* what is left, and no event is handled after a later one.
EventsInOrder ==
    \E raised \in [DOMAIN bt_events -> DOMAIN sent] :
        \A i, j \in DOMAIN bt_events :
            bt_events[i] = sent[raised[i]] /\ (i <= j => raised[i] <= raised[j])

\* "Bluetooth module will retry 2 times if no ack received": that is enough.  When
\* the module is through with an event during which one byte was lost or garbled,
\* or the serial driver was restarted, or an acknowledgement was lost, the keyboard
\* has handled the event, although a single fault may destroy two packets.  The one
\* exception is a length byte lost right before an equal serial number: the parser then
\* waits for more bytes than the serial driver queues, and no event is handled any more.
RetriesSuffice ==
    Quiet /\ Free /\ sent # <<>> /\ ~misled =>
        bt_events # <<>> /\ Last(bt_events) = Last(sent)

\* Every event gets through while the main loop runs and the module retries, but for
\* the same exception: otherwise the parser does not wait for ever for the rest of a
\* packet that will not come, which only the bytes of a retry can make up for.
EventsHandled ==
    \A n \in 1..MaxEvents :
        Len(sent) = n ~>
            \/ Len(sent) >= n /\ bt_events # <<>> /\ Last(bt_events) = sent[n] /\ Quiet
            \/ misled
=============================================================================
