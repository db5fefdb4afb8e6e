--------------------------- MODULE BluetoothProofs ---------------------------
(***************************************************************************)
(* Proofs about the connection manager, for every number of hosts and      *)
(* every bound on the ring, the UART and the number of events.             *)
(*                                                                         *)
(* The functions of the firmware are operators on its record, so the proof *)
(* has two layers: what a function does to the record, from any record     *)
(* that satisfies the invariant, whatever the module is doing (Env), and   *)
(* what the module's steps do to the invariant.                            *)
(***************************************************************************)
EXTENDS Bluetooth, FiniteSetTheorems, SequenceTheorems, TLAPS

(***************************************************************************)
(* What a function does to the record.                                     *)
(***************************************************************************)

\* All fields that the properties speak of, but the state, the ring and the UART.
Frame(f, t) ==
    /\ t.transport = f.transport /\ t.driver = f.driver
    /\ t.host_index = f.host_index /\ t.pincodeEntry = f.pincodeEntry
    /\ t.held = f.held /\ t.usbDown = f.usbDown /\ t.critical = f.critical

\* Report r is sent past an empty ring, or put into the ring.
Adds(f, t, r) ==
    /\ Frame(f, t) /\ t.bt_state = f.bt_state
    /\ \/ f.ring = <<>> /\ t.ring = <<>> /\ t.wire = Append(f.wire, r)
       \/ t.ring = Append(f.ring, r) /\ t.wire = f.wire

Reconnects(f, t) ==
    /\ Frame(f, t) /\ ~f.critical
    /\ t.bt_state = "RECONNECTING" /\ t.ring = f.ring
    /\ t.wire = Append(f.wire, Command("CONNECT", 0))

\* A report handed to Bluetooth is sent or kept; for no host while a PIN is
\* entered; and is not kept without a connection.
Sends(f, t, kind, down) ==
    \/ f.bt_state = "CONNECTED" /\ Adds(f, t, ReportTo(f.host_index, kind, down))
    \/ f.bt_state = "PARING" /\ f.pincodeEntry /\ Adds(f, t, ReportTo(0, kind, down))
    \/ f.bt_state # "CONNECTED" /\ (t = f \/ Reconnects(f, t))

LEMMA ReportType ==
    ASSUME NEW h \in HostIndex, NEW kind \in Kinds, NEW down \in BOOLEAN
    PROVE  /\ ReportTo(h, kind, down) \in Reports
           /\ ReportTo(h, kind, down).type = "REPORT" /\ ReportTo(h, kind, down).host = h
           /\ ReportTo(h, kind, down).kind = kind /\ ReportTo(h, kind, down).down = down
  BY DEF ReportTo, Reports

LEMMA CommandType ==
    ASSUME NEW type \in {"CONNECT", "PAIR", "DISCONNECT"}, NEW h \in HostIndex
    PROVE  /\ Command(type, h) \in Commands
           /\ Command(type, h).type = type /\ Command(type, h).host = h
  BY DEF Command, Commands

LEMMA WriteEffect ==
    ASSUME NEW f \in Firmware, NEW c \in Reports \union Commands
    PROVE  /\ Write(f, c) \in Firmware /\ Frame(f, Write(f, c))
           /\ Write(f, c).bt_state = f.bt_state /\ Write(f, c).ring = f.ring
           /\ Write(f, c).wire = Append(f.wire, c)
    <1>1. Append(f.wire, c) \in Seq(Reports \union Commands)
      BY DEF Firmware
    <1> QED
      BY <1>1 DEF Firmware, Write, Frame

LEMMA ConnectEffect ==
    ASSUME NEW f \in Firmware, NEW zero \in BOOLEAN, NEW t, t = bluetooth_connect(f, zero)
    PROVE  t \in Firmware /\ (t = f \/ Reconnects(f, t))
    <1> DEFINE c == Command("CONNECT", 0)
               w == Write(f, c)
    <1>1. c \in Reports \union Commands
      BY CommandType DEF HostIndex
    <1> HIDE DEF c
    <1>2. /\ w \in Firmware /\ Frame(f, w) /\ w.ring = f.ring /\ w.wire = Append(f.wire, c)
      BY <1>1, WriteEffect
    <1>3. t = f \/ (~f.critical /\ t = [w EXCEPT !.bt_state = "RECONNECTING"])
      BY DEF bluetooth_connect, c
    <1> HIDE DEF w
    <1>4. ASSUME t = [w EXCEPT !.bt_state = "RECONNECTING"]
          PROVE  /\ t \in Firmware /\ Frame(w, t) /\ t.ring = w.ring /\ t.wire = w.wire
                 /\ t.bt_state = "RECONNECTING"
      BY <1>2, <1>4 DEF Firmware, Frame, States
    <1> QED
      BY <1>2, <1>3, <1>4 DEF Reconnects, Frame, c

LEMMA EnqueueEffect ==
    ASSUME NEW f \in Firmware, NEW r \in Reports,
           NEW t, t = [f EXCEPT !.ring = Append(@, r)]
    PROVE  /\ t \in Firmware /\ Adds(f, t, r)
           /\ t.ring = Append(f.ring, r) /\ t.wire = f.wire /\ t.due = f.due
    <1>1. Append(f.ring, r) \in Seq(Reports)
      BY DEF Firmware
    <1> QED
      BY <1>1 DEF Firmware, Adds, Frame

LEMMA DirectEffect ==
    ASSUME NEW f \in Firmware, NEW r \in Reports, NEW t, t = send_or_enqueue(f, r)
    PROVE  t \in Firmware /\ Adds(f, t, r)
    <1> DEFINE w == Write(f, r)
    <1>1. /\ w \in Firmware /\ Frame(f, w) /\ w.bt_state = f.bt_state /\ w.ring = f.ring
          /\ w.wire = Append(f.wire, r)
      BY WriteEffect
    <1>2. \/ f.ring = <<>> /\ t = [w EXCEPT !.due = FALSE]
          \/ t = [f EXCEPT !.ring = Append(@, r)]
      BY DEF send_or_enqueue
    <1> HIDE DEF w
    <1>3. ASSUME t = [w EXCEPT !.due = FALSE]
          PROVE  /\ t \in Firmware /\ Frame(w, t) /\ t.ring = w.ring /\ t.wire = w.wire
                 /\ t.bt_state = w.bt_state
      BY <1>1, <1>3 DEF Firmware, Frame
    <1>4. ASSUME t = [f EXCEPT !.ring = Append(@, r)]
          PROVE  t \in Firmware /\ Adds(f, t, r)
      BY <1>4, EnqueueEffect
    <1> QED
      BY <1>1, <1>2, <1>3, <1>4 DEF Adds, Frame

\* report_buffer_task moves the first report of the ring to the UART, or does nothing.
Moves(f, t) ==
    /\ Frame(f, t) /\ t.bt_state = f.bt_state
    /\ f.bt_state = "CONNECTED" /\ f.ring # <<>>
    /\ t.ring = Tail(f.ring) /\ t.wire = Append(f.wire, Head(f.ring))

LEMMA TaskEffect ==
    ASSUME NEW f \in Firmware, NEW t, t = report_buffer_task(f)
    PROVE  /\ t \in Firmware
           /\ \/ t = f /\ ~(f.bt_state = "CONNECTED" /\ f.ring # <<>> /\ f.due)
              \/ Moves(f, t)
    <1> DEFINE w == Write(f, Head(f.ring))
    <1>1. ASSUME f.ring # <<>>
          PROVE  /\ w \in Firmware /\ Frame(f, w) /\ w.bt_state = f.bt_state /\ w.ring = f.ring
                 /\ w.wire = Append(f.wire, Head(f.ring))
      <2>1. f.ring \in Seq(Reports)
        BY DEF Firmware
      <2>2. Head(f.ring) \in Reports \union Commands
        BY <1>1, <2>1
      <2> QED
        BY <2>2, WriteEffect
    <1>2. \/ t = f /\ ~(f.bt_state = "CONNECTED" /\ f.ring # <<>> /\ f.due)
          \/ /\ f.bt_state = "CONNECTED" /\ f.ring # <<>>
             /\ t = [w EXCEPT !.ring = Tail(@), !.due = FALSE]
      BY DEF report_buffer_task
    <1> HIDE DEF w
    <1>3. ASSUME f.ring # <<>>, t = [w EXCEPT !.ring = Tail(@), !.due = FALSE]
          PROVE  /\ t \in Firmware /\ Frame(w, t) /\ t.ring = Tail(w.ring) /\ t.wire = w.wire
                 /\ t.bt_state = w.bt_state
      <2>1. w \in Firmware /\ w.ring # <<>>
        BY <1>1, <1>3
      <2>2. Tail(w.ring) \in Seq(Reports)
        BY <2>1 DEF Firmware
      <2> QED
        BY <1>3, <2>1, <2>2 DEF Firmware, Frame
    <1> QED
      BY <1>1, <1>2, <1>3 DEF Moves, Frame

LEMMA KeyboardSends ==
    ASSUME NEW f \in Firmware, NEW down \in BOOLEAN, NEW zero \in BOOLEAN,
           NEW t, t = bluetooth_send_keyboard(f, down, zero)
    PROVE  t \in Firmware /\ Sends(f, t, "KB", down)
    <1> DEFINE h == IF f.bt_state = "CONNECTED" THEN f.host_index ELSE 0
               r == ReportTo(h, "KB", down)
               q == [f EXCEPT !.ring = Append(@, r)]
    <1>1. h \in HostIndex
      BY DEF Firmware, HostIndex
    <1>2. r \in Reports
      BY <1>1, KindAssumption, ReportType
    <1>3. /\ f.bt_state = "CONNECTED" => r = ReportTo(f.host_index, "KB", down)
          /\ f.bt_state # "CONNECTED" => r = ReportTo(0, "KB", down)
      OBVIOUS
    <1>4. \/ /\ f.bt_state = "CONNECTED" \/ (f.bt_state = "PARING" /\ f.pincodeEntry)
             /\ \/ t = send_or_enqueue(f, r)
                \/ t = q
                \/ f.ring = <<>> /\ f.due /\ t = report_buffer_task(q)
          \/ f.bt_state # "CONNECTED" /\ (t = f \/ t = bluetooth_connect(f, zero))
      BY DEF bluetooth_send_keyboard
    <1> HIDE DEF r
    <1>5. /\ q \in Firmware /\ Adds(f, q, r)
          /\ q.ring = Append(f.ring, r) /\ q.wire = f.wire /\ q.due = f.due
      BY <1>2, EnqueueEffect
    <1> HIDE DEF q
    <1>6. ASSUME f.ring = <<>>, t = report_buffer_task(q)
          PROVE  t \in Firmware /\ Adds(f, t, r)
      <2>1. t \in Firmware /\ (t = q \/ Moves(q, t))
        BY <1>5, <1>6, TaskEffect
      <2>2. q.ring = <<r>>
        BY <1>5, <1>6
      <2>3. Head(q.ring) = r /\ Tail(q.ring) = <<>>
        BY <2>2
      <2> QED
        BY <1>5, <1>6, <2>1, <2>3 DEF Moves, Adds, Frame
    <1>7. ASSUME t = send_or_enqueue(f, r)
          PROVE  t \in Firmware /\ Adds(f, t, r)
      BY <1>2, <1>7, DirectEffect
    <1>8. ASSUME t = bluetooth_connect(f, zero)
          PROVE  t \in Firmware /\ (t = f \/ Reconnects(f, t))
      BY <1>8, ConnectEffect
    <1> QED
      BY <1>3, <1>4, <1>5, <1>6, <1>7, <1>8 DEF Sends

LEMMA ConsumerSends ==
    ASSUME NEW f \in Firmware, NEW down \in BOOLEAN, NEW zero \in BOOLEAN, "CONSUMER" \in Kinds,
           NEW t, t = bluetooth_send_consumer(f, down, zero)
    PROVE  t \in Firmware /\ Sends(f, t, "CONSUMER", down)
    <1> DEFINE r == ReportTo(f.host_index, "CONSUMER", down)
    <1>1. r \in Reports
      BY ReportType DEF Firmware
    <1>2. \/ f.bt_state = "CONNECTED" /\ t = send_or_enqueue(f, r)
          \/ f.bt_state # "CONNECTED" /\ (t = f \/ t = bluetooth_connect(f, zero))
      BY DEF bluetooth_send_consumer
    <1>3. ASSUME t = send_or_enqueue(f, r)
          PROVE  t \in Firmware /\ Adds(f, t, r)
      BY <1>1, <1>3, DirectEffect
    <1>4. ASSUME t = bluetooth_connect(f, zero)
          PROVE  t \in Firmware /\ (t = f \/ Reconnects(f, t))
      BY <1>4, ConnectEffect
    <1> QED
      BY <1>2, <1>3, <1>4 DEF Sends

(***************************************************************************)
(* Sequences of commands and reports.                                      *)
(***************************************************************************)
Of(x, kind) == x.type = "REPORT" /\ x.kind = kind

None(s, kind) == \A i \in DOMAIN s : ~Of(s[i], kind)

\* The last report of this kind in s presses it.
LastDown(s, kind) ==
    \E i \in DOMAIN s : /\ Of(s[i], kind) /\ s[i].down = TRUE
                        /\ \A j \in DOMAIN s : j > i => ~Of(s[j], kind)

\* When all of the ring and then the wire has arrived at a host that believes the
\* kinds in base are pressed, it believes that kind is.
Final(ring, wire, base, kind) ==
    \/ LastDown(ring, kind)
    \/ /\ None(ring, kind)
       /\ LastDown(wire, kind) \/ (None(wire, kind) /\ kind \in base)

LEMMA AppendFacts ==
    ASSUME NEW X, NEW s \in Seq(X), NEW r, NEW t, t = Append(s, r)
    PROVE  /\ Len(s) \in Nat /\ DOMAIN s = 1 .. Len(s) /\ DOMAIN t = 1 .. Len(s) + 1
           /\ \A i \in 1 .. Len(s) : t[i] = s[i]
           /\ t[Len(s) + 1] = r
  OBVIOUS

LEMMA TailFacts ==
    ASSUME NEW X, NEW s \in Seq(X), s # <<>>, NEW t, t = Tail(s)
    PROVE  /\ Len(s) \in Nat /\ Len(s) > 0 /\ DOMAIN s = 1 .. Len(s)
           /\ DOMAIN t = 1 .. Len(s) - 1
           /\ \A i \in 1 .. Len(s) - 1 : t[i] = s[i + 1]
           /\ Head(s) = s[1] /\ t \in Seq(X)
  OBVIOUS

LEMMA AppendReports ==
    ASSUME NEW X, NEW s \in Seq(X), NEW r, NEW t, t = Append(s, r), NEW kind
    PROVE  /\ None(t, kind) <=> None(s, kind) /\ ~Of(r, kind)
           /\ Of(r, kind) => (LastDown(t, kind) <=> r.down = TRUE)
           /\ ~Of(r, kind) => (LastDown(t, kind) <=> LastDown(s, kind))
    <1> DEFINE n == Len(s)
    <1>1. /\ n \in Nat /\ DOMAIN s = 1 .. n /\ DOMAIN t = 1 .. n + 1
          /\ \A i \in 1 .. n : t[i] = s[i]
          /\ t[n + 1] = r
      BY AppendFacts
    <1> HIDE DEF n
    <1>2. None(t, kind) <=> None(s, kind) /\ ~Of(r, kind)
      BY <1>1 DEF None
    <1>3. ASSUME Of(r, kind)
          PROVE  LastDown(t, kind) <=> r.down = TRUE
      <2>1. n + 1 \in DOMAIN t /\ \A i \in DOMAIN t : i # n + 1 => n + 1 > i
        BY <1>1
      <2>2. ASSUME r.down = TRUE
            PROVE  LastDown(t, kind)
        <3>1. \A j \in DOMAIN t : ~(j > n + 1)
          BY <1>1
        <3> QED
          BY <1>1, <1>3, <2>1, <2>2, <3>1 DEF LastDown
      <2>3. ASSUME LastDown(t, kind)
            PROVE  r.down = TRUE
        BY <1>1, <1>3, <2>1, <2>3 DEF LastDown
      <2> QED
        BY <2>2, <2>3
    <1>4. ASSUME ~Of(r, kind)
          PROVE  LastDown(t, kind) <=> LastDown(s, kind)
      <2>1. \A i \in DOMAIN t : Of(t[i], kind) => i \in DOMAIN s
        BY <1>1, <1>4
      <2>2. ASSUME LastDown(t, kind)
            PROVE  LastDown(s, kind)
        BY <1>1, <2>1, <2>2 DEF LastDown
      <2>3. ASSUME LastDown(s, kind)
            PROVE  LastDown(t, kind)
        BY <1>1, <2>1, <2>3 DEF LastDown
      <2> QED
        BY <2>2, <2>3
    <1> QED
      BY <1>2, <1>3, <1>4

LEMMA TailReports ==
    ASSUME NEW X, NEW s \in Seq(X), s # <<>>, NEW t, t = Tail(s), NEW kind
    PROVE  /\ None(s, kind) <=> ~Of(Head(s), kind) /\ None(t, kind)
           /\ LastDown(s, kind) <=> \/ LastDown(t, kind)
                                    \/ /\ None(t, kind) /\ Of(Head(s), kind)
                                       /\ Head(s).down = TRUE
    <1> DEFINE n == Len(s)
    <1>1. /\ n \in Nat /\ n > 0 /\ DOMAIN s = 1 .. n /\ DOMAIN t = 1 .. n - 1
          /\ \A i \in 1 .. n - 1 : t[i] = s[i + 1]
          /\ Head(s) = s[1]
      BY TailFacts
    <1> HIDE DEF n
    <1>2. /\ \A i \in DOMAIN t : i + 1 \in DOMAIN s /\ t[i] = s[i + 1] /\ i + 1 > 1
          /\ \A i \in DOMAIN s : i = 1 \/ (i - 1 \in DOMAIN t /\ t[i - 1] = s[i])
          /\ 1 \in DOMAIN s
      BY <1>1
    <1>3. None(s, kind) <=> ~Of(Head(s), kind) /\ None(t, kind)
      BY <1>1, <1>2 DEF None
    <1>4. ASSUME LastDown(s, kind), ~LastDown(t, kind)
          PROVE  None(t, kind) /\ Of(Head(s), kind) /\ Head(s).down = TRUE
      <2>1. PICK i \in DOMAIN s : /\ Of(s[i], kind) /\ s[i].down = TRUE
                                  /\ \A j \in DOMAIN s : j > i => ~Of(s[j], kind)
        BY <1>4 DEF LastDown
      <2>2. ASSUME i # 1
            PROVE  FALSE
        <3>1. i - 1 \in DOMAIN t /\ t[i - 1] = s[i]
          BY <1>2, <2>2
        <3>2. \A j \in DOMAIN t : j > i - 1 => ~Of(t[j], kind)
          BY <1>1, <1>2, <2>1
        <3>3. LastDown(t, kind)
          BY <2>1, <3>1, <3>2 DEF LastDown
        <3> QED
          BY <1>4, <3>3
      <2>3. None(t, kind)
        BY <1>2, <2>1, <2>2 DEF None
      <2> QED
        BY <1>1, <2>1, <2>2, <2>3
    <1>5. ASSUME LastDown(t, kind)
          PROVE  LastDown(s, kind)
      <2>1. PICK i \in DOMAIN t : /\ Of(t[i], kind) /\ t[i].down = TRUE
                                  /\ \A j \in DOMAIN t : j > i => ~Of(t[j], kind)
        BY <1>5 DEF LastDown
      <2>2. ASSUME NEW j \in DOMAIN s, j > i + 1
            PROVE  ~Of(s[j], kind)
        <3>1. i \in Nat /\ j \in Nat /\ j # 1 /\ j - 1 > i
          BY <1>1, <2>2
        <3>2. j - 1 \in DOMAIN t /\ t[j - 1] = s[j]
          BY <1>2, <3>1
        <3> QED
          BY <2>1, <3>1, <3>2
      <2> QED
        BY <1>2, <2>1, <2>2 DEF LastDown
    <1>6. ASSUME None(t, kind), Of(Head(s), kind), Head(s).down = TRUE
          PROVE  LastDown(s, kind)
      <2>1. ASSUME NEW j \in DOMAIN s, j > 1
            PROVE  ~Of(s[j], kind)
        <3>1. j - 1 \in DOMAIN t /\ t[j - 1] = s[j]
          BY <1>2, <2>1
        <3> QED
          BY <1>6, <3>1 DEF None
      <2> QED
        BY <1>1, <1>2, <1>6, <2>1 DEF LastDown
    <1> QED
      BY <1>3, <1>4, <1>5, <1>6

LEMMA EmptyReports ==
    ASSUME NEW kind
    PROVE  None(<<>>, kind) /\ ~LastDown(<<>>, kind)
  BY DEF None, LastDown

\* A new report of a kind decides what the host will believe, and nothing else.
LEMMA FinalAdds ==
    ASSUME NEW f \in Firmware, NEW t, NEW r \in Reports, Adds(f, t, r), NEW base, NEW kind
    PROVE  /\ r.kind = kind => (Final(t.ring, t.wire, base, kind) <=> r.down = TRUE)
           /\ r.kind # kind =>
                 (Final(t.ring, t.wire, base, kind) <=> Final(f.ring, f.wire, base, kind))
    <1>1. Of(r, kind) <=> r.kind = kind
      BY DEF Of, Reports
    <1>2. f.ring \in Seq(Reports) /\ f.wire \in Seq(Reports \union Commands)
      BY DEF Firmware
    <1>3. CASE f.ring = <<>> /\ t.ring = <<>> /\ t.wire = Append(f.wire, r)
      <2>1. /\ None(t.wire, kind) <=> None(f.wire, kind) /\ ~Of(r, kind)
            /\ Of(r, kind) => (LastDown(t.wire, kind) <=> r.down = TRUE)
            /\ ~Of(r, kind) => (LastDown(t.wire, kind) <=> LastDown(f.wire, kind))
        BY <1>2, <1>3, AppendReports
      <2>2. /\ None(f.ring, kind) /\ ~LastDown(f.ring, kind)
            /\ None(t.ring, kind) /\ ~LastDown(t.ring, kind)
        BY <1>3, EmptyReports
      <2> QED
        BY <1>1, <2>1, <2>2 DEF Final
    <1>4. CASE t.ring = Append(f.ring, r) /\ t.wire = f.wire
      <2>1. /\ None(t.ring, kind) <=> None(f.ring, kind) /\ ~Of(r, kind)
            /\ Of(r, kind) => (LastDown(t.ring, kind) <=> r.down = TRUE)
            /\ ~Of(r, kind) => (LastDown(t.ring, kind) <=> LastDown(f.ring, kind))
        BY <1>2, <1>4, AppendReports
      <2> QED
        BY <1>1, <1>4, <2>1 DEF Final
    <1> QED
      BY <1>3, <1>4 DEF Adds

LEMMA FinalMoves ==
    ASSUME NEW f \in Firmware, NEW t, Moves(f, t), NEW base, NEW kind
    PROVE  Final(t.ring, t.wire, base, kind) <=> Final(f.ring, f.wire, base, kind)
    <1> DEFINE r == Head(f.ring)
    <1>1. f.ring \in Seq(Reports) /\ f.wire \in Seq(Reports \union Commands) /\ f.ring # <<>>
      BY DEF Firmware, Moves
    <1>2. t.ring = Tail(f.ring) /\ t.wire = Append(f.wire, r)
      BY DEF Moves
    <1>3. /\ None(f.ring, kind) <=> ~Of(r, kind) /\ None(t.ring, kind)
          /\ LastDown(f.ring, kind) <=> \/ LastDown(t.ring, kind)
                                        \/ /\ None(t.ring, kind) /\ Of(r, kind) /\ r.down = TRUE
      BY <1>1, <1>2, TailReports
    <1>4. /\ None(t.wire, kind) <=> None(f.wire, kind) /\ ~Of(r, kind)
          /\ Of(r, kind) => (LastDown(t.wire, kind) <=> r.down = TRUE)
          /\ ~Of(r, kind) => (LastDown(t.wire, kind) <=> LastDown(f.wire, kind))
      BY <1>1, <1>2, AppendReports
    <1> HIDE DEF r
    <1> QED
      BY <1>3, <1>4 DEF Final

(***************************************************************************)
(* The invariant, as a predicate of the firmware's record f and of what    *)
(* its surroundings are doing, e.                                          *)
(***************************************************************************)
Env == [rx |-> rx, link |-> link, target |-> target, pairing |-> pairing, pin |-> pin,
        hostDown |-> hostDown]

Envs == [rx : Seq(Events), link : HostIndex, target : HostIndex, pairing : HostIndex,
         pin : {"NEVER", "ENTRY", "OVER"}, hostDown : [Hosts -> SUBSET Kinds]]

\* Events that say what the connection is.
Status(x) == x.type \in {"CONNECTED", "DISCOVERABLE", "RECONNECTING", "DISCONNECTED"}

Pending(q) == \E i \in DOMAIN q : Status(q[i])

Fresh(q) == \E i \in DOMAIN q : q[i].type = "CONNECTED"

Cut(q) == \E i \in DOMAIN q : q[i].type = "DISCONNECTED"

\* Commands that leave a link to host l as it is: the module answers none of them.
QuietCommand(c, l) == c.type = "REPORT" \/ (l # 0 /\ c.type = "CONNECT" /\ c.host \in {0, l})

Quiet(w, l) == \A i \in DOMAIN w : QuietCommand(w[i], l)

For(s, l) == \A i \in DOMAIN s : s[i].type = "REPORT" => s[i].host \in {0, l}

ForNone(s) == \A i \in DOMAIN s : s[i].host = 0

ForSome(s) == \A i \in DOMAIN s : s[i].host # 0

NoReports(s) == \A i \in DOMAIN s : s[i].type # "REPORT"

\* Reports are for the host of the link; without a link, and unless the firmware
\* has yet to read that it was lost, there are none.
Right(f, e) ==
    /\ f.bt_state = "CONNECTED" => f.host_index \in Hosts /\ ~Fresh(e.rx)
    /\ e.link # 0 =>
          /\ f.bt_state = "CONNECTED" => f.host_index = e.link
          /\ For(f.ring, e.link) /\ For(f.wire, e.link)
    /\ e.link = 0 /\ ~Cut(e.rx) => f.bt_state # "CONNECTED" /\ ForNone(f.ring)

\* Unless an event is unread, or a command under way that will cause one, the
\* firmware's state is the module's.
Agree(f, e) ==
    ~Pending(e.rx) /\ Quiet(f.wire, e.link) =>
        /\ f.bt_state = "CONNECTED" <=> e.link # 0
        /\ e.target # 0 => f.bt_state = "RECONNECTING"
        /\ e.pairing # 0 => f.bt_state = "PARING"

\* The USB host believes what the keyboard holds, as long as it is in charge.
Usb(f) == f.usbDown = IF f.driver = "USB" THEN f.held ELSE {}

\* As long as no PIN was asked for: a link the firmware has not heard of yet has
\* seen no report, and its host believes nothing pressed; a link that is up and is
\* not being ended leads its host to the kinds in D.
Keys(f, e, D) ==
    e.pin = "NEVER" =>
        /\ f.pincodeEntry = FALSE /\ ForSome(f.ring)
        /\ e.link # 0 /\ Pending(e.rx) =>
              f.bt_state # "CONNECTED" /\ f.ring = <<>> /\ NoReports(f.wire)
              /\ e.hostDown[e.link] = {}
        /\ e.link # 0 /\ ~Pending(e.rx) /\ Quiet(f.wire, e.link) =>
              \A kind \in Kinds : Final(f.ring, f.wire, e.hostDown[e.link], kind) <=> kind \in D

Safe(f, e, D) == f \in Firmware /\ Right(f, e) /\ Agree(f, e) /\ Usb(f) /\ Keys(f, e, D)

\* What the Bluetooth host should believe pressed.
Believed(f) == IF f.driver = "BT" THEN f.held ELSE {}

(***************************************************************************)
(* A report is added, and a command written.                               *)
(***************************************************************************)
LEMMA AppendHosts ==
    ASSUME NEW X, NEW s \in Seq(X), NEW r, NEW t, t = Append(s, r), NEW l
    PROVE  /\ For(t, l) <=> For(s, l) /\ (r.type = "REPORT" => r.host \in {0, l})
           /\ ForNone(t) <=> ForNone(s) /\ r.host = 0
           /\ ForSome(t) <=> ForSome(s) /\ r.host # 0
           /\ NoReports(t) <=> NoReports(s) /\ r.type # "REPORT"
           /\ Quiet(t, l) <=> Quiet(s, l) /\ QuietCommand(r, l)
    <1> DEFINE n == Len(s)
    <1>1. /\ n \in Nat /\ DOMAIN s = 1 .. n /\ DOMAIN t = 1 .. n + 1
          /\ \A i \in 1 .. n : t[i] = s[i]
          /\ t[n + 1] = r
      BY AppendFacts
    <1> HIDE DEF n
    <1>2. /\ \A i \in DOMAIN s : i \in DOMAIN t /\ t[i] = s[i]
          /\ \A i \in DOMAIN t : t[i] = r \/ (i \in DOMAIN s /\ t[i] = s[i])
          /\ \E i \in DOMAIN t : t[i] = r
      BY <1>1
    <1>3. For(t, l) <=> For(s, l) /\ (r.type = "REPORT" => r.host \in {0, l})
      BY <1>2 DEF For
    <1>4. /\ ForNone(t) <=> ForNone(s) /\ r.host = 0
          /\ ForSome(t) <=> ForSome(s) /\ r.host # 0
      BY <1>2 DEF ForNone, ForSome
    <1>5. NoReports(t) <=> NoReports(s) /\ r.type # "REPORT"
      BY <1>2 DEF NoReports
    <1>6. Quiet(t, l) <=> Quiet(s, l) /\ QuietCommand(r, l)
      BY <1>2 DEF Quiet
    <1> QED
      BY <1>3, <1>4, <1>5, <1>6

LEMMA TailHosts ==
    ASSUME NEW X, NEW s \in Seq(X), s # <<>>, NEW t, t = Tail(s), NEW l
    PROVE  /\ For(s, l) => For(t, l)
           /\ ForNone(s) => ForNone(t) /\ Head(s).host = 0
           /\ ForSome(s) => ForSome(t) /\ Head(s).host # 0
           /\ NoReports(s) => NoReports(t) /\ Head(s).type # "REPORT"
           /\ For(s, l) /\ Head(s).type = "REPORT" => Head(s).host \in {0, l}
           /\ Quiet(s, l) <=> Quiet(t, l) /\ QuietCommand(Head(s), l)
    <1> DEFINE n == Len(s)
    <1>1. /\ n \in Nat /\ n > 0 /\ DOMAIN s = 1 .. n /\ DOMAIN t = 1 .. n - 1
          /\ \A i \in 1 .. n - 1 : t[i] = s[i + 1]
          /\ Head(s) = s[1]
      BY TailFacts
    <1> HIDE DEF n
    <1>2. /\ \A i \in DOMAIN t : \E j \in DOMAIN s : t[i] = s[j]
          /\ \A i \in DOMAIN s : s[i] = Head(s) \/ \E j \in DOMAIN t : t[j] = s[i]
          /\ 1 \in DOMAIN s
      <2>1. \A i \in DOMAIN t : i + 1 \in DOMAIN s /\ t[i] = s[i + 1]
        BY <1>1
      <2>2. \A i \in DOMAIN s : i = 1 \/ (i - 1 \in DOMAIN t /\ t[i - 1] = s[i])
        BY <1>1
      <2>3. \A i \in DOMAIN t : \E j \in DOMAIN s : t[i] = s[j]
        BY <2>1
      <2>4. ASSUME NEW i \in DOMAIN s, s[i] # Head(s)
            PROVE  \E j \in DOMAIN t : t[j] = s[i]
        <3>1. i # 1
          BY <1>1, <2>4
        <3> QED
          BY <2>2, <3>1
      <2>5. 1 \in DOMAIN s
        BY <1>1
      <2> QED
        BY <2>3, <2>4, <2>5
    <1>3. /\ For(s, l) => For(t, l)
          /\ For(s, l) /\ Head(s).type = "REPORT" => Head(s).host \in {0, l}
      BY <1>1, <1>2 DEF For
    <1>4. /\ ForNone(s) => ForNone(t) /\ Head(s).host = 0
          /\ ForSome(s) => ForSome(t) /\ Head(s).host # 0
      BY <1>1, <1>2 DEF ForNone, ForSome
    <1>5. NoReports(s) => NoReports(t) /\ Head(s).type # "REPORT"
      BY <1>1, <1>2 DEF NoReports
    <1>6. Quiet(s, l) <=> Quiet(t, l) /\ QuietCommand(Head(s), l)
      BY <1>1, <1>2 DEF Quiet
    <1> QED
      BY <1>3, <1>4, <1>5, <1>6

LEMMA AddsSafe ==
    ASSUME NEW f \in Firmware, NEW t \in Firmware, NEW e, NEW D, NEW r \in Reports,
           Right(f, e), Agree(f, e), Adds(f, t, r),
           e.link # 0 => r.host \in {0, e.link},
           e.link = 0 /\ ~Cut(e.rx) => r.host = 0
    PROVE  /\ Right(t, e) /\ Agree(t, e)
           /\ \A l : Quiet(t.wire, l) <=> Quiet(f.wire, l)
           /\ ForSome(f.ring) /\ r.host # 0 => ForSome(t.ring)
    <1>1. f.ring \in Seq(Reports) /\ f.wire \in Seq(Reports \union Commands)
      BY DEF Firmware
    <1>2. r.type = "REPORT" /\ \A l : QuietCommand(r, l)
      BY DEF Reports, QuietCommand
    <1>3. CASE f.ring = <<>> /\ t.ring = <<>> /\ t.wire = Append(f.wire, r)
      <2>1. ASSUME NEW l
            PROVE  /\ For(t.wire, l) <=> For(f.wire, l) /\ r.host \in {0, l}
                   /\ Quiet(t.wire, l) <=> Quiet(f.wire, l)
        <3>1. /\ For(t.wire, l) <=> For(f.wire, l) /\ (r.type = "REPORT" => r.host \in {0, l})
              /\ Quiet(t.wire, l) <=> Quiet(f.wire, l) /\ QuietCommand(r, l)
          BY <1>1, <1>3, AppendHosts
        <3> QED
          BY <1>2, <3>1
      <2>2. t.ring = f.ring
        BY <1>3
      <2> QED
        BY <2>1, <2>2 DEF Right, Agree, Adds, Frame
    <1>4. CASE t.ring = Append(f.ring, r) /\ t.wire = f.wire
      <2>1. /\ For(t.ring, e.link) <=> For(f.ring, e.link)
                                       /\ (r.type = "REPORT" => r.host \in {0, e.link})
            /\ ForNone(t.ring) <=> ForNone(f.ring) /\ r.host = 0
            /\ ForSome(t.ring) <=> ForSome(f.ring) /\ r.host # 0
        BY <1>1, <1>4, AppendHosts
      <2> QED
        BY <1>4, <2>1 DEF Right, Agree, Adds, Frame
    <1> QED
      BY <1>3, <1>4 DEF Adds

Update(D, kind, down) == IF down THEN D \union {kind} ELSE D \ {kind}

\* A command that the module will answer, or an event that is unread, settles what
\* the firmware's state is, whatever it is now.
LEMMA CommandSafe ==
    ASSUME NEW f \in Firmware, NEW t \in Firmware, NEW e, NEW D, NEW D2, NEW c \in Commands,
           Right(f, e), Keys(f, e, D), t.wire = Append(f.wire, c), t.ring = f.ring,
           t.pincodeEntry = f.pincodeEntry,
           t.bt_state # "CONNECTED" \/ (t.bt_state = f.bt_state /\ t.host_index = f.host_index),
           ~Pending(e.rx) => ~(Quiet(f.wire, e.link) /\ QuietCommand(c, e.link))
    PROVE  Right(t, e) /\ Agree(t, e) /\ Keys(t, e, D2)
    <1>1. c.type # "REPORT"
      BY DEF Commands
    <1>2. /\ For(t.wire, e.link) <=> For(f.wire, e.link) /\ (c.type = "REPORT" => c.host \in {0, e.link})
          /\ NoReports(t.wire) <=> NoReports(f.wire) /\ c.type # "REPORT"
          /\ Quiet(t.wire, e.link) <=> Quiet(f.wire, e.link) /\ QuietCommand(c, e.link)
      <2> DEFINE w == f.wire
                 u == t.wire
                 X == Reports \union Commands
      <2>1. w \in Seq(X) /\ u = Append(w, c)
        BY DEF Firmware
      <2> HIDE DEF w, u, X
      <2>2. /\ For(u, e.link) <=> For(w, e.link) /\ (c.type = "REPORT" => c.host \in {0, e.link})
            /\ NoReports(u) <=> NoReports(w) /\ c.type # "REPORT"
            /\ Quiet(u, e.link) <=> Quiet(w, e.link) /\ QuietCommand(c, e.link)
        BY <2>1, AppendHosts
      <2> QED
        BY <2>2 DEF w, u
    <1>3. Right(t, e)
      BY <1>1, <1>2 DEF Right
    <1>4. Agree(t, e)
      BY <1>2 DEF Agree
    <1>5. Keys(t, e, D2)
      BY <1>1, <1>2 DEF Keys
    <1> QED
      BY <1>3, <1>4, <1>5

LEMMA ReconnectsSafe ==
    ASSUME NEW f \in Firmware, NEW t \in Firmware, NEW e, NEW D, NEW D2,
           Right(f, e), Agree(f, e), Keys(f, e, D), Reconnects(f, t),
           f.bt_state # "CONNECTED" \/ ~Quiet(f.wire, e.link)
    PROVE  Right(t, e) /\ Agree(t, e) /\ Keys(t, e, D2)
    <1> DEFINE c == Command("CONNECT", 0)
    <1>1. c \in Commands /\ c.type = "CONNECT"
      BY CommandType DEF HostIndex
    <1>2. /\ t.wire = Append(f.wire, c) /\ t.ring = f.ring /\ t.bt_state # "CONNECTED"
          /\ t.pincodeEntry = f.pincodeEntry
      BY DEF Reconnects, Frame
    <1> HIDE DEF c
    <1>3. QuietCommand(c, e.link) => e.link # 0
      BY <1>1 DEF QuietCommand
    <1>4. ~Pending(e.rx) => ~(Quiet(f.wire, e.link) /\ QuietCommand(c, e.link))
      BY <1>3 DEF Agree
    <1> QED
      BY <1>1, <1>2, <1>4, CommandSafe

LEMMA SendsSafe ==
    ASSUME NEW f \in Firmware, NEW t \in Firmware, NEW e, NEW D,
           NEW kind \in Kinds, NEW down \in BOOLEAN, Sends(f, t, kind, down),
           Right(f, e), Agree(f, e), Keys(f, e, D)
    PROVE  /\ Right(t, e) /\ Agree(t, e) /\ Keys(t, e, Update(D, kind, down))
           /\ Frame(f, t) /\ (f.bt_state = "CONNECTED" => t.bt_state = "CONNECTED")
    <1> DEFINE D2 == Update(D, kind, down)
    <1>1. 0 \notin Hosts /\ f.host_index \in HostIndex /\ 0 \in HostIndex
      BY HostAssumption DEF Firmware, HostIndex
    <1>2. CASE f.bt_state = "CONNECTED" /\ Adds(f, t, ReportTo(f.host_index, kind, down))
      <2> DEFINE r == ReportTo(f.host_index, kind, down)
      <2>1. r \in Reports /\ r.host = f.host_index /\ r.kind = kind /\ r.down = down
        BY <1>1, ReportType
      <2>2. Adds(f, t, r) /\ f.bt_state = "CONNECTED"
        BY <1>2
      <2> HIDE DEF r
      <2>3. /\ f.host_index # 0
            /\ e.link # 0 => r.host \in {0, e.link}
            /\ ~(e.link = 0 /\ ~Cut(e.rx))
        BY <1>1, <2>1, <2>2 DEF Right
      <2>4. /\ Right(t, e) /\ Agree(t, e)
            /\ \A l : Quiet(t.wire, l) <=> Quiet(f.wire, l)
            /\ ForSome(f.ring) /\ r.host # 0 => ForSome(t.ring)
        BY <2>1, <2>2, <2>3, AddsSafe
      <2> DEFINE base == e.hostDown[e.link]
      <2>5. \A x \in Kinds : Final(t.ring, t.wire, base, x) <=>
               IF x = kind THEN down = TRUE ELSE Final(f.ring, f.wire, base, x)
        <3> HIDE DEF base
        <3> TAKE x \in Kinds
        <3>1. /\ r.kind = x => (Final(t.ring, t.wire, base, x) <=> r.down = TRUE)
              /\ r.kind # x => (Final(t.ring, t.wire, base, x) <=> Final(f.ring, f.wire, base, x))
          BY <2>1, <2>2, FinalAdds
        <3> QED
          BY <2>1, <3>1
      <2>6. \A x : x \in D2 <=> IF x = kind THEN down = TRUE ELSE x \in D
        BY DEF Update
      <2> HIDE DEF D2
      <2>7. Keys(t, e, D2)
        <3>1. SUFFICES ASSUME e.pin = "NEVER"
                       PROVE  /\ t.pincodeEntry = FALSE /\ ForSome(t.ring)
                              /\ ~(e.link # 0 /\ Pending(e.rx))
                              /\ e.link # 0 /\ ~Pending(e.rx) /\ Quiet(t.wire, e.link) =>
                                    \A x \in Kinds :
                                       Final(t.ring, t.wire, e.hostDown[e.link], x) <=> x \in D2
          BY DEF Keys
        <3>2. /\ f.pincodeEntry = FALSE /\ ForSome(f.ring)
              /\ ~(e.link # 0 /\ Pending(e.rx))
          BY <2>2, <3>1 DEF Keys
        <3>3. t.pincodeEntry = f.pincodeEntry
          BY <2>2 DEF Adds, Frame
        <3>4. ASSUME e.link # 0, ~Pending(e.rx), Quiet(t.wire, e.link), NEW x \in Kinds
              PROVE  Final(t.ring, t.wire, e.hostDown[e.link], x) <=> x \in D2
          <4>1. Final(f.ring, f.wire, e.hostDown[e.link], x) <=> x \in D
            BY <2>4, <3>1, <3>4 DEF Keys
          <4> QED
            BY <2>5, <2>6, <4>1
        <3> QED
          BY <2>1, <2>3, <2>4, <3>2, <3>3, <3>4
      <2> QED
        BY <2>2, <2>4, <2>7 DEF Adds, D2
    <1>3. CASE f.bt_state = "PARING" /\ f.pincodeEntry /\ Adds(f, t, ReportTo(0, kind, down))
      <2> DEFINE r == ReportTo(0, kind, down)
      <2>1. r \in Reports /\ r.host = 0
        BY <1>1, ReportType
      <2>2. Adds(f, t, r)
        BY <1>3
      <2> HIDE DEF r
      <2>3. Right(t, e) /\ Agree(t, e)
        BY <2>1, <2>2, AddsSafe
      <2>4. t.pincodeEntry = f.pincodeEntry /\ f.pincodeEntry # FALSE
        BY <1>3, <2>2 DEF Adds, Frame
      <2>5. e.pin # "NEVER"
        BY <2>4 DEF Keys
      <2> HIDE DEF D2
      <2>6. Keys(t, e, D2)
        BY <2>5 DEF Keys
      <2> QED
        BY <1>3, <2>2, <2>3, <2>6 DEF Adds, D2
    <1>4. CASE f.bt_state # "CONNECTED" /\ t = f
      <2>1. ~(e.link # 0 /\ ~Pending(e.rx) /\ Quiet(f.wire, e.link))
        BY <1>4 DEF Agree
      <2> HIDE DEF D2
      <2>2. Keys(f, e, D2)
        BY <2>1 DEF Keys
      <2> QED
        BY <1>4, <2>2 DEF Frame, D2
    <1>5. CASE f.bt_state # "CONNECTED" /\ Reconnects(f, t)
      <2>1. Right(t, e) /\ Agree(t, e) /\ Keys(t, e, D2)
        <3> HIDE DEF D2
        <3> QED
          BY <1>5, ReconnectsSafe
      <2> QED
        BY <1>5, <2>1 DEF Reconnects, D2
    <1> QED
      BY <1>2, <1>3, <1>4, <1>5 DEF Sends

\* A changed report is sent to the host in charge.
LEMMA HostSendSafe ==
    ASSUME NEW f, NEW e, NEW D, Safe(f, e, D), NEW kind \in Kinds, NEW down \in BOOLEAN,
           NEW zero \in BOOLEAN, NEW t,
           t = host_send([f EXCEPT !.held = Update(@, kind, down)], kind, down, zero)
    PROVE  /\ Safe(t, e, IF f.driver = "BT" THEN Update(D, kind, down) ELSE D)
           /\ t.held = Update(f.held, kind, down)
           /\ t.driver = f.driver /\ t.transport = f.transport /\ t.host_index = f.host_index
           /\ f.bt_state = "CONNECTED" => t.bt_state = "CONNECTED"
    <1> DEFINE g == [f EXCEPT !.held = Update(@, kind, down)]
    <1>1. f \in Firmware /\ Right(f, e) /\ Agree(f, e) /\ Usb(f) /\ Keys(f, e, D)
      BY DEF Safe
    <1>2. Update(f.held, kind, down) \in SUBSET Kinds
      BY <1>1 DEF Firmware, Update
    <1>3. /\ g \in Firmware /\ g.held = Update(f.held, kind, down)
          /\ g.bt_state = f.bt_state /\ g.ring = f.ring /\ g.wire = f.wire
          /\ g.transport = f.transport /\ g.driver = f.driver /\ g.host_index = f.host_index
          /\ g.pincodeEntry = f.pincodeEntry /\ g.usbDown = f.usbDown
      BY <1>1, <1>2 DEF Firmware
    <1>4. t = host_send(g, kind, down, zero)
      OBVIOUS
    <1> HIDE DEF g
    <1>5. Right(g, e) /\ Agree(g, e) /\ Keys(g, e, D)
      BY <1>1, <1>3 DEF Right, Agree, Keys
    <1>6. CASE f.driver = "USB"
      <2>1. t = [g EXCEPT !.usbDown = Update(@, kind, down)]
        BY <1>3, <1>4, <1>6 DEF host_send, Update
      <2>2. f.usbDown = f.held
        BY <1>1, <1>6 DEF Usb
      <2>3. /\ t \in Firmware /\ t.held = g.held /\ t.usbDown = Update(f.held, kind, down)
            /\ t.bt_state = g.bt_state /\ t.ring = g.ring /\ t.wire = g.wire
            /\ t.transport = g.transport /\ t.driver = g.driver /\ t.host_index = g.host_index
            /\ t.pincodeEntry = g.pincodeEntry
        <3> DEFINE u == Update(f.held, kind, down)
        <3> HIDE DEF u
        <3>1. t = [g EXCEPT !.usbDown = u] /\ u \in SUBSET Kinds
          BY <1>2, <1>3, <2>1, <2>2 DEF u
        <3>2. t \in Firmware /\ t.usbDown = u
          BY <1>3, <3>1 DEF Firmware
        <3>3. /\ t.held = g.held
              /\ t.bt_state = g.bt_state /\ t.ring = g.ring /\ t.wire = g.wire
              /\ t.transport = g.transport /\ t.driver = g.driver /\ t.host_index = g.host_index
              /\ t.pincodeEntry = g.pincodeEntry
          BY <1>3, <3>1 DEF Firmware
        <3> QED
          BY <3>2, <3>3 DEF u
      <2>4. Right(t, e) /\ Agree(t, e) /\ Keys(t, e, D) /\ Usb(t)
        BY <1>3, <1>5, <1>6, <2>3 DEF Right, Agree, Keys, Usb
      <2> QED
        BY <1>3, <1>6, <2>3, <2>4 DEF Safe
    <1>7. CASE f.driver = "BT"
      <2>1. t \in Firmware /\ Sends(g, t, kind, down)
        <3>1. kind = "KB" \/ kind = "CONSUMER"
          BY KindAssumption
        <3>2. CASE kind = "KB"
          <4>1. t = bluetooth_send_keyboard(g, down, zero)
            BY <1>3, <1>4, <1>7, <3>2 DEF host_send
          <4> QED
            BY <1>3, <3>2, <4>1, KeyboardSends
        <3>3. CASE kind = "CONSUMER"
          <4>1. t = bluetooth_send_consumer(g, down, zero)
            BY <1>3, <1>4, <1>7, <3>3 DEF host_send
          <4> QED
            BY <1>3, <3>3, <4>1, ConsumerSends
        <3> QED
          BY <3>1, <3>2, <3>3
      <2>2. /\ Right(t, e) /\ Agree(t, e) /\ Keys(t, e, Update(D, kind, down))
            /\ Frame(g, t) /\ (g.bt_state = "CONNECTED" => t.bt_state = "CONNECTED")
        BY <1>3, <1>5, <2>1, SendsSafe
      <2>3. /\ t.held = g.held /\ t.usbDown = g.usbDown /\ t.driver = g.driver
            /\ t.transport = g.transport /\ t.host_index = g.host_index
        BY <2>2 DEF Frame
      <2>4. Usb(t)
        BY <1>1, <1>3, <1>7, <2>3 DEF Usb
      <2> QED
        BY <1>3, <1>7, <2>1, <2>2, <2>3, <2>4 DEF Safe
    <1> QED
      BY <1>1, <1>6, <1>7 DEF Firmware

LEMMA FrameSafe ==
    ASSUME NEW f, NEW t \in Firmware, NEW e, NEW D, Safe(f, e, D), Frame(f, t),
           t.bt_state = f.bt_state, t.ring = f.ring, t.wire = f.wire
    PROVE  Safe(t, e, D)
    <1>1. Right(f, e) /\ Agree(f, e) /\ Usb(f) /\ Keys(f, e, D)
      BY DEF Safe
    <1>2. Right(t, e) /\ Agree(t, e)
      BY <1>1 DEF Right, Agree, Frame
    <1>3. Usb(t) /\ Keys(t, e, D)
      BY <1>1 DEF Usb, Keys, Frame
    <1> QED
      BY <1>2, <1>3 DEF Safe

Without(D, kind) == D \ {kind}

Within(D, f) == D \subseteq Believed(f)

LEMMA ReleaseSafe ==
    ASSUME NEW f, NEW e, NEW D, Safe(f, e, D), Within(D, f),
           NEW kind \in {"KB", "CONSUMER"}, NEW zero \in BOOLEAN,
           NEW t, t = Release(f, kind, zero)
    PROVE  /\ Safe(t, e, Without(D, kind)) /\ Within(Without(D, kind), t)
           /\ t.held = Without(f.held, kind)
           /\ t.driver = f.driver /\ t.transport = f.transport /\ t.host_index = f.host_index
           /\ f.bt_state = "CONNECTED" => t.bt_state = "CONNECTED"
    <1>1. f.held \subseteq Kinds /\ f.driver \in {"USB", "BT"}
      BY DEF Safe, Firmware
    <1>2. CASE kind \notin f.held
      <2>1. t = f /\ Without(f.held, kind) = f.held
        BY <1>2 DEF Release, Without
      <2>2. Without(D, kind) = D
        BY <1>2 DEF Believed, Within, Without
      <2> QED
        BY <2>1, <2>2
    <1>3. CASE kind \in f.held
      <2>1. kind \in Kinds
        BY <1>1, <1>3
      <2>2. t = host_send([f EXCEPT !.held = Update(@, kind, FALSE)], kind, FALSE, zero)
        BY <1>3 DEF Release, Update
      <2>3. /\ Update(f.held, kind, FALSE) = Without(f.held, kind)
            /\ Update(D, kind, FALSE) = Without(D, kind)
        BY DEF Update, Without
      <2>4. /\ Safe(t, e, IF f.driver = "BT" THEN Update(D, kind, FALSE) ELSE D)
            /\ t.held = Update(f.held, kind, FALSE)
            /\ t.driver = f.driver /\ t.transport = f.transport /\ t.host_index = f.host_index
            /\ f.bt_state = "CONNECTED" => t.bt_state = "CONNECTED"
        <3> DEFINE down == FALSE
        <3>1. down \in BOOLEAN
          OBVIOUS
        <3>2. t = host_send([f EXCEPT !.held = Update(@, kind, down)], kind, down, zero)
          BY <2>2
        <3> HIDE DEF down
        <3>3. /\ Safe(t, e, IF f.driver = "BT" THEN Update(D, kind, down) ELSE D)
              /\ t.held = Update(f.held, kind, down)
              /\ t.driver = f.driver /\ t.transport = f.transport /\ t.host_index = f.host_index
              /\ f.bt_state = "CONNECTED" => t.bt_state = "CONNECTED"
          BY <2>1, <3>1, <3>2, HostSendSafe
        <3> QED
          BY <3>3 DEF down
      <2>5. f.driver # "BT" => Without(D, kind) = D
        BY DEF Believed, Within, Without
      <2>6. Within(Without(D, kind), t)
        BY <2>3, <2>4 DEF Believed, Within, Without
      <2> QED
        BY <2>3, <2>4, <2>5, <2>6
    <1> QED
      BY <1>2, <1>3

\* clear_keyboard releases everything at the host in charge.
LEMMA ClearSafe ==
    ASSUME NEW f, NEW e, NEW D, Safe(f, e, D), Within(D, f),
           NEW zero \in BOOLEAN, NEW t, t = clear_keyboard(f, zero)
    PROVE  /\ Safe(t, e, {}) /\ t.held = {} /\ Believed(t) = {}
           /\ t.driver = f.driver /\ t.transport = f.transport /\ t.host_index = f.host_index
           /\ f.bt_state = "CONNECTED" => t.bt_state = "CONNECTED"
    <1> DEFINE a == "CONSUMER"
               b == "KB"
               g == Release(f, a, zero)
               D1 == Without(D, a)
               D2 == Without(D1, b)
    <1>1. a \in {"KB", "CONSUMER"} /\ b \in {"KB", "CONSUMER"}
      OBVIOUS
    <1>2. t = Release(g, b, zero)
      BY DEF clear_keyboard
    <1>3. f.held \subseteq Kinds
      BY DEF Safe, Firmware
    <1>4. D \subseteq Kinds
      BY <1>3 DEF Believed, Within
    <1>5. D2 = {} /\ Without(Without(f.held, a), b) = {}
      BY <1>3, <1>4, KindAssumption DEF Without
    <1> HIDE DEF a, b, D2
    <1>6. /\ Safe(g, e, D1) /\ Within(D1, g) /\ g.held = Without(f.held, a)
          /\ g.driver = f.driver /\ g.transport = f.transport /\ g.host_index = f.host_index
          /\ f.bt_state = "CONNECTED" => g.bt_state = "CONNECTED"
      BY <1>1, ReleaseSafe
    <1> HIDE DEF g, D1
    <1>7. /\ Safe(t, e, Without(D1, b)) /\ t.held = Without(g.held, b)
          /\ t.driver = g.driver /\ t.transport = g.transport /\ t.host_index = g.host_index
          /\ g.bt_state = "CONNECTED" => t.bt_state = "CONNECTED"
      BY <1>1, <1>2, <1>6, ReleaseSafe
    <1>8. t.held = {}
      BY <1>5, <1>6, <1>7
    <1>9. Believed(t) = {}
      BY <1>8 DEF Believed
    <1>10. Safe(t, e, {})
      BY <1>5, <1>7 DEF D2
    <1> QED
      BY <1>6, <1>7, <1>8, <1>9, <1>10

LEMMA DisconnectSafe ==
    ASSUME NEW f, NEW e, NEW D, NEW D2, Safe(f, e, D), NEW t, t = bluetooth_disconnect(f)
    PROVE  /\ Safe(t, e, D2) /\ ~Quiet(t.wire, e.link) /\ Frame(f, t) /\ t.bt_state = f.bt_state
    <1> DEFINE c == Command("DISCONNECT", 0)
    <1>1. c \in Commands /\ c.type = "DISCONNECT"
      BY CommandType DEF HostIndex
    <1>2. t = Write(f, c)
      BY DEF bluetooth_disconnect
    <1>3. f \in Firmware /\ Right(f, e) /\ Usb(f) /\ Keys(f, e, D)
      BY DEF Safe
    <1> HIDE DEF c
    <1>4. /\ t \in Firmware /\ Frame(f, t) /\ t.bt_state = f.bt_state /\ t.ring = f.ring
          /\ t.wire = Append(f.wire, c)
      BY <1>1, <1>2, <1>3, WriteEffect
    <1>5. ~QuietCommand(c, e.link)
      BY <1>1 DEF QuietCommand
    <1>6. Right(t, e) /\ Agree(t, e) /\ Keys(t, e, D2)
      <2>1. t.pincodeEntry = f.pincodeEntry /\ t.host_index = f.host_index
        BY <1>4 DEF Frame
      <2> QED
        BY <1>1, <1>3, <1>4, <1>5, <2>1, CommandSafe
    <1>7. ~Quiet(t.wire, e.link)
      <2>1. f.wire \in Seq(Reports \union Commands)
        BY <1>3 DEF Firmware
      <2>2. Quiet(t.wire, e.link) <=> Quiet(f.wire, e.link) /\ QuietCommand(c, e.link)
        BY <1>4, <2>1, AppendHosts
      <2> QED
        BY <1>5, <2>2
    <1>8. Usb(t)
      BY <1>3, <1>4 DEF Usb, Frame
    <1> QED
      BY <1>4, <1>6, <1>7, <1>8 DEF Safe

LEMMA ConnectSafe ==
    ASSUME NEW f, NEW e, NEW D, Safe(f, e, D), NEW zero \in BOOLEAN,
           f.bt_state # "CONNECTED" \/ ~Quiet(f.wire, e.link),
           NEW t, t = bluetooth_connect(f, zero)
    PROVE  Safe(t, e, D) /\ Frame(f, t)
    <1>1. f \in Firmware /\ Right(f, e) /\ Agree(f, e) /\ Usb(f) /\ Keys(f, e, D)
      BY DEF Safe
    <1>2. t \in Firmware /\ (t = f \/ Reconnects(f, t))
      BY <1>1, ConnectEffect
    <1>3. CASE t = f
      BY <1>3 DEF Frame
    <1>4. CASE Reconnects(f, t)
      <2>1. Right(t, e) /\ Agree(t, e) /\ Keys(t, e, D)
        BY <1>1, <1>2, <1>4, ReconnectsSafe
      <2>2. Frame(f, t)
        BY <1>4 DEF Reconnects
      <2>3. Usb(t)
        BY <1>1, <2>2 DEF Usb, Frame
      <2> QED
        BY <1>2, <2>1, <2>2, <2>3 DEF Safe
    <1> QED
      BY <1>2, <1>3, <1>4

\* bluetooth_connect_ex does nothing for the host that is connected, which is why
\* its command never goes unanswered.
LEMMA ConnectExSafe ==
    ASSUME NEW f, NEW e, NEW D, Safe(f, e, D), NEW h \in Hosts, NEW t, t = bluetooth_connect_ex(f, h)
    PROVE  Safe(t, e, D) /\ t.driver = f.driver /\ t.transport = f.transport /\ t.held = f.held
    <1> DEFINE c == Command("CONNECT", h)
               w == Write(f, c)
    <1>1. c \in Commands /\ c.type = "CONNECT" /\ c.host = h
      BY CommandType DEF HostIndex
    <1>2. f \in Firmware /\ Right(f, e) /\ Agree(f, e) /\ Usb(f) /\ Keys(f, e, D)
      BY DEF Safe
    <1>3. \/ t = f
          \/ /\ ~(f.host_index = h /\ f.bt_state = "CONNECTED")
             /\ t = [w EXCEPT !.bt_state = "RECONNECTING", !.host_index = h]
      BY DEF bluetooth_connect_ex
    <1> HIDE DEF c
    <1>4. /\ w \in Firmware /\ Frame(f, w) /\ w.bt_state = f.bt_state /\ w.ring = f.ring
          /\ w.wire = Append(f.wire, c)
      BY <1>1, <1>2, WriteEffect
    <1> HIDE DEF w
    <1>5. ASSUME t = [w EXCEPT !.bt_state = "RECONNECTING", !.host_index = h],
                 ~(f.host_index = h /\ f.bt_state = "CONNECTED")
          PROVE  Safe(t, e, D) /\ t.driver = f.driver /\ t.transport = f.transport /\ t.held = f.held
      <2>1. /\ t \in Firmware /\ t.bt_state = "RECONNECTING" /\ t.ring = w.ring /\ t.wire = w.wire
            /\ t.pincodeEntry = w.pincodeEntry /\ t.driver = w.driver /\ t.transport = w.transport
            /\ t.held = w.held /\ t.usbDown = w.usbDown
        BY <1>4, <1>5 DEF Firmware, States, HostIndex
      <2>2. 0 \notin Hosts
        BY HostAssumption
      <2>3. ~Pending(e.rx) => ~(Quiet(f.wire, e.link) /\ QuietCommand(c, e.link))
        <3>1. QuietCommand(c, e.link) => e.link # 0 /\ e.link = h
          BY <1>1, <2>2 DEF QuietCommand
        <3> QED
          BY <1>2, <1>5, <3>1 DEF Agree, Right
      <2>4. Right(t, e) /\ Agree(t, e) /\ Keys(t, e, D)
        <3>1. /\ t.wire = Append(f.wire, c) /\ t.ring = f.ring /\ t.bt_state # "CONNECTED"
              /\ t.pincodeEntry = f.pincodeEntry
          BY <1>4, <2>1 DEF Frame
        <3> QED
          BY <1>1, <1>2, <2>1, <2>3, <3>1, CommandSafe
      <2>5. Usb(t)
        BY <1>2, <1>4, <2>1 DEF Usb, Frame
      <2> QED
        BY <1>4, <2>1, <2>4, <2>5 DEF Safe, Frame
    <1> QED
      BY <1>3, <1>5

LEMMA PairingSafe ==
    ASSUME NEW f, NEW e, NEW D, Safe(f, e, D), NEW h \in HostIndex, NEW t, t = bluetooth_pairing_ex(f, h)
    PROVE  Safe(t, e, D) /\ t.driver = f.driver /\ t.transport = f.transport /\ t.held = f.held
    <1> DEFINE c == Command("PAIR", h)
               w == Write(f, c)
    <1>1. c \in Commands /\ c.type = "PAIR"
      BY CommandType
    <1>2. f \in Firmware /\ Right(f, e) /\ Usb(f) /\ Keys(f, e, D)
      BY DEF Safe
    <1>3. t = f \/ t = [w EXCEPT !.bt_state = "PARING", !.host_index = h]
      BY DEF bluetooth_pairing_ex
    <1> HIDE DEF c
    <1>4. /\ w \in Firmware /\ Frame(f, w) /\ w.ring = f.ring /\ w.wire = Append(f.wire, c)
      BY <1>1, <1>2, WriteEffect
    <1> HIDE DEF w
    <1>5. ASSUME t = [w EXCEPT !.bt_state = "PARING", !.host_index = h]
          PROVE  Safe(t, e, D) /\ t.driver = f.driver /\ t.transport = f.transport /\ t.held = f.held
      <2>1. /\ t \in Firmware /\ t.bt_state = "PARING" /\ t.ring = w.ring /\ t.wire = w.wire
            /\ t.pincodeEntry = w.pincodeEntry /\ t.driver = w.driver /\ t.transport = w.transport
            /\ t.held = w.held /\ t.usbDown = w.usbDown
        BY <1>4, <1>5 DEF Firmware, States
      <2>2. ~QuietCommand(c, e.link)
        BY <1>1 DEF QuietCommand
      <2>3. Right(t, e) /\ Agree(t, e) /\ Keys(t, e, D)
        <3>1. /\ t.wire = Append(f.wire, c) /\ t.ring = f.ring /\ t.bt_state # "CONNECTED"
              /\ t.pincodeEntry = f.pincodeEntry
          BY <1>4, <2>1 DEF Frame
        <3> QED
          BY <1>1, <1>2, <2>1, <2>2, <3>1, CommandSafe
      <2>4. Usb(t)
        BY <1>2, <1>4, <2>1 DEF Usb, Frame
      <2> QED
        BY <1>4, <2>1, <2>3, <2>4 DEF Safe, Frame
    <1> QED
      BY <1>3, <1>5

LEMMA TaskSafe ==
    ASSUME NEW f, NEW e, NEW D, Safe(f, e, D), NEW t, t = report_buffer_task(f)
    PROVE  Safe(t, e, D) /\ Frame(f, t)
    <1>1. f \in Firmware /\ Right(f, e) /\ Agree(f, e) /\ Usb(f) /\ Keys(f, e, D)
      BY DEF Safe
    <1>2. t \in Firmware /\ (t = f \/ Moves(f, t))
      BY <1>1, TaskEffect
    <1>3. CASE t = f
      BY <1>3 DEF Frame
    <1>4. CASE Moves(f, t)
      <2> DEFINE r == Head(f.ring)
                 base == e.hostDown[e.link]
      <2>1. /\ Frame(f, t) /\ t.bt_state = f.bt_state /\ f.bt_state = "CONNECTED" /\ f.ring # <<>>
            /\ t.ring = Tail(f.ring) /\ t.wire = Append(f.wire, r)
        BY <1>4 DEF Moves
      <2>2. f.ring \in Seq(Reports) /\ f.wire \in Seq(Reports \union Commands)
        BY <1>1 DEF Firmware
      <2>3. r \in Reports
        BY <2>1, <2>2
      <2>4. r.type = "REPORT" /\ QuietCommand(r, e.link)
        BY <2>3 DEF Reports, QuietCommand
      <2>5. /\ For(f.ring, e.link) => For(t.ring, e.link)
            /\ ForNone(f.ring) => ForNone(t.ring)
            /\ ForSome(f.ring) => ForSome(t.ring)
            /\ For(f.ring, e.link) /\ r.type = "REPORT" => r.host \in {0, e.link}
        BY <2>1, <2>2, TailHosts
      <2> HIDE DEF r
      <2>6. /\ For(t.wire, e.link) <=> For(f.wire, e.link) /\ (r.type = "REPORT" => r.host \in {0, e.link})
            /\ Quiet(t.wire, e.link) <=> Quiet(f.wire, e.link) /\ QuietCommand(r, e.link)
        <3> DEFINE w == f.wire
                   u == t.wire
                   X == Reports \union Commands
        <3>1. w \in Seq(X) /\ u = Append(w, r)
          BY <2>1, <2>2
        <3> HIDE DEF w, u, X
        <3>2. /\ For(u, e.link) <=> For(w, e.link) /\ (r.type = "REPORT" => r.host \in {0, e.link})
              /\ Quiet(u, e.link) <=> Quiet(w, e.link) /\ QuietCommand(r, e.link)
          BY <3>1, AppendHosts
        <3> QED
          BY <3>2 DEF w, u
      <2>7. Right(t, e) /\ Agree(t, e) /\ Usb(t)
        BY <1>1, <2>1, <2>4, <2>5, <2>6 DEF Right, Agree, Usb, Frame
      <2>8. \A x \in Kinds : Final(t.ring, t.wire, base, x) <=> Final(f.ring, f.wire, base, x)
        <3> HIDE DEF base
        <3> QED
          BY <1>1, <1>4, FinalMoves
      <2>9. Keys(t, e, D)
        BY <1>1, <2>1, <2>4, <2>5, <2>6, <2>8 DEF Keys, Frame
      <2> QED
        BY <1>2, <2>1, <2>7, <2>9 DEF Safe
    <1> QED
      BY <1>2, <1>3, <1>4

(***************************************************************************)
(* The mode switch and the battery.                                        *)
(***************************************************************************)

\* The keys are released at the old host, so that both hosts believe nothing
\* pressed when the driver changes.
LEMMA DriverSafe ==
    ASSUME NEW f, NEW e, Safe(f, e, {}), f.held = {}, NEW d \in {"USB", "BT"},
           NEW t, t = [f EXCEPT !.driver = d]
    PROVE  /\ Safe(t, e, {}) /\ t.held = {} /\ t.driver = d
           /\ t.transport = f.transport /\ t.bt_state = f.bt_state
    <1>1. f \in Firmware /\ Right(f, e) /\ Agree(f, e) /\ Usb(f) /\ Keys(f, e, {})
      BY DEF Safe
    <1>2. /\ t \in Firmware /\ t.held = f.held /\ t.driver = d /\ t.transport = f.transport
          /\ t.bt_state = f.bt_state /\ t.ring = f.ring /\ t.wire = f.wire
          /\ t.host_index = f.host_index /\ t.pincodeEntry = f.pincodeEntry
          /\ t.usbDown = f.usbDown
      BY <1>1 DEF Firmware
    <1>3. Usb(t)
      <2>1. f.usbDown = {}
        BY <1>1 DEF Usb
      <2> QED
        BY <1>2, <2>1 DEF Usb
    <1> DEFINE D == {}
    <1>4. Keys(f, e, D)
      BY <1>1
    <1> HIDE DEF D
    <1>5. Right(t, e) /\ Agree(t, e) /\ Keys(t, e, D)
      BY <1>1, <1>2, <1>4 DEF Right, Agree, Keys
    <1> QED
      BY <1>2, <1>3, <1>5 DEF Safe, D

LEMMA SendsAllSafe ==
    ASSUME NEW f, NEW e, NEW D, Safe(f, e, D), NEW t \in Firmware,
           NEW kind \in Kinds, NEW down \in BOOLEAN, Sends(f, t, kind, down)
    PROVE  Safe(t, e, Update(D, kind, down)) /\ Frame(f, t)
    <1>1. f \in Firmware /\ Right(f, e) /\ Agree(f, e) /\ Usb(f) /\ Keys(f, e, D)
      BY DEF Safe
    <1>2. /\ Right(t, e) /\ Agree(t, e) /\ Keys(t, e, Update(D, kind, down))
          /\ Frame(f, t) /\ (f.bt_state = "CONNECTED" => t.bt_state = "CONNECTED")
      BY <1>1, SendsSafe
    <1>3. Usb(t)
      BY <1>1, <1>2 DEF Usb, Frame
    <1> QED
      BY <1>2, <1>3 DEF Safe

\* The empty keyboard report that bt_transport_enable sends.
LEMMA EmptyReportSafe ==
    ASSUME NEW f, NEW e, NEW D, Safe(f, e, D), NEW zero \in BOOLEAN, NEW down \in BOOLEAN,
           NEW t, t = bluetooth_send_keyboard(f, down, zero)
    PROVE  Safe(t, e, Update(D, "KB", down)) /\ Frame(f, t)
    <1>1. f \in Firmware
      BY DEF Safe
    <1>2. t \in Firmware /\ Sends(f, t, "KB", down)
      BY <1>1, KeyboardSends
    <1> DEFINE kind == "KB"
    <1>3. Sends(f, t, kind, down) /\ kind \in Kinds
      BY <1>2, KindAssumption
    <1> HIDE DEF kind
    <1>4. Safe(t, e, Update(D, kind, down)) /\ Frame(f, t)
      BY <1>2, <1>3, SendsAllSafe
    <1> QED
      BY <1>4 DEF kind

LEMMA ToUsbSafe ==
    ASSUME NEW f, NEW e, Safe(f, e, {}), f.held = {}, NEW zero \in BOOLEAN,
           NEW t, t = bt_transport_enable(usb_transport_enable(f, TRUE), FALSE, zero)
    PROVE  /\ Safe(t, e, {}) /\ t.held = {} /\ t.driver = "USB" /\ t.transport = f.transport
    <1> DEFINE g == [f EXCEPT !.driver = "USB"]
               D == {}
               u == usb_transport_enable(f, TRUE)
    <1>1. /\ Safe(g, e, D) /\ g.held = {} /\ g.driver = "USB" /\ g.transport = f.transport
          /\ g.bt_state = f.bt_state
      BY DriverSafe
    <1>2. u = g
      BY DEF usb_transport_enable
    <1>3. t = bt_transport_enable(g, FALSE, zero)
      BY <1>2
    <1>4. t = g \/ t = bluetooth_send_keyboard(g, FALSE, zero)
      BY <1>3 DEF bt_transport_enable
    <1>5. Update(D, "KB", FALSE) = D
      BY DEF Update
    <1> HIDE DEF g, D
    <1>6. ASSUME t = bluetooth_send_keyboard(g, FALSE, zero)
          PROVE  Safe(t, e, D) /\ Frame(g, t)
      <2> DEFINE down == FALSE
      <2>1. down \in BOOLEAN /\ t = bluetooth_send_keyboard(g, down, zero) /\ Update(D, "KB", down) = D
        BY <1>5, <1>6
      <2> HIDE DEF down
      <2>2. Safe(t, e, Update(D, "KB", down)) /\ Frame(g, t)
        BY <1>1, <2>1, EmptyReportSafe
      <2> QED
        BY <2>1, <2>2
    <1>7. Safe(t, e, D) /\ t.held = g.held /\ t.driver = g.driver /\ t.transport = g.transport
      BY <1>1, <1>4, <1>6 DEF Frame
    <1> QED
      BY <1>1, <1>7 DEF D

LEMMA ToBtSafe ==
    ASSUME NEW f, NEW e, Safe(f, e, {}), f.held = {}, f.driver = "USB", NEW zero \in BOOLEAN,
           NEW t, t = usb_transport_enable(bt_transport_enable(f, TRUE, zero), FALSE)
    PROVE  /\ Safe(t, e, {}) /\ t.held = {} /\ t.driver = "BT" /\ t.transport = f.transport
    <1> DEFINE g == [f EXCEPT !.driver = "BT"]
               D == {}
               x == bluetooth_disconnect(g)
               b == bluetooth_connect(x, zero)
               v == bt_transport_enable(f, TRUE, zero)
    <1>1. v = b
      BY DEF bt_transport_enable
    <1>2. t = [b EXCEPT !.usbDown = @ \ {"KB"}]
      BY <1>1 DEF usb_transport_enable
    <1> HIDE DEF v
    <1>3. Safe(g, e, D) /\ g.held = {} /\ g.driver = "BT" /\ g.transport = f.transport
      BY DriverSafe
    <1> HIDE DEF g, D
    <1>4. Safe(x, e, D) /\ ~Quiet(x.wire, e.link) /\ Frame(g, x)
      BY <1>3, DisconnectSafe
    <1> HIDE DEF x
    <1>5. Safe(b, e, D) /\ Frame(x, b)
      BY <1>4, ConnectSafe
    <1>6. b.held = {} /\ b.driver = "BT" /\ b.transport = f.transport
      BY <1>3, <1>4, <1>5 DEF Frame
    <1>7. b \in Firmware /\ b.usbDown = {}
      BY <1>5, <1>6 DEF Safe, Usb
    <1> HIDE DEF b
    <1>8. /\ t \in Firmware /\ Frame(b, t) /\ t.bt_state = b.bt_state /\ t.ring = b.ring
          /\ t.wire = b.wire
      BY <1>2, <1>7 DEF Firmware, Frame
    <1>9. Safe(t, e, D)
      BY <1>5, <1>8, FrameSafe
    <1> QED
      BY <1>6, <1>8, <1>9 DEF Frame, D

LEMMA SwitchSafe ==
    ASSUME NEW f, NEW e, Safe(f, e, Believed(f)), f.driver = f.transport, NEW zero \in BOOLEAN,
           NEW new \in {"USB", "BT"}, new # f.transport, NEW t, t = set_transport(f, new, zero)
    PROVE  Safe(t, e, Believed(t)) /\ t.driver = t.transport
    <1> DEFINE f1 == [f EXCEPT !.transport = new]
               g == clear_keyboard(f1, zero)
               u == bt_transport_enable(usb_transport_enable(g, TRUE), FALSE, zero)
               b == usb_transport_enable(bt_transport_enable(g, TRUE, zero), FALSE)
               B == Believed(f)
    <1>1. f \in Firmware
      BY DEF Safe
    <1>2. /\ f1 \in Firmware /\ f1.transport = new /\ f1.driver = f.driver /\ f1.held = f.held
          /\ f1.bt_state = f.bt_state /\ f1.ring = f.ring /\ f1.wire = f.wire
          /\ f1.host_index = f.host_index /\ f1.pincodeEntry = f.pincodeEntry
          /\ f1.usbDown = f.usbDown
      BY <1>1 DEF Firmware
    <1>3. t = IF new = "USB" THEN [u EXCEPT !.nkroBt = u.nkro, !.nkro = u.nkroUsb]
              ELSE [b EXCEPT !.nkroUsb = b.nkro, !.nkro = b.nkroBt]
      BY DEF set_transport
    <1> HIDE DEF f1
    <1>4. Safe(f1, e, B) /\ Within(B, f1)
      <2>1. Within(B, f1)
        BY <1>2 DEF Within, Believed
      <2>2. Right(f, e) /\ Agree(f, e) /\ Usb(f) /\ Keys(f, e, B)
        BY DEF Safe
      <2> HIDE DEF B
      <2>3. Right(f1, e) /\ Agree(f1, e) /\ Usb(f1) /\ Keys(f1, e, B)
        BY <1>2, <2>2 DEF Right, Agree, Usb, Keys
      <2> QED
        BY <1>2, <2>1, <2>3 DEF Safe
    <1> HIDE DEF B
    <1>5. Safe(g, e, {}) /\ g.held = {} /\ g.driver = f1.driver /\ g.transport = f1.transport
      BY <1>4, ClearSafe
    <1> HIDE DEF g
    <1>6. CASE new = "USB"
      <2>1. /\ Safe(u, e, {}) /\ u.held = {} /\ u.driver = "USB" /\ u.transport = g.transport
        BY <1>5, ToUsbSafe
      <2>2. t = [u EXCEPT !.nkroBt = u.nkro, !.nkro = u.nkroUsb]
        BY <1>3, <1>6
      <2> HIDE DEF u
      <2>3. u \in Firmware
        BY <2>1 DEF Safe
      <2>4. /\ t \in Firmware /\ Frame(u, t) /\ t.bt_state = u.bt_state /\ t.ring = u.ring
            /\ t.wire = u.wire
        BY <2>2, <2>3 DEF Firmware, Frame
      <2>5. Safe(t, e, {})
        BY <2>1, <2>4, FrameSafe
      <2>6. t.held = {} /\ t.driver = "USB" /\ t.transport = "USB"
        BY <1>2, <1>5, <1>6, <2>1, <2>4 DEF Frame
      <2>7. Believed(t) = {}
        BY <2>6 DEF Believed
      <2> QED
        BY <2>5, <2>6, <2>7
    <1>7. CASE new = "BT"
      <2>1. g.driver = "USB"
        BY <1>1, <1>2, <1>5, <1>7 DEF Firmware
      <2>2. /\ Safe(b, e, {}) /\ b.held = {} /\ b.driver = "BT" /\ b.transport = g.transport
        BY <1>5, <2>1, ToBtSafe
      <2>3. t = [b EXCEPT !.nkroUsb = b.nkro, !.nkro = b.nkroBt]
        BY <1>3, <1>7
      <2> HIDE DEF b
      <2>4. b \in Firmware
        BY <2>2 DEF Safe
      <2>5. /\ t \in Firmware /\ Frame(b, t) /\ t.bt_state = b.bt_state /\ t.ring = b.ring
            /\ t.wire = b.wire
        BY <2>3, <2>4 DEF Firmware, Frame
      <2>6. Safe(t, e, {})
        BY <2>2, <2>5, FrameSafe
      <2>7. t.held = {} /\ t.driver = "BT" /\ t.transport = "BT"
        BY <1>2, <1>5, <1>7, <2>2, <2>5 DEF Frame
      <2>8. Believed(t) = {}
        BY <2>7 DEF Believed
      <2> QED
        BY <2>6, <2>7, <2>8
    <1> QED
      BY <1>6, <1>7

LEMMA BatterySafe ==
    ASSUME NEW f, NEW e, NEW D, Safe(f, e, D), NEW low \in BOOLEAN, NEW usb \in BOOLEAN,
           NEW t, t = battery_task(f, low, usb)
    PROVE  /\ Safe(t, e, D) /\ t.driver = f.driver /\ t.transport = f.transport
           /\ t.held = f.held
    <1> DEFINE x == bluetooth_disconnect(f)
               g == IF low /\ f.transport = "BT" /\ f.bt_state = "CONNECTED" /\ ~f.critical
                    THEN [x EXCEPT !.critical = TRUE] ELSE f
    <1>1. Safe(x, e, D) /\ Frame(f, x) /\ x \in Firmware /\ f \in Firmware
      BY DisconnectSafe DEF Safe
    <1>2. t = IF usb THEN [g EXCEPT !.critical = FALSE] ELSE g
      BY DEF battery_task
    <1> HIDE DEF x
    <1>3. Safe(g, e, D) /\ g.driver = f.driver /\ g.transport = f.transport /\ g.held = f.held
      <2>1. CASE g = f
        BY <2>1
      <2>2. CASE g = [x EXCEPT !.critical = TRUE]
        <3>1. /\ g \in Firmware /\ g.bt_state = x.bt_state /\ g.ring = x.ring /\ g.wire = x.wire
              /\ g.transport = x.transport /\ g.driver = x.driver
              /\ g.host_index = x.host_index /\ g.pincodeEntry = x.pincodeEntry
              /\ g.held = x.held /\ g.usbDown = x.usbDown
          BY <1>1, <2>2 DEF Firmware
        <3> HIDE DEF g
        <3>2. Right(x, e) /\ Agree(x, e) /\ Usb(x) /\ Keys(x, e, D)
          BY <1>1 DEF Safe
        <3>3. Right(g, e) /\ Agree(g, e) /\ Usb(g) /\ Keys(g, e, D)
          BY <3>1, <3>2 DEF Right, Agree, Usb, Keys
        <3> QED
          BY <1>1, <3>1, <3>3 DEF Safe, Frame
      <2> QED
        BY <2>1, <2>2
    <1> HIDE DEF g
    <1>4. CASE t = g
      BY <1>3, <1>4
    <1>5. CASE t = [g EXCEPT !.critical = FALSE]
      <2>1. g \in Firmware /\ Right(g, e) /\ Agree(g, e) /\ Usb(g) /\ Keys(g, e, D)
        BY <1>3 DEF Safe
      <2>2. /\ t \in Firmware /\ t.bt_state = g.bt_state /\ t.ring = g.ring /\ t.wire = g.wire
            /\ t.transport = g.transport /\ t.driver = g.driver
            /\ t.host_index = g.host_index /\ t.pincodeEntry = g.pincodeEntry
            /\ t.held = g.held /\ t.usbDown = g.usbDown
        BY <1>5, <2>1 DEF Firmware
      <2>3. Right(t, e) /\ Agree(t, e) /\ Usb(t) /\ Keys(t, e, D)
        BY <2>1, <2>2 DEF Right, Agree, Usb, Keys
      <2> QED
        BY <1>3, <2>2, <2>3 DEF Safe
    <1> QED
      BY <1>2, <1>4, <1>5

(***************************************************************************)
(* What the events that are unread say about the module.                   *)
(***************************************************************************)

\* What an event says is so, unless a later event says otherwise.
Says(e, x) ==
    /\ x.type = "CONNECTED" => e.link = x.host
    /\ x.type = "DISCONNECTED" => e.link = 0 /\ e.target = 0 /\ e.pairing = 0
    /\ x.type = "RECONNECTING" => e.link = 0 /\ e.pairing = 0
    /\ x.type = "DISCOVERABLE" => e.link = 0 /\ e.target = 0

PinEvent(x) == x.type \in {"PINCODE_ENTRY", "EXIT_PINCODE_ENTRY"}

\* A link comes up only when all events are read, so that the firmware reads that
\* it is up before anything else; and then no event about the connection follows
\* until it is lost, which an event says.
Heard(e) ==
    /\ \A i \in DOMAIN e.rx : e.rx[i].type = "CONNECTED" => i = 1 /\ e.rx[i].host \in Hosts
    /\ e.link # 0 =>
          /\ e.target = 0 /\ e.pairing = 0
          /\ \A i \in DOMAIN e.rx :
                Status(e.rx[i]) => i = 1 /\ e.rx[i].type = "CONNECTED" /\ e.rx[i].host = e.link
    /\ \A i \in DOMAIN e.rx :
          Status(e.rx[i]) => Says(e, e.rx[i]) \/ \E j \in DOMAIN e.rx : j > i /\ Status(e.rx[j])
    /\ Fresh(e.rx) /\ e.link = 0 => Cut(e.rx)
    /\ e.pin = "NEVER" => \A i \in DOMAIN e.rx : ~PinEvent(e.rx[i])
    /\ \A h \in Hosts : h # e.link => e.hostDown[h] = {}

\* After a restart the module says that it is disconnected.
Resets(q) ==
    \A i \in DOMAIN q : q[i].type = "RESET" => \E j \in DOMAIN q : j > i /\ q[j].type = "DISCONNECTED"

\* The surroundings are the same, but for the events.
SameEnv(e, e1) ==
    /\ e1.link = e.link /\ e1.target = e.target /\ e1.pairing = e.pairing
    /\ e1.pin = e.pin /\ e1.hostDown = e.hostDown

\* The first event is read.
LEMMA TailEvents ==
    ASSUME NEW q \in Seq(Events), q # <<>>, NEW p, p = Tail(q)
    PROVE  /\ p \in Seq(Events) /\ Head(q) \in Events
           /\ Pending(q) <=> Status(Head(q)) \/ Pending(p)
           /\ Cut(q) <=> Head(q).type = "DISCONNECTED" \/ Cut(p)
           /\ Fresh(q) <=> Head(q).type = "CONNECTED" \/ Fresh(p)
           /\ Cut(p) => Pending(p)
           /\ \A i \in DOMAIN p : i + 1 \in DOMAIN q /\ p[i] = q[i + 1] /\ i \in Nat /\ i > 0
           /\ \A i \in DOMAIN q : i \in Nat /\ i > 0 /\ (i = 1 \/ (i - 1 \in DOMAIN p /\ q[i] = p[i - 1]))
           /\ 1 \in DOMAIN q /\ q[1] = Head(q)
    <1> DEFINE n == Len(q)
    <1>1. /\ n \in Nat /\ n > 0 /\ DOMAIN q = 1 .. n /\ DOMAIN p = 1 .. n - 1
          /\ \A i \in 1 .. n - 1 : p[i] = q[i + 1]
          /\ Head(q) = q[1] /\ p \in Seq(Events)
      BY TailFacts
    <1>2. Head(q) \in Events
      OBVIOUS
    <1> HIDE DEF n
    <1>3. \A i \in DOMAIN p : i + 1 \in DOMAIN q /\ p[i] = q[i + 1] /\ i \in Nat /\ i > 0
      BY <1>1
    <1>4. \A i \in DOMAIN q : i \in Nat /\ i > 0 /\ (i = 1 \/ (i - 1 \in DOMAIN p /\ q[i] = p[i - 1]))
      BY <1>1
    <1>5. 1 \in DOMAIN q
      BY <1>1
    <1>6. /\ \A i \in DOMAIN p : \E j \in DOMAIN q : p[i] = q[j]
          /\ \A i \in DOMAIN q : q[i] = Head(q) \/ \E j \in DOMAIN p : q[i] = p[j]
          /\ \E j \in DOMAIN q : q[j] = Head(q)
      <2>1. \A i \in DOMAIN p : \E j \in DOMAIN q : p[i] = q[j]
        BY <1>3
      <2>2. ASSUME NEW i \in DOMAIN q, q[i] # Head(q)
            PROVE  \E j \in DOMAIN p : q[i] = p[j]
        <3>1. i # 1
          BY <1>1, <2>2
        <3> QED
          BY <1>4, <3>1
      <2> QED
        BY <1>1, <1>5, <2>1, <2>2
    <1>7. Pending(q) <=> Status(Head(q)) \/ Pending(p)
      BY <1>6 DEF Pending
    <1>8. Cut(q) <=> Head(q).type = "DISCONNECTED" \/ Cut(p)
      BY <1>6 DEF Cut
    <1>9. Fresh(q) <=> Head(q).type = "CONNECTED" \/ Fresh(p)
      BY <1>6 DEF Fresh
    <1>10. Cut(p) => Pending(p)
      BY DEF Cut, Pending, Status
    <1> QED
      BY <1>1, <1>2, <1>3, <1>4, <1>5, <1>7, <1>8, <1>9, <1>10

LEMMA HeadEvent ==
    ASSUME NEW e \in Envs, Heard(e), Resets(e.rx), e.rx # <<>>, NEW p, p = Tail(e.rx),
           NEW x, x = Head(e.rx)
    PROVE  /\ ~Fresh(p) /\ Resets(p)
           /\ e.link # 0 => /\ ~Pending(p) /\ e.target = 0 /\ e.pairing = 0
                            /\ Status(x) => x.type = "CONNECTED" /\ x.host = e.link
           /\ Status(x) => Says(e, x) \/ Pending(p)
           /\ x.type = "RESET" => Cut(p)
           /\ x.type = "CONNECTED" => x.host \in Hosts /\ (e.link = 0 => Cut(p))
           /\ e.pin = "NEVER" => ~PinEvent(x)
    <1> DEFINE q == e.rx
    <1>1. q \in Seq(Events) /\ q # <<>> /\ p = Tail(q) /\ x = Head(q)
      BY DEF Envs
    <1> HIDE DEF q
    <1>2. /\ Pending(q) <=> Status(Head(q)) \/ Pending(p)
          /\ Cut(q) <=> Head(q).type = "DISCONNECTED" \/ Cut(p)
          /\ Fresh(q) <=> Head(q).type = "CONNECTED" \/ Fresh(p)
          /\ \A i \in DOMAIN p : i + 1 \in DOMAIN q /\ p[i] = q[i + 1] /\ i \in Nat /\ i > 0
          /\ \A i \in DOMAIN q : i \in Nat /\ i > 0 /\ (i = 1 \/ (i - 1 \in DOMAIN p /\ q[i] = p[i - 1]))
          /\ 1 \in DOMAIN q /\ q[1] = Head(q)
      BY <1>1, TailEvents
    <1>3. /\ \A i \in DOMAIN q : q[i].type = "CONNECTED" => i = 1 /\ q[i].host \in Hosts
          /\ e.link # 0 => /\ e.target = 0 /\ e.pairing = 0
                           /\ \A i \in DOMAIN q : Status(q[i]) => i = 1 /\ q[i].type = "CONNECTED"
                                                                  /\ q[i].host = e.link
          /\ \A i \in DOMAIN q : Status(q[i]) => Says(e, q[i]) \/ \E j \in DOMAIN q : j > i /\ Status(q[j])
          /\ Fresh(q) /\ e.link = 0 => Cut(q)
          /\ e.pin = "NEVER" => \A i \in DOMAIN q : ~PinEvent(q[i])
          /\ Resets(q)
      BY DEF Heard, q
    <1>4. ~Fresh(p)
      <2>1. SUFFICES ASSUME NEW i \in DOMAIN p, p[i].type = "CONNECTED" PROVE FALSE
        BY DEF Fresh
      <2>2. i + 1 = 1 /\ i \in Nat /\ i > 0
        BY <1>2, <1>3, <2>1
      <2> QED
        BY <2>2
    <1>5. ASSUME e.link # 0, Pending(p) PROVE FALSE
      <2>1. PICK i \in DOMAIN p : Status(p[i])
        BY <1>5 DEF Pending
      <2>2. i + 1 = 1 /\ i \in Nat /\ i > 0
        BY <1>2, <1>3, <1>5, <2>1
      <2> QED
        BY <2>2
    <1>6. ASSUME Status(x) PROVE Says(e, x) \/ Pending(p)
      <2>1. CASE \E j \in DOMAIN q : j > 1 /\ Status(q[j])
        <3>1. PICK j \in DOMAIN q : j > 1 /\ Status(q[j])
          BY <2>1
        <3>2. j - 1 \in DOMAIN p /\ q[j] = p[j - 1]
          BY <1>2, <3>1
        <3> QED
          BY <3>1, <3>2 DEF Pending
      <2> QED
        BY <1>1, <1>2, <1>3, <1>6, <2>1
    <1>7. ASSUME x.type = "RESET" PROVE Cut(p)
      <2>1. PICK j \in DOMAIN q : j > 1 /\ q[j].type = "DISCONNECTED"
        BY <1>1, <1>2, <1>3, <1>7 DEF Resets
      <2>2. j - 1 \in DOMAIN p /\ q[j] = p[j - 1]
        BY <1>2, <2>1
      <2> QED
        BY <2>1, <2>2 DEF Cut
    <1>8. Resets(p)
      <2>1. SUFFICES ASSUME NEW i \in DOMAIN p, p[i].type = "RESET"
                     PROVE  \E j \in DOMAIN p : j > i /\ p[j].type = "DISCONNECTED"
        BY DEF Resets
      <2>2. i + 1 \in DOMAIN q /\ q[i + 1].type = "RESET" /\ i \in Nat /\ i > 0
        BY <1>2, <2>1
      <2>3. PICK j \in DOMAIN q : j > i + 1 /\ q[j].type = "DISCONNECTED"
        BY <1>3, <2>2 DEF Resets
      <2>4. j - 1 \in DOMAIN p /\ q[j] = p[j - 1] /\ j - 1 > i
        BY <1>2, <2>2, <2>3
      <2> QED
        BY <2>3, <2>4
    <1>9. ASSUME x.type = "CONNECTED" PROVE x.host \in Hosts /\ (e.link = 0 => Cut(p))
      BY <1>1, <1>2, <1>3, <1>9
    <1> QED
      BY <1>1, <1>2, <1>3, <1>4, <1>5, <1>6, <1>7, <1>8, <1>9

LEMMA TailHeard ==
    ASSUME NEW e \in Envs, Heard(e), Resets(e.rx), e.rx # <<>>, NEW e1, SameEnv(e, e1),
           e1.rx = Tail(e.rx)
    PROVE  Heard(e1) /\ Resets(e1.rx)
    <1> DEFINE q == e.rx
               p == e1.rx
    <1>1. q \in Seq(Events) /\ q # <<>> /\ p = Tail(q)
      BY DEF Envs
    <1>2. /\ ~Fresh(p) /\ Resets(p) /\ (e.link # 0 => ~Pending(p) /\ e.target = 0 /\ e.pairing = 0)
      BY HeadEvent
    <1> HIDE DEF q, p
    <1>3. /\ \A i \in DOMAIN p : i + 1 \in DOMAIN q /\ p[i] = q[i + 1] /\ i \in Nat /\ i > 0
          /\ \A i \in DOMAIN q : i \in Nat /\ i > 0 /\ (i = 1 \/ (i - 1 \in DOMAIN p /\ q[i] = p[i - 1]))
      BY <1>1, TailEvents
    <1>4. /\ \A i \in DOMAIN q : Status(q[i]) => Says(e, q[i]) \/ \E j \in DOMAIN q : j > i /\ Status(q[j])
          /\ e.pin = "NEVER" => \A i \in DOMAIN q : ~PinEvent(q[i])
          /\ \A h \in Hosts : h # e.link => e.hostDown[h] = {}
      BY DEF Heard, q
    <1>5. ASSUME NEW i \in DOMAIN p, Status(p[i]), ~Says(e1, p[i])
          PROVE  \E j \in DOMAIN p : j > i /\ Status(p[j])
      <2>1. i + 1 \in DOMAIN q /\ p[i] = q[i + 1] /\ i \in Nat /\ i > 0
        BY <1>3
      <2>2. ~Says(e, p[i])
        BY <1>5 DEF Says, SameEnv
      <2>3. PICK j \in DOMAIN q : j > i + 1 /\ Status(q[j])
        BY <1>4, <1>5, <2>1, <2>2
      <2>4. j - 1 \in DOMAIN p /\ q[j] = p[j - 1] /\ j - 1 > i
        BY <1>3, <2>1, <2>3
      <2> QED
        BY <2>3, <2>4
    <1>6. e1.pin = "NEVER" => \A i \in DOMAIN p : ~PinEvent(p[i])
      BY <1>3, <1>4 DEF SameEnv
    <1>7. \A h \in Hosts : h # e1.link => e1.hostDown[h] = {}
      BY <1>4 DEF SameEnv
    <1>8. \A i \in DOMAIN p : p[i].type # "CONNECTED"
      BY <1>2 DEF Fresh
    <1>9. e1.link # 0 => /\ e1.target = 0 /\ e1.pairing = 0
                         /\ \A i \in DOMAIN p : ~Status(p[i])
      BY <1>2 DEF SameEnv, Pending
    <1>10. Heard(e1)
      BY <1>2, <1>5, <1>6, <1>7, <1>8, <1>9 DEF Heard, p
    <1> QED
      BY <1>2, <1>10 DEF p

(***************************************************************************)
(* The event handlers.                                                     *)
(***************************************************************************)

\* The kinds that a host believes pressed when nothing is on its way to it.
LEMMA NothingSent ==
    ASSUME NEW ring, NEW wire, NEW base, ring = <<>>, NoReports(wire), base = {}, NEW kind
    PROVE  ~Final(ring, wire, base, kind)
    <1>1. None(ring, kind) /\ ~LastDown(ring, kind)
      BY EmptyReports
    <1>2. ~LastDown(wire, kind)
      BY DEF NoReports, LastDown, Of
    <1> QED
      BY <1>1, <1>2 DEF Final

\* An event that changes neither the ring nor the connection, when the module is
\* not linked.
LEMMA StateSafe ==
    ASSUME NEW f, NEW t \in Firmware, NEW e, NEW e1, NEW D, NEW D1, Safe(f, e, D),
           t.bt_state # "CONNECTED", e.link = 0, SameEnv(e, e1),
           t.ring = <<>> \/ (t.ring = f.ring /\ (Cut(e.rx) <=> Cut(e1.rx))) \/ (t.ring = f.ring /\ Cut(e1.rx)),
           t.pincodeEntry = f.pincodeEntry, t.driver = f.driver, t.held = f.held,
           t.usbDown = f.usbDown,
           Pending(e1.rx) \/ (/\ e.target # 0 => t.bt_state = "RECONNECTING"
                              /\ e.pairing # 0 => t.bt_state = "PARING")
    PROVE  Safe(t, e1, D1)
    <1>1. Right(f, e) /\ Usb(f) /\ Keys(f, e, D)
      BY DEF Safe
    <1>2. t.ring = <<>> => ForNone(t.ring) /\ ForSome(t.ring)
      BY DEF ForNone, ForSome
    <1>3. Right(t, e1)
      BY <1>1, <1>2 DEF Right, SameEnv
    <1>4. Agree(t, e1)
      BY DEF Agree, SameEnv
    <1>5. Keys(t, e1, D1)
      BY <1>1, <1>2 DEF Keys, SameEnv
    <1>6. Usb(t)
      BY <1>1 DEF Usb
    <1> QED
      BY <1>3, <1>4, <1>5, <1>6 DEF Safe

\* The state before clear_keyboard in bluetooth_enter_connected.
LEMMA ConnectedSafe ==
    ASSUME NEW f, NEW e, NEW e1, NEW D, Safe(f, e, D), SameEnv(e, e1), NEW h \in Hosts,
           NEW t \in Firmware, t.bt_state = "CONNECTED", t.host_index = h,
           t.ring = f.ring, t.wire = f.wire, t.pincodeEntry = f.pincodeEntry,
           t.driver = f.driver, t.held = f.held, t.usbDown = f.usbDown,
           Pending(e.rx), ~Fresh(e1.rx),
           e.link # 0 => h = e.link /\ ~Pending(e1.rx) /\ e.target = 0 /\ e.pairing = 0,
           e.link = 0 => Cut(e1.rx) /\ Pending(e1.rx)
    PROVE  Safe(t, e1, {})
    <1> DEFINE E == {}
               base == e.hostDown[e.link]
    <1>1. f \in Firmware /\ Right(f, e) /\ Usb(f) /\ Keys(f, e, D)
      BY DEF Safe
    <1>4. Right(t, e1)
      BY <1>1 DEF Right, SameEnv
    <1>5. Agree(t, e1)
      BY DEF Agree, SameEnv
    <1>6. ASSUME e.pin = "NEVER", e.link # 0
          PROVE  \A kind \in Kinds : ~Final(t.ring, t.wire, base, kind)
      <2>1. f.ring = <<>> /\ NoReports(f.wire) /\ base = {}
        BY <1>1, <1>6 DEF Keys
      <2> HIDE DEF base
      <2> QED
        BY <2>1, NothingSent
    <1>7. \A kind \in Kinds : kind \notin E
      OBVIOUS
    <1> HIDE DEF E
    <1>8. Keys(t, e1, E)
      BY <1>1, <1>6, <1>7 DEF Keys, SameEnv
    <1>9. Usb(t)
      BY <1>1 DEF Usb
    <1> QED
      BY <1>4, <1>5, <1>8, <1>9 DEF Safe, E

\* An event about PIN entry.
LEMMA PinSafe ==
    ASSUME NEW f, NEW t \in Firmware, NEW e, NEW e1, NEW D, NEW D1, Safe(f, e, D), SameEnv(e, e1),
           e.pin # "NEVER", Cut(e.rx) <=> Cut(e1.rx), Pending(e.rx) <=> Pending(e1.rx),
           Fresh(e.rx) <=> Fresh(e1.rx),
           t.bt_state = f.bt_state, t.host_index = f.host_index, t.ring = f.ring, t.wire = f.wire,
           t.driver = f.driver, t.held = f.held, t.usbDown = f.usbDown
    PROVE  Safe(t, e1, D1)
    <1>1. Right(f, e) /\ Agree(f, e) /\ Usb(f)
      BY DEF Safe
    <1>2. Right(t, e1) /\ Agree(t, e1)
      BY <1>1 DEF Right, Agree, SameEnv
    <1>3. Keys(t, e1, D1)
      BY DEF Keys, SameEnv
    <1>4. Usb(t)
      BY <1>1 DEF Usb
    <1> QED
      BY <1>2, <1>3, <1>4 DEF Safe

LEMMA EnterSafe ==
    ASSUME NEW f, NEW e, NEW e1, NEW D, Safe(f, e, D), SameEnv(e, e1), e.link = 0,
           NEW s \in States \ {"CONNECTED"}, NEW t, t = [f EXCEPT !.bt_state = s],
           Cut(e1.rx) \/ (Cut(e.rx) <=> Cut(e1.rx)),
           Pending(e1.rx) \/ (/\ e.target # 0 => s = "RECONNECTING"
                              /\ e.pairing # 0 => s = "PARING")
    PROVE  /\ Safe(t, e1, Believed(t)) /\ t.driver = f.driver /\ t.transport = f.transport
    <1>1. f \in Firmware
      BY DEF Safe
    <1>2. /\ t \in Firmware /\ t.bt_state = s /\ t.ring = f.ring /\ t.pincodeEntry = f.pincodeEntry
          /\ t.driver = f.driver /\ t.transport = f.transport /\ t.held = f.held
          /\ t.usbDown = f.usbDown
      BY <1>1 DEF Firmware
    <1> QED
      BY <1>2, StateSafe

\* bluetooth_enter_disconnected empties the ring, and may start to reconnect.
LEMMA EnterDisconnectedSafe ==
    ASSUME NEW f, NEW e, NEW e1, NEW D, Safe(f, e, D), SameEnv(e, e1), e.link = 0,
           NEW early \in BOOLEAN, NEW zero \in BOOLEAN,
           NEW t, t = bluetooth_enter_disconnected(f, early, zero),
           Pending(e1.rx) \/ (e.target = 0 /\ e.pairing = 0)
    PROVE  /\ Safe(t, e1, Believed(t)) /\ t.driver = f.driver /\ t.transport = f.transport
    <1> DEFINE a == [f EXCEPT !.bt_state = "DISCONNECTED"]
               g == [a EXCEPT !.ring = <<>>, !.due = FALSE]
               c == bluetooth_connect(g, zero)
               B == Believed(g)
    <1>1. f \in Firmware
      BY DEF Safe
    <1>2. /\ a \in Firmware /\ a.bt_state = "DISCONNECTED" /\ a.pincodeEntry = f.pincodeEntry
          /\ a.driver = f.driver /\ a.transport = f.transport /\ a.held = f.held
          /\ a.usbDown = f.usbDown
      BY <1>1 DEF Firmware, States
    <1>3. t = g \/ t = [c EXCEPT !.firstDisconnect = FALSE]
      BY DEF bluetooth_enter_disconnected, bluetooth_enter_disconnected_kb, report_buffer_init
    <1> HIDE DEF a
    <1>4. /\ g \in Firmware /\ g.bt_state = "DISCONNECTED" /\ g.pincodeEntry = f.pincodeEntry
          /\ g.driver = f.driver /\ g.transport = f.transport /\ g.held = f.held
          /\ g.usbDown = f.usbDown /\ g.ring = <<>>
      <2>1. <<>> \in Seq(Reports)
        OBVIOUS
      <2> QED
        BY <1>2, <2>1 DEF Firmware
    <1> HIDE DEF g, B
    <1>5. Safe(g, e1, B)
      BY <1>4, StateSafe
    <1>6. Safe(c, e1, B) /\ Frame(g, c)
      <2>1. g.bt_state # "CONNECTED"
        BY <1>4
      <2> QED
        BY <1>5, <2>1, ConnectSafe
    <1> HIDE DEF c
    <1>7. CASE t = g
      BY <1>4, <1>5, <1>7 DEF B
    <1>8. CASE t = [c EXCEPT !.firstDisconnect = FALSE]
      <2>1. c \in Firmware
        BY <1>6 DEF Safe
      <2>2. /\ t \in Firmware /\ Frame(c, t) /\ t.bt_state = c.bt_state /\ t.ring = c.ring
            /\ t.wire = c.wire
        BY <1>8, <2>1 DEF Firmware, Frame
      <2>3. Safe(t, e1, B)
        BY <1>6, <2>2, FrameSafe
      <2>4. t.driver = g.driver /\ t.transport = g.transport /\ t.held = g.held
        BY <1>6, <2>2 DEF Frame
      <2>5. Believed(t) = B
        BY <2>4 DEF Believed, B
      <2> QED
        BY <1>4, <2>3, <2>4, <2>5
    <1> QED
      BY <1>3, <1>7, <1>8

LEMMA EnterConnectedSafe ==
    ASSUME NEW f, NEW e, NEW e1, NEW D, Safe(f, e, D), SameEnv(e, e1), NEW h \in Hosts,
           NEW zero \in BOOLEAN, NEW t, t = bluetooth_enter_connected(f, h, zero),
           Pending(e.rx), ~Fresh(e1.rx),
           e.link # 0 => h = e.link /\ ~Pending(e1.rx) /\ e.target = 0 /\ e.pairing = 0,
           e.link = 0 => Cut(e1.rx) /\ Pending(e1.rx)
    PROVE  /\ Safe(t, e1, Believed(t)) /\ t.driver = f.driver /\ t.transport = f.transport
    <1> DEFINE g == [f EXCEPT !.bt_state = "CONNECTED", !.host_index = h]
               c == clear_keyboard(g, zero)
               E == {}
    <1>1. t = [c EXCEPT !.nkro = c.nkroBt]
      BY DEF bluetooth_enter_connected
    <1>2. /\ g \in Firmware /\ g.bt_state = "CONNECTED" /\ g.host_index = h
          /\ g.ring = f.ring /\ g.wire = f.wire /\ g.pincodeEntry = f.pincodeEntry
          /\ g.driver = f.driver /\ g.transport = f.transport /\ g.held = f.held
          /\ g.usbDown = f.usbDown
      BY DEF Safe, Firmware, States, HostIndex
    <1> HIDE DEF c, g
    <1>3. Safe(g, e1, {}) /\ g.driver = f.driver /\ g.transport = f.transport
      BY <1>2, ConnectedSafe
    <1>4. Safe(g, e1, E) /\ Within(E, g)
      BY <1>3 DEF Within
    <1> HIDE DEF E
    <1>5. /\ Safe(c, e1, {}) /\ c.held = {} /\ Believed(c) = {}
          /\ c.driver = g.driver /\ c.transport = g.transport
      BY <1>4, ClearSafe DEF c
    <1>6. c \in Firmware
      BY <1>5 DEF Safe
    <1>7. /\ t \in Firmware /\ Frame(c, t) /\ t.bt_state = c.bt_state /\ t.ring = c.ring
          /\ t.wire = c.wire
      BY <1>1, <1>6 DEF Firmware, Frame
    <1>8. t.held = {} /\ t.driver = c.driver /\ t.transport = c.transport
      BY <1>5, <1>7 DEF Frame
    <1>9. Believed(t) = {}
      BY <1>8 DEF Believed
    <1>10. Safe(t, e1, {})
      BY <1>5, <1>7, FrameSafe
    <1> QED
      BY <1>3, <1>5, <1>8, <1>9, <1>10

LEMMA EventSafe ==
    ASSUME NEW f, NEW e \in Envs, NEW e1, NEW D, Safe(f, e, D), Heard(e), Resets(e.rx),
           e.rx # <<>>, SameEnv(e, e1), e1.rx = Tail(e.rx),
           NEW early \in BOOLEAN, NEW zero \in BOOLEAN,
           NEW t, t = bluetooth_event_queue_task(f, Head(e.rx), early, zero)
    PROVE  /\ Safe(t, e1, Believed(t)) /\ t.driver = f.driver /\ t.transport = f.transport
    <1> DEFINE q == e.rx
               p == e1.rx
               x == Head(q)
    <1>1. /\ ~Fresh(p)
          /\ e.link # 0 => /\ ~Pending(p) /\ e.target = 0 /\ e.pairing = 0
                           /\ Status(x) => x.type = "CONNECTED" /\ x.host = e.link
          /\ Status(x) => Says(e, x) \/ Pending(p)
          /\ x.type = "RESET" => Cut(p)
          /\ x.type = "CONNECTED" => x.host \in Hosts /\ (e.link = 0 => Cut(p))
          /\ e.pin = "NEVER" => ~PinEvent(x)
      BY HeadEvent
    <1>2. q \in Seq(Events) /\ q # <<>> /\ p = Tail(q)
      BY DEF Envs
    <1>3. /\ x \in Events
          /\ Pending(q) <=> Status(x) \/ Pending(p)
          /\ Cut(q) <=> x.type = "DISCONNECTED" \/ Cut(p)
          /\ Fresh(q) <=> x.type = "CONNECTED" \/ Fresh(p)
          /\ Cut(p) => Pending(p)
      <2> HIDE DEF p, q
      <2> QED
        BY <1>2, TailEvents
    <1>4. f \in Firmware
      BY DEF Safe
    <1>5. t = bluetooth_event_queue_task(f, x, early, zero)
      OBVIOUS
    <1>6. x.type \in {"RESET", "CONNECTED", "DISCOVERABLE", "RECONNECTING", "DISCONNECTED",
                      "PINCODE_ENTRY", "EXIT_PINCODE_ENTRY"}
      BY <1>3 DEF Events
    <1> HIDE DEF x
    <1>7. CASE x.type = "RESET"
      <2>1. t = [f EXCEPT !.bt_state = "RESET"]
        BY <1>5, <1>7 DEF bluetooth_event_queue_task, bluetooth_enter_reset
      <2>2. Cut(p) /\ Pending(p) /\ e.link = 0
        BY <1>1, <1>3, <1>7
      <2> DEFINE s == "RESET"
      <2>3. t = [f EXCEPT !.bt_state = s] /\ s \in States \ {"CONNECTED"}
        BY <2>1 DEF States
      <2> HIDE DEF s
      <2> QED
        BY <2>2, <2>3, EnterSafe
    <1>8. CASE x.type = "CONNECTED"
      <2>1. t = bluetooth_enter_connected(f, x.host, zero)
        BY <1>5, <1>8 DEF bluetooth_event_queue_task
      <2>2. Status(x)
        BY <1>8 DEF Status
      <2>3. /\ x.host \in Hosts /\ Pending(q)
            /\ e.link # 0 => x.host = e.link /\ ~Pending(p) /\ e.target = 0 /\ e.pairing = 0
            /\ e.link = 0 => Cut(p) /\ Pending(p)
        BY <1>1, <1>3, <1>8, <2>2
      <2> QED
        BY <1>1, <2>1, <2>3, EnterConnectedSafe
    <1>9. CASE x.type \in {"DISCOVERABLE", "RECONNECTING"}
      <2>1. Status(x)
        BY <1>9 DEF Status
      <2>2. e.link = 0
        BY <1>1, <1>9, <2>1
      <2>3. Cut(q) <=> Cut(p)
        BY <1>3, <1>9
      <2>4. PICK s \in {"PARING", "RECONNECTING"} :
                   t = [f EXCEPT !.bt_state = s] /\ (s = "PARING" <=> x.type = "DISCOVERABLE")
        BY <1>5, <1>9 DEF bluetooth_event_queue_task, bluetooth_enter_discoverable,
                          bluetooth_enter_reconnecting
      <2>5. s \in States \ {"CONNECTED"}
        BY DEF States
      <2>6. Pending(p) \/ (/\ e.target # 0 => s = "RECONNECTING"
                           /\ e.pairing # 0 => s = "PARING")
        BY <1>1, <1>9, <2>1, <2>4 DEF Says
      <2> QED
        BY <2>2, <2>3, <2>4, <2>5, <2>6, EnterSafe
    <1>10. CASE x.type = "DISCONNECTED"
      <2>1. t = bluetooth_enter_disconnected(f, early, zero)
        BY <1>5, <1>10 DEF bluetooth_event_queue_task
      <2>2. Status(x)
        BY <1>10 DEF Status
      <2>3. e.link = 0 /\ (Pending(p) \/ (e.target = 0 /\ e.pairing = 0))
        BY <1>1, <1>10, <2>2 DEF Says
      <2> QED
        BY <2>1, <2>3, EnterDisconnectedSafe
    <1>11. CASE x.type \in {"PINCODE_ENTRY", "EXIT_PINCODE_ENTRY"}
      <2>1. ~Status(x) /\ PinEvent(x)
        BY <1>11 DEF Status, PinEvent
      <2>2. /\ e.pin # "NEVER" /\ (Cut(q) <=> Cut(p)) /\ (Pending(q) <=> Pending(p))
            /\ (Fresh(q) <=> Fresh(p))
        BY <1>1, <1>3, <1>11, <2>1
      <2>3. PICK b \in BOOLEAN, n \in BOOLEAN : t = [f EXCEPT !.nkro = n, !.pincodeEntry = b]
        BY <1>5, <1>11 DEF bluetooth_event_queue_task, bluetooth_enter_pin_code_entry,
                           bluetooth_exit_pin_code_entry
      <2>4. /\ t \in Firmware /\ t.bt_state = f.bt_state /\ t.host_index = f.host_index
            /\ t.ring = f.ring /\ t.wire = f.wire /\ t.driver = f.driver
            /\ t.transport = f.transport /\ t.held = f.held /\ t.usbDown = f.usbDown
        BY <1>4, <2>3 DEF Firmware
      <2> QED
        BY <2>2, <2>4, PinSafe
    <1> QED
      BY <1>6, <1>7, <1>8, <1>9, <1>10, <1>11

(***************************************************************************)
(* The module's steps.                                                     *)
(***************************************************************************)
\* p is q and x at its end, at n.
Ends(p, q, x, n) ==
    /\ p[n] = x /\ \A i \in DOMAIN q : n > i
    /\ \A i \in DOMAIN p : i = n \/ (i \in DOMAIN q /\ p[i] = q[i])

LEMMA AppendEvents ==
    ASSUME NEW q \in Seq(Events), NEW x \in Events, NEW p, p = Append(q, x)
    PROVE  /\ p \in Seq(Events)
           /\ Pending(p) <=> Pending(q) \/ Status(x)
           /\ Cut(p) <=> Cut(q) \/ x.type = "DISCONNECTED"
           /\ Fresh(p) <=> Fresh(q) \/ x.type = "CONNECTED"
           /\ \A i \in DOMAIN q : i \in DOMAIN p /\ p[i] = q[i]
           /\ \E n \in DOMAIN p : Ends(p, q, x, n)
    <1> DEFINE n == Len(q) + 1
    <1>1. /\ DOMAIN q = 1 .. Len(q) /\ DOMAIN p = 1 .. Len(q) + 1 /\ Len(q) \in Nat
          /\ \A i \in 1 .. Len(q) : p[i] = q[i]
          /\ p[Len(q) + 1] = x
      BY AppendFacts
    <1>2. /\ n \in DOMAIN p /\ p[n] = x
          /\ \A i \in DOMAIN q : n > i
          /\ \A i \in DOMAIN p : i = n \/ (i \in DOMAIN q /\ p[i] = q[i])
          /\ \A i \in DOMAIN q : i \in DOMAIN p /\ p[i] = q[i]
      BY <1>1
    <1> HIDE DEF n
    <1>3. Pending(p) <=> Pending(q) \/ Status(x)
      BY <1>2 DEF Pending
    <1>4. Cut(p) <=> Cut(q) \/ x.type = "DISCONNECTED"
      BY <1>2 DEF Cut
    <1>5. Fresh(p) <=> Fresh(q) \/ x.type = "CONNECTED"
      BY <1>2 DEF Fresh
    <1>6. p \in Seq(Events)
      OBVIOUS
    <1> QED
      BY <1>2, <1>3, <1>4, <1>5, <1>6 DEF Ends

\* The module gives up its link, or says what it does without one.  Whatever it
\* took off the UART, the unread event makes up for it.
LEMMA StatusSafe ==
    ASSUME NEW f, NEW t \in Firmware, NEW e \in Envs, NEW e1, NEW D, NEW D1, Safe(f, e, D),
           Frame(f, t), t.bt_state = f.bt_state, t.ring = f.ring,
           NEW x \in Events, Status(x), x.type # "CONNECTED", e.link # 0 => x.type = "DISCONNECTED",
           e1.rx = Append(e.rx, x), e1.link = 0, e1.pin = "NEVER" => e.pin = "NEVER"
    PROVE  Safe(t, e1, D1)
    <1> DEFINE q == e.rx
               p == e1.rx
    <1>1. q \in Seq(Events) /\ p = Append(q, x)
      BY DEF Envs
    <1> HIDE DEF q, p
    <1>2. /\ Pending(p) <=> Pending(q) \/ Status(x)
          /\ Cut(p) <=> Cut(q) \/ x.type = "DISCONNECTED"
          /\ Fresh(p) <=> Fresh(q) \/ x.type = "CONNECTED"
      BY <1>1, AppendEvents
    <1>3. Right(f, e) /\ Usb(f) /\ Keys(f, e, D)
      BY DEF Safe
    <1>4. Right(t, e1)
      BY <1>2, <1>3 DEF Right, Frame, p, q
    <1>5. Agree(t, e1)
      BY <1>2 DEF Agree, p
    <1>6. Keys(t, e1, D1)
      BY <1>3 DEF Keys, Frame
    <1>7. Usb(t)
      BY <1>3 DEF Usb, Frame
    <1> QED
      BY <1>4, <1>5, <1>6, <1>7 DEF Safe

\* No Bluetooth host believes anything pressed.
AllUp(e) == \A h \in Hosts : e.hostDown[h] = {}

LEMMA StatusHeard ==
    ASSUME NEW e \in Envs, NEW e1, Heard(e),
           NEW x \in Events, Status(x), x.type # "CONNECTED", e.link # 0 => x.type = "DISCONNECTED",
           e1.rx = Append(e.rx, x), e1.link = 0, Says(e1, x), e1.pin = "NEVER" => e.pin = "NEVER",
           AllUp(e1)
    PROVE  /\ Heard(e1)
           /\ x.type = "DISCONNECTED" \/ Resets(e.rx) => Resets(e1.rx)
    <1> DEFINE q == e.rx
               p == e1.rx
    <1>1. q \in Seq(Events) /\ p = Append(q, x)
      BY DEF Envs
    <1>2. /\ \A i \in DOMAIN q : q[i].type = "CONNECTED" => i = 1 /\ q[i].host \in Hosts
          /\ Fresh(q) /\ e.link = 0 => Cut(q)
          /\ e.pin = "NEVER" => \A i \in DOMAIN q : ~PinEvent(q[i])
      BY DEF Heard
    <1> HIDE DEF q, p
    <1>3. /\ Cut(p) <=> Cut(q) \/ x.type = "DISCONNECTED"
          /\ Fresh(p) <=> Fresh(q) \/ x.type = "CONNECTED"
          /\ \A i \in DOMAIN q : i \in DOMAIN p /\ p[i] = q[i]
          /\ \E n \in DOMAIN p : Ends(p, q, x, n)
      BY <1>1, AppendEvents
    <1>4. PICK n \in DOMAIN p : /\ p[n] = x
                                /\ \A i \in DOMAIN q : n > i
                                /\ \A i \in DOMAIN p : i = n \/ (i \in DOMAIN q /\ p[i] = q[i])
      BY <1>3 DEF Ends
    <1>5. \A i \in DOMAIN p : p[i].type = "CONNECTED" => i = 1 /\ p[i].host \in Hosts
      BY <1>2, <1>4
    <1>6. \A i \in DOMAIN p : Says(e1, p[i]) \/ \E j \in DOMAIN p : j > i /\ Status(p[j])
      BY <1>4
    <1>7. Fresh(p) => Cut(p)
      BY <1>2, <1>3
    <1>8. e1.pin = "NEVER" => \A i \in DOMAIN p : ~PinEvent(p[i])
      <2>1. ~PinEvent(x)
        BY DEF PinEvent, Status
      <2> QED
        BY <1>2, <1>4, <2>1
    <1>9. Heard(e1)
      BY <1>5, <1>6, <1>7, <1>8 DEF Heard, AllUp, p
    <1>10. ASSUME x.type = "DISCONNECTED" PROVE Resets(p)
      <2>1. \A i \in DOMAIN p : p[i].type = "RESET" => n > i /\ p[n].type = "DISCONNECTED"
        BY <1>4, <1>10
      <2> QED
        BY <2>1 DEF Resets
    <1>11. ASSUME Resets(q) PROVE Resets(p)
      <2>1. SUFFICES ASSUME NEW i \in DOMAIN p, p[i].type = "RESET"
                     PROVE  \E j \in DOMAIN p : j > i /\ p[j].type = "DISCONNECTED"
        BY DEF Resets
      <2>2. i \in DOMAIN q /\ q[i].type = "RESET"
        BY <1>4, <2>1 DEF Status
      <2>3. PICK j \in DOMAIN q : j > i /\ q[j].type = "DISCONNECTED"
        BY <1>11, <2>2 DEF Resets
      <2> QED
        BY <1>3, <2>3
    <1> QED
      BY <1>9, <1>10, <1>11 DEF p, q

\* An event that says nothing of the connection.
LEMMA OtherSafe ==
    ASSUME NEW f, NEW e \in Envs, NEW e1, NEW D, Safe(f, e, D), NEW x \in Events, ~Status(x),
           e1.rx = Append(e.rx, x), e1.link = e.link, e1.target = e.target, e1.pairing = e.pairing,
           e1.hostDown = e.hostDown, e1.pin = "NEVER" => e.pin = "NEVER"
    PROVE  Safe(f, e1, D)
    <1> DEFINE q == e.rx
               p == e1.rx
    <1>1. q \in Seq(Events) /\ p = Append(q, x)
      BY DEF Envs
    <1> HIDE DEF q, p
    <1>2. /\ Pending(p) <=> Pending(q) \/ Status(x)
          /\ Cut(p) <=> Cut(q) \/ x.type = "DISCONNECTED"
          /\ Fresh(p) <=> Fresh(q) \/ x.type = "CONNECTED"
      BY <1>1, AppendEvents
    <1>3. (Pending(p) <=> Pending(q)) /\ (Cut(p) <=> Cut(q)) /\ (Fresh(p) <=> Fresh(q))
      BY <1>2 DEF Status
    <1>4. f \in Firmware /\ Right(f, e) /\ Agree(f, e) /\ Usb(f) /\ Keys(f, e, D)
      BY DEF Safe
    <1>5. Right(f, e1)
      BY <1>3, <1>4 DEF Right, p, q
    <1>6. Agree(f, e1)
      BY <1>3, <1>4 DEF Agree, p, q
    <1>7. Keys(f, e1, D)
      BY <1>3, <1>4 DEF Keys, p, q
    <1> QED
      BY <1>4, <1>5, <1>6, <1>7 DEF Safe

LEMMA OtherHeard ==
    ASSUME NEW e \in Envs, NEW e1, Heard(e), NEW x \in Events, ~Status(x),
           e1.rx = Append(e.rx, x), e1.link = e.link, e1.target = e.target, e1.pairing = e.pairing,
           e1.hostDown = e.hostDown, e1.pin = "NEVER" => e.pin = "NEVER" /\ ~PinEvent(x)
    PROVE  /\ Heard(e1)
           /\ Resets(e.rx) /\ x.type # "RESET" => Resets(e1.rx)
    <1> DEFINE q == e.rx
               p == e1.rx
    <1>1. q \in Seq(Events) /\ p = Append(q, x)
      BY DEF Envs
    <1>2. /\ \A i \in DOMAIN q : q[i].type = "CONNECTED" => i = 1 /\ q[i].host \in Hosts
          /\ e.link # 0 => /\ e.target = 0 /\ e.pairing = 0
                           /\ \A i \in DOMAIN q : Status(q[i]) => i = 1 /\ q[i].type = "CONNECTED"
                                                                  /\ q[i].host = e.link
          /\ \A i \in DOMAIN q : Status(q[i]) => Says(e, q[i]) \/ \E j \in DOMAIN q : j > i /\ Status(q[j])
          /\ Fresh(q) /\ e.link = 0 => Cut(q)
          /\ e.pin = "NEVER" => \A i \in DOMAIN q : ~PinEvent(q[i])
          /\ \A h \in Hosts : h # e.link => e.hostDown[h] = {}
      BY DEF Heard
    <1> HIDE DEF q, p
    <1>3. /\ Cut(p) <=> Cut(q) \/ x.type = "DISCONNECTED"
          /\ Fresh(p) <=> Fresh(q) \/ x.type = "CONNECTED"
          /\ \A i \in DOMAIN q : i \in DOMAIN p /\ p[i] = q[i]
          /\ \E n \in DOMAIN p : Ends(p, q, x, n)
      BY <1>1, AppendEvents
    <1>4. PICK n \in DOMAIN p : /\ p[n] = x
                                /\ \A i \in DOMAIN q : n > i
                                /\ \A i \in DOMAIN p : i = n \/ (i \in DOMAIN q /\ p[i] = q[i])
      BY <1>3 DEF Ends
    <1>5. \A i \in DOMAIN p : Status(p[i]) => i \in DOMAIN q /\ p[i] = q[i]
      BY <1>4
    <1>6. \A i \in DOMAIN p : p[i].type = "CONNECTED" => i = 1 /\ p[i].host \in Hosts
      BY <1>2, <1>5 DEF Status
    <1>7. e1.link # 0 =>
             /\ e1.target = 0 /\ e1.pairing = 0
             /\ \A i \in DOMAIN p : Status(p[i]) => i = 1 /\ p[i].type = "CONNECTED" /\ p[i].host = e1.link
      BY <1>2, <1>5
    <1>8. ASSUME NEW i \in DOMAIN p, Status(p[i]), ~Says(e1, p[i])
          PROVE  \E j \in DOMAIN p : j > i /\ Status(p[j])
      <2>1. i \in DOMAIN q /\ p[i] = q[i] /\ ~Says(e, q[i])
        BY <1>5, <1>8 DEF Says
      <2>2. PICK j \in DOMAIN q : j > i /\ Status(q[j])
        BY <1>2, <1>8, <2>1
      <2> QED
        BY <1>3, <2>2
    <1>9. Fresh(p) /\ e1.link = 0 => Cut(p)
      BY <1>2, <1>3 DEF Status
    <1>10. e1.pin = "NEVER" => \A i \in DOMAIN p : ~PinEvent(p[i])
      BY <1>2, <1>4
    <1>11. Heard(e1)
      BY <1>2, <1>6, <1>7, <1>8, <1>9, <1>10 DEF Heard, p
    <1>12. ASSUME Resets(q), x.type # "RESET" PROVE Resets(p)
      <2>1. SUFFICES ASSUME NEW i \in DOMAIN p, p[i].type = "RESET"
                     PROVE  \E j \in DOMAIN p : j > i /\ p[j].type = "DISCONNECTED"
        BY DEF Resets
      <2>2. i \in DOMAIN q /\ q[i].type = "RESET"
        BY <1>4, <1>12, <2>1
      <2>3. PICK j \in DOMAIN q : j > i /\ q[j].type = "DISCONNECTED"
        BY <1>12, <2>2 DEF Resets
      <2> QED
        BY <1>3, <2>3
    <1> QED
      BY <1>11, <1>12 DEF p, q

\* A link comes up.
LEMMA LinkSafe ==
    ASSUME NEW f, NEW e, NEW e1, NEW D, NEW D1, Safe(f, e, D), Heard(e), e.rx = <<>>, e.link = 0,
           NoReports(f.wire), NEW h \in Hosts, e1.link = h, e1.rx = <<Event("CONNECTED", h)>>,
           e1.pin = e.pin, e1.hostDown = e.hostDown
    PROVE  Safe(f, e1, D1)
    <1>1. f \in Firmware /\ Right(f, e) /\ Usb(f) /\ Keys(f, e, D)
      BY DEF Safe
    <1>2. ~Cut(e.rx)
      BY DEF Cut
    <1>3. f.bt_state # "CONNECTED" /\ ForNone(f.ring)
      BY <1>1, <1>2 DEF Right
    <1>4. Pending(e1.rx)
      <2>1. 1 \in DOMAIN e1.rx /\ e1.rx[1].type = "CONNECTED"
        BY DEF Event
      <2> QED
        BY <2>1 DEF Pending, Status
    <1>5. For(f.ring, h) /\ For(f.wire, h)
      BY <1>3 DEF For, ForNone, NoReports
    <1>6. h # 0
      BY HostAssumption
    <1>7. Right(f, e1)
      BY <1>3, <1>5, <1>6 DEF Right
    <1>8. Agree(f, e1)
      BY <1>4 DEF Agree
    <1>9. ForSome(f.ring) => f.ring = <<>>
      <2>1. f.ring \in Seq(Reports)
        BY <1>1 DEF Firmware
      <2>2. ASSUME f.ring # <<>> PROVE 1 \in DOMAIN f.ring
        BY <2>1, <2>2
      <2> QED
        BY <1>3, <2>2 DEF ForSome, ForNone
    <1>10. e1.hostDown[h] = {}
      BY <1>6 DEF Heard
    <1>11. Keys(f, e1, D1)
      BY <1>1, <1>3, <1>4, <1>9, <1>10 DEF Keys
    <1> QED
      BY <1>1, <1>7, <1>8, <1>11 DEF Safe

LEMMA LinkHeard ==
    ASSUME NEW e, NEW e1, Heard(e), e.rx = <<>>, e.link = 0, NEW h \in Hosts, e1.link = h,
           e1.target = 0, e1.pairing = 0, e1.rx = <<Event("CONNECTED", h)>>, e1.hostDown = e.hostDown
    PROVE  Heard(e1) /\ Resets(e1.rx)
    <1>1. DOMAIN e1.rx = {1} /\ e1.rx[1].type = "CONNECTED" /\ e1.rx[1].host = h
      BY DEF Event
    <1>2. \A i \in DOMAIN e1.rx : i = 1 /\ e1.rx[i].type = "CONNECTED" /\ e1.rx[i].host = h
      BY <1>1
    <1>3. h # 0 /\ \A g \in Hosts : g # 0
      BY HostAssumption
    <1>4. \A g \in Hosts : e1.hostDown[g] = {}
      BY <1>3 DEF Heard
    <1>5. \A i \in DOMAIN e1.rx : Says(e1, e1.rx[i]) /\ ~PinEvent(e1.rx[i])
      BY <1>2 DEF Says, PinEvent
    <1>6. Heard(e1)
      BY <1>2, <1>3, <1>4, <1>5 DEF Heard
    <1>7. Resets(e1.rx)
      BY <1>2 DEF Resets
    <1> QED
      BY <1>6, <1>7

\* A report arrives at the host of the link.
LEMMA FinalTakes ==
    ASSUME NEW X, NEW s \in Seq(X), s # <<>>, NEW u, u = Tail(s), NEW ring, NEW base, NEW kind,
           Head(s).type = "REPORT", Head(s).down \in BOOLEAN
    PROVE  Final(ring, u, Update(base, Head(s).kind, Head(s).down), kind) <=> Final(ring, s, base, kind)
    <1> DEFINE r == Head(s)
               new == Update(base, r.kind, r.down)
    <1>1. /\ None(s, kind) <=> ~Of(r, kind) /\ None(u, kind)
          /\ LastDown(s, kind) <=> LastDown(u, kind) \/ (None(u, kind) /\ Of(r, kind) /\ r.down = TRUE)
      BY TailReports
    <1>2. r.type = "REPORT" /\ r.down \in BOOLEAN
      OBVIOUS
    <1> HIDE DEF r
    <1>3. Of(r, kind) <=> r.kind = kind
      BY <1>2 DEF Of
    <1>4. /\ r.kind = kind => (kind \in new <=> r.down = TRUE)
          /\ r.kind # kind => (kind \in new <=> kind \in base)
      BY <1>2 DEF Update
    <1>5. ~(None(u, kind) /\ LastDown(u, kind))
      BY DEF None, LastDown
    <1> HIDE DEF new
    <1>6. Final(ring, u, new, kind) <=> Final(ring, s, base, kind)
      BY <1>1, <1>3, <1>4, <1>5 DEF Final
    <1> QED
      BY <1>6 DEF new, r

LEMMA FinalSkips ==
    ASSUME NEW X, NEW s \in Seq(X), s # <<>>, NEW u, u = Tail(s), NEW ring, NEW base, NEW kind,
           Head(s).type # "REPORT"
    PROVE  Final(ring, u, base, kind) <=> Final(ring, s, base, kind)
    <1> DEFINE r == Head(s)
    <1>1. /\ None(s, kind) <=> ~Of(r, kind) /\ None(u, kind)
          /\ LastDown(s, kind) <=> LastDown(u, kind) \/ (None(u, kind) /\ Of(r, kind) /\ r.down = TRUE)
      BY TailReports
    <1>2. ~Of(r, kind)
      BY DEF Of
    <1> QED
      BY <1>1, <1>2 DEF Final

\* The module takes a command that leaves the link as it is.  down: the kinds that
\* the host of the link now believes pressed.
LEMMA TakeSafe ==
    ASSUME NEW f, NEW t \in Firmware, NEW e, NEW e1, NEW D, Safe(f, e, D), Frame(f, t),
           t.bt_state = f.bt_state, t.ring = f.ring, f.wire # <<>>, t.wire = Tail(f.wire),
           e1.rx = e.rx, e1.link = e.link, e1.target = e.target, e1.pairing = e.pairing,
           e1.pin = e.pin, QuietCommand(Head(f.wire), e.link),
           Head(f.wire).type # "REPORT" => e1.hostDown = e.hostDown,
           e.link # 0 /\ Head(f.wire).type = "REPORT" =>
              e1.hostDown[e.link] = Update(e.hostDown[e.link], Head(f.wire).kind, Head(f.wire).down)
    PROVE  Safe(t, e1, D)
    <1> DEFINE w == f.wire
               u == t.wire
               X == Reports \union Commands
               r == Head(w)
               old == e.hostDown[e.link]
               new == e1.hostDown[e.link]
    <1>1. f \in Firmware /\ Right(f, e) /\ Agree(f, e) /\ Usb(f) /\ Keys(f, e, D)
      BY DEF Safe
    <1>2. w \in Seq(X) /\ w # <<>> /\ u = Tail(w)
      BY <1>1 DEF Firmware
    <1>3. r \in X
      BY <1>2
    <1>4. r.down \in BOOLEAN
      BY <1>3 DEF Reports, Commands
    <1>5. QuietCommand(r, e.link)
      OBVIOUS
    <1> HIDE DEF w, u, X
    <1>6. /\ For(w, e.link) => For(u, e.link)
          /\ NoReports(w) => NoReports(u) /\ r.type # "REPORT"
          /\ Quiet(w, e.link) <=> Quiet(u, e.link) /\ QuietCommand(r, e.link)
      BY <1>2, TailHosts
    <1>7. Quiet(w, e.link) <=> Quiet(u, e.link)
      BY <1>5, <1>6
    <1>8. ASSUME e.link # 0, NEW kind \in Kinds
          PROVE  Final(t.ring, u, new, kind) <=> Final(f.ring, w, old, kind)
      <2>1. CASE r.type = "REPORT"
        <3>1. new = Update(old, r.kind, r.down)
          BY <1>8, <2>1 DEF w
        <3> HIDE DEF new, old
        <3>2. Final(f.ring, u, Update(old, r.kind, r.down), kind) <=> Final(f.ring, w, old, kind)
          BY <1>2, <1>4, <2>1, FinalTakes
        <3> QED
          BY <3>1, <3>2
      <2>2. CASE r.type # "REPORT"
        <3>1. new = old
          BY <2>2 DEF w
        <3> HIDE DEF new, old
        <3>2. Final(f.ring, u, old, kind) <=> Final(f.ring, w, old, kind)
          BY <1>2, <2>2, FinalSkips
        <3> QED
          BY <3>1, <3>2
      <2> QED
        BY <2>1, <2>2
    <1>9. Right(t, e1)
      BY <1>1, <1>6 DEF Right, Frame, w, u
    <1>10. Agree(t, e1)
      BY <1>1, <1>7 DEF Agree, w, u
    <1>11. Usb(t)
      BY <1>1 DEF Usb, Frame
    <1>12. Keys(t, e1, D)
      <2> SUFFICES ASSUME e1.pin = "NEVER"
                   PROVE  /\ t.pincodeEntry = FALSE /\ ForSome(t.ring)
                          /\ e1.link # 0 /\ Pending(e1.rx) =>
                                t.bt_state # "CONNECTED" /\ t.ring = <<>> /\ NoReports(t.wire)
                                /\ e1.hostDown[e1.link] = {}
                          /\ e1.link # 0 /\ ~Pending(e1.rx) /\ Quiet(t.wire, e1.link) =>
                                \A kind \in Kinds :
                                   Final(t.ring, t.wire, e1.hostDown[e1.link], kind) <=> kind \in D
        BY DEF Keys
      <2>1. t.pincodeEntry = FALSE /\ ForSome(t.ring)
        BY <1>1 DEF Keys, Frame
      <2>2. ASSUME e1.link # 0, Pending(e1.rx)
            PROVE  /\ t.bt_state # "CONNECTED" /\ t.ring = <<>> /\ NoReports(t.wire)
                   /\ e1.hostDown[e1.link] = {}
        <3>1. f.bt_state # "CONNECTED" /\ f.ring = <<>> /\ NoReports(w) /\ e.hostDown[e.link] = {}
          BY <1>1, <2>2 DEF Keys, w
        <3>2. NoReports(u) /\ r.type # "REPORT"
          BY <1>6, <3>1
        <3>3. e1.hostDown = e.hostDown
          BY <3>2 DEF w
        <3> QED
          BY <3>1, <3>2, <3>3 DEF u
      <2>3. ASSUME e1.link # 0, ~Pending(e1.rx), Quiet(t.wire, e1.link), NEW kind \in Kinds
            PROVE  Final(t.ring, t.wire, e1.hostDown[e1.link], kind) <=> kind \in D
        <3>1. Quiet(w, e.link)
          BY <1>7, <2>3 DEF u
        <3>2. Final(f.ring, w, old, kind) <=> kind \in D
          BY <1>1, <2>3, <3>1 DEF Keys, w
        <3> QED
          BY <1>8, <2>3, <3>2 DEF u
      <2> QED
        BY <2>1, <2>2, <2>3
    <1> QED
      BY <1>9, <1>10, <1>11, <1>12 DEF Safe

(***************************************************************************)
(* The inductive invariant, and the firmware's steps.                      *)
(***************************************************************************)
Types ==
    /\ hostKey \in {"UP", "DOWN", "RELEASED"}
    /\ last \in Hosts /\ (link # 0 => last = link)
    /\ left \in 0 .. Chances

IInv ==
    /\ Types /\ Env \in Envs
    /\ Safe(k, Env, Believed(k)) /\ k.driver = k.transport
    /\ Heard(Env) /\ Resets(Env.rx)

LEMMA EnvFields ==
    /\ Env.rx = rx /\ Env.link = link /\ Env.target = target /\ Env.pairing = pairing
    /\ Env.pin = pin /\ Env.hostDown = hostDown
    /\ Env \in Envs <=> /\ rx \in Seq(Events) /\ link \in HostIndex /\ target \in HostIndex
                        /\ pairing \in HostIndex /\ pin \in {"NEVER", "ENTRY", "OVER"}
                        /\ hostDown \in [Hosts -> SUBSET Kinds]
  BY DEF Env, Envs

LEMMA FirmwareStep ==
    ASSUME IInv, UNCHANGED Module, hostKey' \in {"UP", "DOWN", "RELEASED"}, left' \in 0 .. Chances,
           NEW t, k' = t, Safe(t, Env, Believed(t)), t.driver = t.transport
    PROVE  IInv'
    <1>1. Env' = Env /\ last' = last /\ link' = link
      BY DEF Module, Env
    <1>2. Types'
      BY <1>1 DEF IInv, Types
    <1> QED
      BY <1>1, <1>2 DEF IInv

LEMMA SpendType ==
    ASSUME IInv, NEW n \in Nat, Spend(n)
    PROVE  left' \in 0 .. Chances
  BY RoomAssumption DEF IInv, Types, Spend

\* A step that changes no field that the properties speak of.
LEMMA QuietStep ==
    ASSUME IInv, NEW t \in Firmware, Frame(k, t), t.bt_state = k.bt_state, t.ring = k.ring,
           t.wire = k.wire
    PROVE  Safe(t, Env, Believed(t)) /\ t.driver = t.transport
    <1> DEFINE e == Env
               B == Believed(k)
    <1>1. Safe(k, e, B) /\ k.driver = k.transport
      BY DEF IInv
    <1>2. Believed(t) = B
      BY DEF Believed, Frame
    <1> HIDE DEF e, B
    <1>3. Safe(t, e, B)
      BY <1>1, FrameSafe
    <1> QED
      BY <1>1, <1>2, <1>3 DEF Frame, e

LEMMA KeyStep ==
    ASSUME IInv, NEW kind \in Kinds, Key(kind)
    PROVE  IInv'
    <1> DEFINE down == kind \notin k.held
               B == Believed(k)
               e == Env
    <1>1. PICK zero \in BOOLEAN :
             k' = host_send([k EXCEPT !.held = IF down THEN @ \union {kind} ELSE @ \ {kind}],
                            kind, down, zero)
      BY DEF Key
    <1>2. UNCHANGED Module /\ hostKey' = hostKey /\ left' = left
      BY DEF Key
    <1>3. Safe(k, e, B) /\ k.driver = k.transport /\ Types
      BY DEF IInv
    <1>4. down \in BOOLEAN
      OBVIOUS
    <1> HIDE DEF down
    <1> DEFINE t == host_send([k EXCEPT !.held = Update(@, kind, down)], kind, down, zero)
    <1>5. k' = t
      BY <1>1 DEF Update
    <1> HIDE DEF e, B
    <1>6. /\ Safe(t, e, IF k.driver = "BT" THEN Update(B, kind, down) ELSE B)
          /\ t.held = Update(k.held, kind, down)
          /\ t.driver = k.driver /\ t.transport = k.transport
      BY <1>3, <1>4, HostSendSafe
    <1> HIDE DEF t
    <1>7. Believed(t) = IF k.driver = "BT" THEN Update(B, kind, down) ELSE B
      BY <1>6 DEF Believed, B
    <1>8. Safe(t, e, Believed(t))
      BY <1>6, <1>7
    <1> QED
      BY <1>2, <1>3, <1>5, <1>6, <1>8, FirmwareStep DEF Types, e

LEMMA HostKeyPressStep ==
    ASSUME IInv, NEW h \in Hosts, HostKeyPress(h)
    PROVE  IInv'
    <1> DEFINE g == [k EXCEPT !.host_idx = h, !.armed = TRUE]
               t == bluetooth_connect_ex(g, h)
               e == Env
               B == Believed(g)
    <1>1. k' = t /\ hostKey' = "DOWN" /\ UNCHANGED Module /\ Spend(1)
      BY DEF HostKeyPress
    <1>2. k \in Firmware
      BY DEF IInv, Safe
    <1>3. /\ g \in Firmware /\ Frame(k, g) /\ g.bt_state = k.bt_state /\ g.ring = k.ring
          /\ g.wire = k.wire
      BY <1>2 DEF Firmware, Frame, HostIndex
    <1> HIDE DEF g
    <1>4. Safe(g, e, B) /\ g.driver = g.transport
      BY <1>3, QuietStep
    <1> HIDE DEF e, B
    <1>5. Safe(t, e, B) /\ t.driver = g.driver /\ t.transport = g.transport /\ t.held = g.held
      BY <1>4, ConnectExSafe
    <1> HIDE DEF t
    <1>6. Believed(t) = B
      BY <1>5 DEF Believed, B
    <1>7. left' \in 0 .. Chances
      BY <1>1, SpendType
    <1> QED
      BY <1>1, <1>4, <1>5, <1>6, <1>7, FirmwareStep DEF e

LEMMA HostKeyReleaseStep ==
    ASSUME IInv, HostKeyRelease
    PROVE  IInv'
    <1>1. k \in Firmware /\ left \in 0 .. Chances
      BY DEF IInv, Safe, Types
    <1>2. UNCHANGED Module /\ left' = left /\ hostKey' \in {"UP", "DOWN", "RELEASED"}
      BY DEF HostKeyRelease
    <1>3. k' = k \/ k' = [k EXCEPT !.host_idx = 0]
      BY DEF HostKeyRelease
    <1>4. CASE k' = k
      <2>1. Frame(k, k)
        BY DEF Frame
      <2>2. Safe(k, Env, Believed(k)) /\ k.driver = k.transport
        BY DEF IInv
      <2> QED
        BY <1>1, <1>2, <1>4, <2>2, FirmwareStep
    <1>5. CASE k' = [k EXCEPT !.host_idx = 0]
      <2> DEFINE t == [k EXCEPT !.host_idx = 0]
      <2>1. /\ t \in Firmware /\ Frame(k, t) /\ t.bt_state = k.bt_state /\ t.ring = k.ring
            /\ t.wire = k.wire
        BY <1>1 DEF Firmware, Frame, HostIndex
      <2>2. k' = t
        BY <1>5
      <2> HIDE DEF t
      <2>3. Safe(t, Env, Believed(t)) /\ t.driver = t.transport
        BY <2>1, QuietStep
      <2> QED
        BY <1>1, <1>2, <2>2, <2>3, FirmwareStep
    <1> QED
      BY <1>3, <1>4, <1>5

LEMMA TimerStep ==
    ASSUME IInv, HostKeyTimerReset \/ Elapse
    PROVE  IInv'
    <1>1. k \in Firmware /\ left \in 0 .. Chances /\ hostKey \in {"UP", "DOWN", "RELEASED"}
      BY DEF IInv, Safe, Types
    <1>2. UNCHANGED Module /\ left' = left /\ hostKey' \in {"UP", "DOWN", "RELEASED"}
      BY <1>1 DEF HostKeyTimerReset, Elapse
    <1> DEFINE t == k'
    <1>3. t = [k EXCEPT !.armed = FALSE] \/ t = [k EXCEPT !.due = TRUE]
      BY DEF HostKeyTimerReset, Elapse
    <1>4. /\ t \in Firmware /\ Frame(k, t) /\ t.bt_state = k.bt_state /\ t.ring = k.ring
          /\ t.wire = k.wire
      BY <1>1, <1>3 DEF Firmware, Frame
    <1>5. k' = t
      OBVIOUS
    <1> HIDE DEF t
    <1>6. Safe(t, Env, Believed(t)) /\ t.driver = t.transport
      BY <1>4, QuietStep
    <1> QED
      BY <1>1, <1>2, <1>5, <1>6, FirmwareStep

LEMMA PairingStep ==
    ASSUME IInv, pairing_key_timer_cb
    PROVE  IInv'
    <1> DEFINE g == [k EXCEPT !.armed = FALSE]
               h == k.host_idx
               t == bluetooth_pairing_ex(g, h)
               e == Env
               B == Believed(g)
    <1>1. k' = t /\ UNCHANGED Module /\ hostKey' = hostKey /\ left' = left
      BY DEF pairing_key_timer_cb
    <1>2. k \in Firmware /\ left \in 0 .. Chances /\ hostKey \in {"UP", "DOWN", "RELEASED"}
      BY DEF IInv, Safe, Types
    <1>3. /\ g \in Firmware /\ Frame(k, g) /\ g.bt_state = k.bt_state /\ g.ring = k.ring
          /\ g.wire = k.wire /\ h \in HostIndex
      BY <1>2 DEF Firmware, Frame
    <1> HIDE DEF g, h
    <1>4. Safe(g, e, B) /\ g.driver = g.transport
      BY <1>3, QuietStep
    <1> HIDE DEF e, B
    <1>5. Safe(t, e, B) /\ t.driver = g.driver /\ t.transport = g.transport /\ t.held = g.held
      BY <1>3, <1>4, PairingSafe
    <1> HIDE DEF t
    <1>6. Believed(t) = B
      BY <1>5 DEF Believed, B
    <1> QED
      BY <1>1, <1>2, <1>4, <1>5, <1>6, FirmwareStep DEF e

\* The ring and the battery, at the end of a round.
LEMMA EndOfRound ==
    ASSUME NEW g, NEW e, Safe(g, e, Believed(g)), g.driver = g.transport,
           NEW low \in BOOLEAN, NEW usb \in BOOLEAN, NEW t, t = battery_task(report_buffer_task(g), low, usb)
    PROVE  Safe(t, e, Believed(t)) /\ t.driver = t.transport
    <1> DEFINE r == report_buffer_task(g)
               B == Believed(g)
    <1>1. t = battery_task(r, low, usb) /\ Safe(g, e, B)
      OBVIOUS
    <1> HIDE DEF B
    <1>2. Safe(r, e, B) /\ Frame(g, r)
      BY <1>1, TaskSafe
    <1> HIDE DEF r
    <1>3. Safe(t, e, B) /\ t.driver = r.driver /\ t.transport = r.transport /\ t.held = r.held
      BY <1>1, <1>2, BatterySafe
    <1>4. t.driver = g.driver /\ t.transport = g.transport /\ t.held = g.held
      BY <1>2, <1>3 DEF Frame
    <1>5. Believed(t) = B
      BY <1>4 DEF Believed, B
    <1> QED
      BY <1>3, <1>4, <1>5

\* A round, for given readings of the timers and the battery.
Turn(flip, zero, early, low, usb) ==
    LET other == IF k.transport = "USB" THEN "BT" ELSE "USB"
        f == IF flip THEN set_transport(k, other, zero) ELSE k
        g == IF rx = <<>> THEN f ELSE bluetooth_event_queue_task(f, Head(rx), early, zero)
    IN /\ CanRun
       /\ flip => Len(k.ring) <= RingRoom
       /\ zero => early
       /\ low => ~usb
       /\ k' = battery_task(report_buffer_task(g), low, usb)
       /\ rx' = IF rx = <<>> THEN rx ELSE Tail(rx)
       /\ Spend(Cardinality({x \in {1, 2} : (x = 1 /\ flip) \/ (x = 2 /\ low)}))
       /\ UNCHANGED <<hostKey, link, target, pairing, pin, last, hostDown>>

LEMMA RoundStep ==
    ASSUME IInv, NEW flip \in BOOLEAN, Round(flip)
    PROVE  IInv'
    <1> DEFINE e == Env
               e1 == Env'
               other == IF k.transport = "USB" THEN "BT" ELSE "USB"
    <1>1. PICK zero, early, low, usb \in BOOLEAN : Turn(flip, zero, early, low, usb)
      BY Zenon DEF Round, Turn
    <1>2. UNCHANGED <<hostKey, link, target, pairing, pin, last, hostDown>>
      BY <1>1 DEF Turn
    <1>3. left' \in 0 .. Chances
      <2> DEFINE S == {x \in {1, 2} : (x = 1 /\ flip) \/ (x = 2 /\ low)}
      <2>1. IsFiniteSet({1, 2}) /\ S \subseteq {1, 2}
        <3>1. IsFiniteSet(1 .. 2)
          <4>1. 1 \in Int /\ 2 \in Int
            OBVIOUS
          <4> QED
            BY <4>1, FS_Interval, Zenon
        <3>2. 1 .. 2 = {1, 2}
          OBVIOUS
        <3> QED
          BY <3>1, <3>2
      <2>2. Cardinality(S) \in Nat
        BY <2>1, FS_Subset, FS_CardinalityType
      <2> QED
        BY <1>1, <2>2, SpendType DEF Turn
    <1> DEFINE f == IF flip THEN set_transport(k, other, zero) ELSE k
               g == IF rx = <<>> THEN f ELSE bluetooth_event_queue_task(f, Head(rx), early, zero)
    <1>4. k' = battery_task(report_buffer_task(g), low, usb) /\ rx' = IF rx = <<>> THEN rx ELSE Tail(rx)
      BY <1>1 DEF Turn
    <1>5. /\ e \in Envs /\ Safe(k, e, Believed(k)) /\ k.driver = k.transport /\ Heard(e) /\ Resets(e.rx)
          /\ k \in Firmware /\ Types
      BY DEF IInv, Safe
    <1>6. /\ e.rx = rx /\ e.link = link /\ e.target = target /\ e.pairing = pairing
          /\ e.pin = pin /\ e.hostDown = hostDown
          /\ e1.rx = rx' /\ e1.link = link' /\ e1.target = target' /\ e1.pairing = pairing'
          /\ e1.pin = pin' /\ e1.hostDown = hostDown'
      BY DEF Env
    <1>7. SameEnv(e, e1)
      BY <1>2, <1>6 DEF SameEnv
    <1>8. Types'
      BY <1>2, <1>3, <1>5 DEF Types
    <1>9. /\ other \in {"USB", "BT"} /\ other # k.transport
      BY <1>5 DEF Firmware
    <1> HIDE DEF e, e1, other
    <1>10. Safe(f, e, Believed(f)) /\ f.driver = f.transport
      <2>1. CASE flip
        <3>1. f = set_transport(k, other, zero)
          BY <2>1
        <3> HIDE DEF f
        <3> QED
          BY <1>5, <1>9, <3>1, SwitchSafe
      <2>2. CASE ~flip
        BY <1>5, <2>2
      <2> QED
        BY <2>1, <2>2
    <1> HIDE DEF f
    <1>11. Safe(g, e1, Believed(g)) /\ g.driver = g.transport /\ e1 \in Envs /\ Heard(e1) /\ Resets(e1.rx)
      <2>1. CASE rx = <<>>
        <3>1. g = f /\ e1 = e
          BY <1>2, <1>4, <2>1 DEF Env, e, e1
        <3> QED
          BY <1>5, <1>10, <3>1
      <2>2. CASE rx # <<>>
        <3>1. g = bluetooth_event_queue_task(f, Head(e.rx), early, zero) /\ e.rx # <<>> /\ e1.rx = Tail(e.rx)
          BY <1>4, <1>6, <2>2
        <3> DEFINE D == Believed(f)
        <3>2. Safe(f, e, D)
          BY <1>10
        <3> HIDE DEF g, D
        <3>3. Safe(g, e1, Believed(g)) /\ g.driver = f.driver /\ g.transport = f.transport
          BY <1>5, <1>7, <3>1, <3>2, EventSafe
        <3>4. Heard(e1) /\ Resets(e1.rx)
          BY <1>5, <1>7, <3>1, TailHeard
        <3>5. e1 \in Envs
          <4>1. rx \in Seq(Events)
            BY <1>5, <1>6 DEF Envs
          <4>2. Tail(rx) \in Seq(Events)
            BY <2>2, <4>1
          <4> QED
            BY <1>2, <1>4, <1>5, <2>2, <4>2 DEF Env, Envs, e, e1
        <3> QED
          BY <1>10, <3>3, <3>4, <3>5
      <2> QED
        BY <2>1, <2>2
    <1> HIDE DEF g
    <1> DEFINE t == battery_task(report_buffer_task(g), low, usb)
    <1>12. Safe(t, e1, Believed(t)) /\ t.driver = t.transport
      BY <1>11, EndOfRound
    <1>13. k' = t
      BY <1>4
    <1> HIDE DEF t
    <1> QED
      BY <1>8, <1>11, <1>12, <1>13 DEF IInv, e1

(***************************************************************************)
(* The module's steps.                                                     *)
(***************************************************************************)
LEMMA EventType ==
    ASSUME NEW h \in HostIndex
    PROVE  \A type \in {"RESET", "CONNECTED", "DISCOVERABLE", "RECONNECTING", "DISCONNECTED",
                        "PINCODE_ENTRY", "EXIT_PINCODE_ENTRY"} :
              /\ Event(type, h) \in Events
              /\ Event(type, h).type = type /\ Event(type, h).host = h
  BY DEF Event, Events

\* The events up to the end of PIN entry.
Exited == IF pin = "ENTRY" THEN Append(rx, Event("EXIT_PINCODE_ENTRY", 0)) ELSE rx

\* The surroundings when the module has left PIN entry.
EnvA == [rx |-> Exited, link |-> link, target |-> target, pairing |-> pairing, pin |-> PinOver,
         hostDown |-> hostDown]

LEMMA Concats ==
    ASSUME NEW s \in Seq(Events), NEW x \in Events, NEW y \in Events
    PROVE  /\ s \o <<x>> = Append(s, x) /\ s \o <<>> = s /\ <<>> \o <<x>> = <<x>> /\ <<x>> \o <<>> = <<x>>
           /\ s \o <<x, y>> = Append(Append(s, x), y)
           /\ s \o (<<x>> \o <<y>>) = Append(Append(s, x), y)
           /\ Append(s, x) \in Seq(Events)
    <1>1. <<x>> \in Seq(Events) /\ <<y>> \in Seq(Events) /\ Append(s, x) \in Seq(Events)
      OBVIOUS
    <1>2. s \o <<x>> = Append(s, x) /\ Append(s, x) \o <<y>> = Append(Append(s, x), y)
      BY <1>1, AppendIsConcat
    <1>3. s \o <<>> = s /\ <<>> \o <<x>> = <<x>> /\ <<x>> \o <<>> = <<x>>
      BY <1>1, ConcatEmptySeq
    <1>4. (s \o <<x>>) \o <<y>> = s \o (<<x>> \o <<y>>)
      BY <1>1, ConcatAssociative
    <1>5. <<x>> \o <<y>> = <<x, y>>
      <2>1. <<x>> \o <<y>> = Append(<<x>>, y)
        BY <1>1, AppendIsConcat
      <2>2. Append(<<x>>, y) = <<x, y>>
        <3> DEFINE a == Append(<<x>>, y)
                   b == <<x, y>>
        <3>1. a \in Seq(Events) /\ Len(a) = 2 /\ a[1] = x /\ a[2] = y
          BY <1>1
        <3>2. b \in Seq(Events) /\ Len(b) = 2 /\ b[1] = x /\ b[2] = y
          OBVIOUS
        <3> HIDE DEF a, b
        <3>3. \A i \in 1 .. Len(a) : a[i] = b[i]
          BY <3>1, <3>2
        <3>4. a = b
          BY <3>1, <3>2, <3>3, SeqEqual
        <3> QED
          BY <3>4 DEF a, b
      <2> QED
        BY <2>1, <2>2
    <1> QED
      BY <1>1, <1>2, <1>3, <1>4, <1>5

\* What the module says when it ends its link, and when it has none.
LEMMA FarewellEvents ==
    ASSUME IInv
    PROVE  /\ Exited \in Seq(Events)
           /\ link = 0 => rx \o Farewell = Exited
           /\ link # 0 => rx \o Farewell = Append(Exited, Event("DISCONNECTED", link))
           /\ rx \o (IF pin = "ENTRY" THEN <<Event("EXIT_PINCODE_ENTRY", 0)>> ELSE <<>>) = Exited
    <1> DEFINE x == Event("EXIT_PINCODE_ENTRY", 0)
               y == Event("DISCONNECTED", link)
    <1>1. rx \in Seq(Events) /\ link \in HostIndex /\ 0 \in HostIndex
      BY EnvFields DEF IInv, HostIndex
    <1>2. x \in Events /\ y \in Events
      BY <1>1 DEF Event, Events
    <1>3. /\ Farewell = (IF pin = "ENTRY" THEN <<x>> ELSE <<>>) \o (IF link # 0 THEN <<y>> ELSE <<>>)
          /\ Exited = IF pin = "ENTRY" THEN Append(rx, x) ELSE rx
      BY DEF Farewell, Exited
    <1> HIDE DEF x, y
    <1>4. /\ rx \o <<x>> = Append(rx, x) /\ rx \o <<>> = rx /\ <<>> \o <<y>> = <<y>> /\ <<x>> \o <<>> = <<x>>
          /\ rx \o (<<x>> \o <<y>>) = Append(Append(rx, x), y) /\ rx \o <<y>> = Append(rx, y)
          /\ Append(rx, x) \in Seq(Events)
      BY <1>1, <1>2, Concats
    <1>5. <<>> \o <<>> = <<>>
      OBVIOUS
    <1>6. CASE pin = "ENTRY" /\ link # 0
      BY <1>1, <1>3, <1>4, <1>5, <1>6 DEF x, y
    <1>7. CASE pin = "ENTRY" /\ link = 0
      BY <1>1, <1>3, <1>4, <1>5, <1>7 DEF x, y
    <1>8. CASE pin # "ENTRY" /\ link # 0
      BY <1>1, <1>3, <1>4, <1>5, <1>8 DEF x, y
    <1>9. CASE pin # "ENTRY" /\ link = 0
      BY <1>1, <1>3, <1>4, <1>5, <1>9 DEF x, y
    <1> QED
      BY <1>6, <1>7, <1>8, <1>9

LEMMA ExitSafe ==
    ASSUME IInv
    PROVE  /\ EnvA \in Envs /\ EnvA.rx = Exited /\ EnvA.link = link /\ EnvA.pin = PinOver
           /\ Safe(k, EnvA, Believed(k)) /\ Heard(EnvA) /\ Resets(EnvA.rx)
    <1> DEFINE x == Event("EXIT_PINCODE_ENTRY", 0)
               e == Env
               e1 == EnvA
               B == Believed(k)
    <1>1. e \in Envs /\ Safe(k, e, B) /\ Heard(e) /\ Resets(e.rx)
      BY DEF IInv
    <1>2. /\ e.rx = rx /\ e.link = link /\ e.target = target /\ e.pairing = pairing
          /\ e.pin = pin /\ e.hostDown = hostDown
          /\ rx \in Seq(Events) /\ link \in HostIndex /\ target \in HostIndex
          /\ pairing \in HostIndex /\ pin \in {"NEVER", "ENTRY", "OVER"}
          /\ hostDown \in [Hosts -> SUBSET Kinds]
      BY <1>1, EnvFields
    <1>3. /\ e1.rx = Exited /\ e1.link = link /\ e1.target = target /\ e1.pairing = pairing
          /\ e1.pin = PinOver /\ e1.hostDown = hostDown
      BY DEF EnvA
    <1>4. /\ PinOver \in {"NEVER", "ENTRY", "OVER"}
          /\ pin = "ENTRY" => PinOver = "OVER"
          /\ pin # "ENTRY" => PinOver = pin
      BY <1>2 DEF PinOver
    <1>5. e1 \in Envs
      BY <1>2, <1>4, FarewellEvents DEF EnvA, Envs
    <1>6. x \in Events /\ ~Status(x) /\ x.type # "RESET"
      BY DEF Event, Events, HostIndex, Status
    <1>7. CASE pin = "ENTRY"
      <2>1. e1.rx = Append(e.rx, x) /\ e1.pin # "NEVER"
        BY <1>2, <1>3, <1>4, <1>7 DEF Exited
      <2>2. /\ e1.link = e.link /\ e1.target = e.target /\ e1.pairing = e.pairing
            /\ e1.hostDown = e.hostDown
        BY <1>2, <1>3
      <2>3. e1.pin = "NEVER" => e.pin = "NEVER" /\ ~PinEvent(x)
        BY <2>1
      <2> HIDE DEF e, e1, x, B
      <2>4. Safe(k, e1, B)
        BY <1>1, <1>6, <2>1, <2>2, OtherSafe
      <2>5. Heard(e1) /\ Resets(e1.rx)
        BY <1>1, <1>6, <2>1, <2>2, <2>3, OtherHeard
      <2> QED
        BY <1>3, <1>5, <2>4, <2>5 DEF e1, B
    <1>8. CASE pin # "ENTRY"
      <2>1. e1 = e
        BY <1>4, <1>8 DEF EnvA, Env, Exited
      <2> QED
        BY <1>1, <1>3, <1>5, <2>1
    <1> QED
      BY <1>7, <1>8

LEMMA UnlinkFacts ==
    ASSUME IInv, Unlink
    PROVE  /\ link' = 0 /\ pin' = PinOver /\ pin' \in {"NEVER", "ENTRY", "OVER"}
           /\ pin' = "NEVER" => pin = "NEVER"
           /\ hostDown' \in [Hosts -> SUBSET Kinds] /\ AllUp(Env')
           /\ last \in Hosts /\ 0 \in HostIndex /\ link \in HostIndex /\ last \in HostIndex
           /\ target \in HostIndex /\ pairing \in HostIndex
           /\ link # 0 => target = 0 /\ pairing = 0
    <1>1. /\ rx \in Seq(Events) /\ link \in HostIndex /\ target \in HostIndex
          /\ pairing \in HostIndex /\ pin \in {"NEVER", "ENTRY", "OVER"}
          /\ hostDown \in [Hosts -> SUBSET Kinds]
      BY EnvFields DEF IInv
    <1>2. /\ link # 0 => target = 0 /\ pairing = 0
          /\ \A h \in Hosts : h # link => hostDown[h] = {}
      BY EnvFields DEF IInv, Heard
    <1>3. link' = 0 /\ pin' = PinOver /\ hostDown' = [h \in Hosts |-> IF h = link THEN {} ELSE hostDown[h]]
      BY DEF Unlink
    <1>4. hostDown' \in [Hosts -> SUBSET Kinds] /\ \A h \in Hosts : hostDown'[h] = {}
      BY <1>1, <1>2, <1>3
    <1>5. AllUp(Env')
      BY <1>4 DEF AllUp, Env
    <1>6. pin' \in {"NEVER", "ENTRY", "OVER"} /\ (pin' = "NEVER" => pin = "NEVER")
      BY <1>1, <1>3 DEF PinOver
    <1>7. last \in Hosts
      BY DEF IInv, Types
    <1> QED
      BY <1>1, <1>2, <1>3, <1>4, <1>5, <1>6, <1>7 DEF HostIndex

\* The last event of a step that leaves the module without a link.  e: the
\* surroundings before it.
LEMMA SayStep ==
    ASSUME NEW e \in Envs, Safe(k, e, Believed(k)), k.driver = k.transport, Heard(e),
           NEW t \in Firmware, k' = t, Frame(k, t), t.bt_state = k.bt_state, t.ring = k.ring,
           NEW x \in Events, Status(x), x.type # "CONNECTED", e.link # 0 => x.type = "DISCONNECTED",
           x.type = "DISCONNECTED" \/ Resets(e.rx),
           rx' = Append(e.rx, x), link' = 0, target' \in HostIndex, pairing' \in HostIndex,
           pin' \in {"NEVER", "ENTRY", "OVER"}, pin' = "NEVER" => e.pin = "NEVER",
           hostDown' \in [Hosts -> SUBSET Kinds], AllUp(Env'), Says(Env', x), Types'
    PROVE  IInv'
    <1> DEFINE e1 == Env'
               B == Believed(k)
    <1>1. /\ e1.rx = rx' /\ e1.link = link' /\ e1.target = target' /\ e1.pairing = pairing'
          /\ e1.pin = pin' /\ e1.hostDown = hostDown'
      BY DEF Env
    <1>2. e1 \in Envs
      <2>1. Append(e.rx, x) \in Seq(Events)
        <3>1. e.rx \in Seq(Events)
          BY DEF Envs
        <3> QED
          BY <3>1
      <2> QED
        BY <2>1 DEF Env, Envs, HostIndex
    <1>3. /\ e1.rx = Append(e.rx, x) /\ e1.link = 0 /\ (e1.pin = "NEVER" => e.pin = "NEVER")
          /\ AllUp(e1) /\ Says(e1, x) /\ Safe(k, e, B)
      BY <1>1
    <1>4. Believed(t) = B /\ t.driver = t.transport
      BY DEF Believed, Frame
    <1> HIDE DEF e1, B
    <1>5. Safe(t, e1, B)
      BY <1>3, StatusSafe
    <1>6. Heard(e1) /\ (x.type = "DISCONNECTED" \/ Resets(e.rx) => Resets(e1.rx))
      BY <1>3, StatusHeard
    <1> QED
      BY <1>2, <1>4, <1>5, <1>6 DEF IInv, e1

LEMMA TakeFacts ==
    ASSUME IInv, TakeCommand
    PROVE  /\ k' \in Firmware /\ Frame(k, k') /\ k'.bt_state = k.bt_state /\ k'.ring = k.ring
           /\ k.wire # <<>> /\ k'.wire = Tail(k.wire) /\ Head(k.wire) \in Reports \union Commands
    <1>1. k \in Firmware /\ k.wire # <<>> /\ k' = [k EXCEPT !.wire = Tail(@)]
      BY DEF IInv, Safe, TakeCommand
    <1>2. k.wire \in Seq(Reports \union Commands)
      BY <1>1 DEF Firmware
    <1>3. Tail(k.wire) \in Seq(Reports \union Commands) /\ Head(k.wire) \in Reports \union Commands
      BY <1>1, <1>2
    <1> QED
      BY <1>1, <1>3 DEF Firmware, Frame

LEMMA ModuleStopStep ==
    ASSUME IInv, ModuleStop
    PROVE  IInv'
    <1> DEFINE h == IF link = 0 THEN last ELSE link
               x == Event("DISCONNECTED", h)
               e == EnvA
               t == k'
    <1>1. /\ TakeCommand /\ Unlink /\ target' = 0 /\ pairing' = 0 /\ hostKey' = hostKey /\ last' = last
          /\ left' = left
          /\ rx' = rx \o Farewell \o (IF link = 0 THEN <<Event("DISCONNECTED", last)>> ELSE <<>>)
      BY DEF ModuleStop
    <1>2. /\ link' = 0 /\ pin' = PinOver /\ pin' \in {"NEVER", "ENTRY", "OVER"}
          /\ pin' = "NEVER" => pin = "NEVER"
          /\ hostDown' \in [Hosts -> SUBSET Kinds] /\ AllUp(Env')
          /\ last \in Hosts /\ 0 \in HostIndex /\ link \in HostIndex /\ last \in HostIndex
      BY <1>1, UnlinkFacts
    <1>3. /\ e \in Envs /\ e.rx = Exited /\ e.link = link /\ e.pin = PinOver
          /\ Safe(k, e, Believed(k)) /\ Heard(e) /\ Resets(e.rx)
      BY ExitSafe
    <1>4. x \in Events /\ x.type = "DISCONNECTED"
      BY <1>2, EventType
    <1>5. rx' = Append(e.rx, x)
      <2>1. /\ Exited \in Seq(Events)
            /\ link = 0 => rx \o Farewell = Exited
            /\ link # 0 => rx \o Farewell = Append(Exited, Event("DISCONNECTED", link))
        BY FarewellEvents
      <2>2. CASE link = 0
        <3>1. rx' = Exited \o <<x>>
          BY <1>1, <2>1, <2>2
        <3> HIDE DEF x
        <3>2. Exited \o <<x>> = Append(Exited, x)
          BY <1>4, <2>1, Concats
        <3> QED
          BY <1>3, <3>1, <3>2
      <2>3. CASE link # 0
        <3>1. rx' = Append(Exited, x) \o <<>>
          BY <1>1, <2>1, <2>3
        <3> HIDE DEF x
        <3>2. Append(Exited, x) \in Seq(Events)
          BY <1>4, <2>1
        <3>3. Append(Exited, x) \o <<>> = Append(Exited, x)
          BY <3>2, ConcatEmptySeq
        <3> QED
          BY <1>3, <3>1, <3>3
      <2> QED
        BY <2>2, <2>3
    <1>6. /\ t \in Firmware /\ Frame(k, t) /\ t.bt_state = k.bt_state /\ t.ring = k.ring
      BY <1>1, TakeFacts
    <1>7. Types' /\ k.driver = k.transport
      BY <1>1, <1>2 DEF IInv, Types
    <1>8. Says(Env', x)
      BY <1>1, <1>2, <1>4 DEF Says, Env
    <1>9. Status(x)
      BY <1>4 DEF Status
    <1>10. k' = t
      OBVIOUS
    <1> HIDE DEF e, x, t
    <1>11. target' \in HostIndex /\ pairing' \in HostIndex /\ (pin' = "NEVER" => e.pin = "NEVER")
      BY <1>1, <1>2, <1>3
    <1> QED
      BY <1>2, <1>3, <1>4, <1>5, <1>6, <1>7, <1>8, <1>9, <1>10, <1>11, SayStep

LEMMA ModuleGivesUpStep ==
    ASSUME IInv, ModuleGivesUp
    PROVE  IInv'
    <1> DEFINE h == IF link # 0 THEN link ELSE IF target # 0 THEN target ELSE pairing
               x == Event("DISCONNECTED", h)
               e == EnvA
    <1>1. /\ Unlink /\ target' = 0 /\ pairing' = 0 /\ hostKey' = hostKey /\ last' = last /\ k' = k
          /\ Spend(1)
          /\ rx' = rx \o (IF pin = "ENTRY" THEN <<Event("EXIT_PINCODE_ENTRY", 0)>> ELSE <<>>) \o <<x>>
      BY DEF ModuleGivesUp
    <1>2. /\ link' = 0 /\ pin' = PinOver /\ pin' \in {"NEVER", "ENTRY", "OVER"}
          /\ hostDown' \in [Hosts -> SUBSET Kinds] /\ AllUp(Env')
          /\ 0 \in HostIndex /\ h \in HostIndex
      BY <1>1, UnlinkFacts
    <1>3. /\ e \in Envs /\ e.rx = Exited /\ e.link = link /\ e.pin = PinOver
          /\ Safe(k, e, Believed(k)) /\ Heard(e) /\ Resets(e.rx)
      BY ExitSafe
    <1>4. x \in Events /\ x.type = "DISCONNECTED"
      BY <1>2, EventType
    <1>5. rx' = Append(e.rx, x)
      <2>1. /\ Exited \in Seq(Events)
            /\ rx \o (IF pin = "ENTRY" THEN <<Event("EXIT_PINCODE_ENTRY", 0)>> ELSE <<>>) = Exited
        BY FarewellEvents
      <2>2. rx' = Exited \o <<x>>
        BY <1>1, <2>1
      <2> HIDE DEF x
      <2>3. Exited \o <<x>> = Append(Exited, x)
        BY <1>4, <2>1, Concats
      <2> QED
        BY <1>3, <2>2, <2>3
    <1>6. left' \in 0 .. Chances
      BY <1>1, SpendType
    <1>7. Types' /\ k.driver = k.transport /\ k \in Firmware
      BY <1>1, <1>2, <1>6 DEF IInv, Types, Safe
    <1>8. Says(Env', x)
      BY <1>1, <1>2, <1>4 DEF Says, Env
    <1>9. Status(x) /\ Frame(k, k)
      BY <1>4 DEF Status, Frame
    <1> HIDE DEF e, x
    <1>10. target' \in HostIndex /\ pairing' \in HostIndex /\ (pin' = "NEVER" => e.pin = "NEVER")
      BY <1>1, <1>2, <1>3
    <1> QED
      BY <1>1, <1>2, <1>3, <1>4, <1>5, <1>7, <1>8, <1>9, <1>10, SayStep

LEMMA ModuleResetStep ==
    ASSUME IInv, ModuleReset
    PROVE  IInv'
    <1> DEFINE y == Event("RESET", 0)
               x == Event("DISCONNECTED", last)
               e0 == Env
               e == [rx |-> Append(rx, y), link |-> link, target |-> target, pairing |-> pairing,
                     pin |-> pin, hostDown |-> hostDown]
               B == Believed(k)
    <1>1. /\ Unlink /\ target' = 0 /\ pairing' = 0 /\ hostKey' = hostKey /\ last' = last /\ k' = k
          /\ Spend(1) /\ rx' = rx \o <<y, x>>
      BY DEF ModuleReset
    <1>2. /\ link' = 0 /\ pin' \in {"NEVER", "ENTRY", "OVER"} /\ (pin' = "NEVER" => pin = "NEVER")
          /\ hostDown' \in [Hosts -> SUBSET Kinds] /\ AllUp(Env')
          /\ 0 \in HostIndex /\ last \in HostIndex
      BY <1>1, UnlinkFacts
    <1>3. x \in Events /\ x.type = "DISCONNECTED" /\ y \in Events /\ y.type = "RESET"
      BY <1>2, EventType
    <1>4. /\ e0 \in Envs /\ Safe(k, e0, B) /\ Heard(e0) /\ k.driver = k.transport /\ k \in Firmware
      BY DEF IInv, Safe
    <1>5. /\ e0.rx = rx /\ e0.link = link /\ e0.target = target /\ e0.pairing = pairing
          /\ e0.pin = pin /\ e0.hostDown = hostDown
          /\ rx \in Seq(Events) /\ link \in HostIndex /\ target \in HostIndex
          /\ pairing \in HostIndex /\ pin \in {"NEVER", "ENTRY", "OVER"}
          /\ hostDown \in [Hosts -> SUBSET Kinds]
      BY <1>4, EnvFields
    <1>6. /\ e.rx = Append(e0.rx, y) /\ e.link = e0.link /\ e.target = e0.target
          /\ e.pairing = e0.pairing /\ e.pin = e0.pin /\ e.hostDown = e0.hostDown /\ e.pin = pin
      BY <1>5
    <1>7. e \in Envs
      <2>1. Append(rx, y) \in Seq(Events)
        BY <1>3, <1>5
      <2> QED
        BY <1>5, <2>1 DEF Envs
    <1>8. ~Status(y) /\ ~PinEvent(y) /\ Status(x)
      BY <1>3 DEF Status, PinEvent
    <1>9. rx' = Append(e.rx, x)
      <2> HIDE DEF x, y
      <2>1. rx \o <<y, x>> = Append(Append(rx, y), x)
        BY <1>3, <1>5, Concats
      <2> QED
        BY <1>1, <2>1
    <1>10. left' \in 0 .. Chances
      BY <1>1, SpendType
    <1>11. Types'
      BY <1>1, <1>2, <1>10 DEF IInv, Types
    <1>12. Says(Env', x)
      BY <1>1, <1>2, <1>3 DEF Says, Env
    <1>13. target' \in HostIndex /\ pairing' \in HostIndex /\ Frame(k, k)
      BY <1>1, <1>2 DEF Frame
    <1> HIDE DEF e, e0, x, y, B
    <1>14. Safe(k, e, B)
      BY <1>3, <1>4, <1>6, <1>8, OtherSafe
    <1>15. Heard(e)
      BY <1>3, <1>4, <1>6, <1>8, OtherHeard
    <1>16. pin' = "NEVER" => e.pin = "NEVER"
      BY <1>2, <1>6
    <1>17. Safe(k, e, Believed(k))
      BY <1>14 DEF B
    <1> QED
      BY <1>1, <1>2, <1>3, <1>4, <1>7, <1>8, <1>9, <1>11, <1>12, <1>13, <1>15, <1>16, <1>17, SayStep

LEMMA ModuleReportStep ==
    ASSUME IInv, ModuleReport
    PROVE  IInv'
    <1> DEFINE e == Env
               e1 == Env'
               t == k'
               r == Head(k.wire)
               B == Believed(k)
    <1>1. /\ TakeCommand /\ r.type = "REPORT"
          /\ hostDown' = [h \in Hosts |->
                IF h # link THEN hostDown[h]
                ELSE IF r.down THEN hostDown[h] \union {r.kind}
                ELSE hostDown[h] \ {r.kind}]
          /\ UNCHANGED <<hostKey, rx, link, target, pairing, pin, last, left>>
      BY DEF ModuleReport
    <1>2. /\ t \in Firmware /\ Frame(k, t) /\ t.bt_state = k.bt_state /\ t.ring = k.ring
          /\ k.wire # <<>> /\ t.wire = Tail(k.wire) /\ r \in Reports \union Commands
      BY <1>1, TakeFacts
    <1>3. r.kind \in Kinds /\ r.down \in BOOLEAN
      BY <1>1, <1>2 DEF Reports, Commands
    <1>4. /\ e \in Envs /\ Safe(k, e, B) /\ Heard(e) /\ Resets(e.rx) /\ k.driver = k.transport /\ Types
      BY DEF IInv
    <1>5. /\ e.rx = rx /\ e.link = link /\ e.target = target /\ e.pairing = pairing
          /\ e.pin = pin /\ e.hostDown = hostDown /\ link \in HostIndex
          /\ hostDown \in [Hosts -> SUBSET Kinds]
      BY <1>4, EnvFields
    <1>6. /\ e1.rx = rx' /\ e1.link = link' /\ e1.target = target' /\ e1.pairing = pairing'
          /\ e1.pin = pin' /\ e1.hostDown = hostDown'
      BY DEF Env
    <1>7. /\ hostDown' \in [Hosts -> SUBSET Kinds]
          /\ \A h \in Hosts : hostDown'[h] = IF h # link THEN hostDown[h]
                                             ELSE Update(hostDown[h], r.kind, r.down)
      BY <1>1, <1>3, <1>5 DEF Update
    <1>8. e1 \in Envs
      BY <1>1, <1>4, <1>7 DEF Env, Envs
    <1>9. link # 0 => link \in Hosts /\ hostDown'[link] = Update(hostDown[link], r.kind, r.down)
      BY <1>5, <1>7 DEF HostIndex
    <1>10. Heard(e1) /\ Resets(e1.rx)
      <2>1. \A h \in Hosts : h # e1.link => e1.hostDown[h] = {}
        BY <1>1, <1>4, <1>5, <1>6, <1>7 DEF Heard
      <2>2. /\ e1.rx = e.rx /\ e1.link = e.link /\ e1.target = e.target /\ e1.pairing = e.pairing
            /\ e1.pin = e.pin
        BY <1>1, <1>5, <1>6
      <2> HIDE DEF e, e1
      <2>3. \A x : Says(e1, x) <=> Says(e, x)
        BY <2>2 DEF Says
      <2> QED
        BY <1>4, <2>1, <2>2, <2>3 DEF Heard
    <1>11. Types' /\ t.driver = t.transport /\ Believed(t) = B
      BY <1>1, <1>2, <1>4 DEF Types, Frame, Believed
    <1>12. /\ e1.rx = e.rx /\ e1.link = e.link /\ e1.target = e.target /\ e1.pairing = e.pairing
           /\ e1.pin = e.pin /\ QuietCommand(Head(k.wire), e.link)
           /\ (Head(k.wire).type # "REPORT" => e1.hostDown = e.hostDown)
           /\ (e.link # 0 /\ Head(k.wire).type = "REPORT" =>
                 e1.hostDown[e.link] = Update(e.hostDown[e.link], Head(k.wire).kind, Head(k.wire).down))
      <2>1. QuietCommand(Head(k.wire), e.link)
        BY <1>1 DEF QuietCommand
      <2> QED
        BY <1>1, <1>5, <1>6, <1>9, <2>1
    <1>13. k' = t
      OBVIOUS
    <1> HIDE DEF e, e1, t, r, B
    <1>14. Safe(t, e1, B)
      BY <1>2, <1>4, <1>12, TakeSafe
    <1> QED
      BY <1>8, <1>10, <1>11, <1>13, <1>14 DEF IInv, e1

LEMMA ModuleLinkUpStep ==
    ASSUME IInv, NEW h \in Hosts, ModuleLinkUp(h)
    PROVE  IInv'
    <1> DEFINE e == Env
               e1 == Env'
               B == Believed(k)
    <1>1. /\ link = 0 /\ rx = <<>> /\ NoReports(k.wire) /\ link' = h /\ target' = 0 /\ pairing' = 0
          /\ last' = h /\ rx' = <<Event("CONNECTED", h)>> /\ Spend(1) /\ k' = k /\ hostKey' = hostKey
          /\ pin' = pin /\ hostDown' = hostDown
      BY DEF ModuleLinkUp, NoReports
    <1>2. e \in Envs /\ Safe(k, e, B) /\ Heard(e) /\ Types /\ k.driver = k.transport
      BY DEF IInv
    <1>3. /\ e.rx = rx /\ e.link = link /\ e.pin = pin /\ e.hostDown = hostDown
          /\ pin \in {"NEVER", "ENTRY", "OVER"} /\ hostDown \in [Hosts -> SUBSET Kinds]
      BY <1>2, EnvFields
    <1>4. /\ e1.rx = rx' /\ e1.link = link' /\ e1.target = target' /\ e1.pairing = pairing'
          /\ e1.pin = pin' /\ e1.hostDown = hostDown'
      BY DEF Env
    <1>5. /\ e.rx = <<>> /\ e.link = 0 /\ e1.link = h /\ e1.target = 0 /\ e1.pairing = 0
          /\ e1.rx = <<Event("CONNECTED", h)>> /\ e1.pin = e.pin /\ e1.hostDown = e.hostDown
      BY <1>1, <1>3, <1>4
    <1>6. e1 \in Envs
      <2>1. h \in HostIndex /\ 0 \in HostIndex
        BY DEF HostIndex
      <2>2. Event("CONNECTED", h) \in Events
        BY <2>1, EventType
      <2>3. rx' \in Seq(Events)
        BY <1>1, <2>2
      <2> QED
        BY <1>1, <1>3, <2>1, <2>3 DEF Env, Envs
    <1>7. left' \in 0 .. Chances
      BY <1>1, SpendType
    <1>8. Types'
      BY <1>1, <1>2, <1>7 DEF Types
    <1> HIDE DEF e, e1, B
    <1>9. Safe(k, e1, B)
      BY <1>1, <1>2, <1>5, LinkSafe
    <1>10. Heard(e1) /\ Resets(e1.rx)
      BY <1>2, <1>5, LinkHeard
    <1> QED
      BY <1>1, <1>2, <1>6, <1>8, <1>9, <1>10 DEF IInv, e1, B

LEMMA ModulePinStep ==
    ASSUME IInv, ModulePin
    PROVE  IInv'
    <1> DEFINE e == Env
               e1 == Env'
               B == Believed(k)
               type == IF pin = "ENTRY" THEN "EXIT_PINCODE_ENTRY" ELSE "PINCODE_ENTRY"
               x == Event(type, 0)
    <1>1. /\ pin' \in {"ENTRY", "OVER"} /\ rx' = Append(rx, x) /\ (left' = left \/ Spend(1))
          /\ UNCHANGED <<k, hostKey, link, target, pairing, last, hostDown>>
      BY DEF ModulePin
    <1>2. e \in Envs /\ Safe(k, e, B) /\ Heard(e) /\ Resets(e.rx) /\ Types /\ k.driver = k.transport
      BY DEF IInv
    <1>3. x \in Events /\ ~Status(x) /\ x.type # "RESET"
      BY DEF Event, Events, HostIndex, Status
    <1>4. /\ e.rx = rx /\ e.link = link /\ e.target = target /\ e.pairing = pairing
          /\ e.hostDown = hostDown
          /\ rx \in Seq(Events) /\ link \in HostIndex /\ target \in HostIndex
          /\ pairing \in HostIndex /\ hostDown \in [Hosts -> SUBSET Kinds]
      BY <1>2, EnvFields
    <1>5. /\ e1.rx = rx' /\ e1.link = link' /\ e1.target = target' /\ e1.pairing = pairing'
          /\ e1.pin = pin' /\ e1.hostDown = hostDown'
      BY DEF Env
    <1>6. /\ e1.rx = Append(e.rx, x) /\ e1.link = e.link /\ e1.target = e.target
          /\ e1.pairing = e.pairing /\ e1.hostDown = e.hostDown /\ e1.pin # "NEVER"
      BY <1>1, <1>4, <1>5
    <1>7. e1 \in Envs
      <2>1. rx' \in Seq(Events)
        BY <1>1, <1>3, <1>4
      <2> QED
        BY <1>1, <1>4, <2>1 DEF Env, Envs
    <1>8. left' \in 0 .. Chances
      BY <1>1, <1>2, SpendType DEF Types
    <1>9. Types'
      BY <1>1, <1>2, <1>8 DEF Types
    <1> HIDE DEF e, e1, B, x
    <1>10. Safe(k, e1, B)
      BY <1>2, <1>3, <1>6, OtherSafe
    <1>11. Heard(e1) /\ Resets(e1.rx)
      BY <1>2, <1>3, <1>6, OtherHeard
    <1> QED
      BY <1>1, <1>2, <1>7, <1>9, <1>10, <1>11 DEF IInv, e1, B

\* The surroundings when the module has ended its link, before it says what it does.
LEMMA LinkEnded ==
    ASSUME IInv, Unlink
    PROVE  \E e \in Envs : /\ e.rx = rx \o Farewell /\ e.link = 0 /\ e.pin = PinOver
                           /\ Safe(k, e, Believed(k)) /\ Heard(e) /\ Resets(e.rx)
    <1> DEFINE x == Event("DISCONNECTED", link)
               a == EnvA
               e == [rx |-> Append(Exited, x), link |-> 0, target |-> 0, pairing |-> 0,
                     pin |-> PinOver, hostDown |-> hostDown']
               B == Believed(k)
    <1>1. /\ link' = 0 /\ pin' = PinOver /\ pin' \in {"NEVER", "ENTRY", "OVER"}
          /\ hostDown' \in [Hosts -> SUBSET Kinds] /\ AllUp(Env')
          /\ 0 \in HostIndex /\ link \in HostIndex
      BY UnlinkFacts
    <1>2. /\ a \in Envs /\ a.rx = Exited /\ a.link = link /\ a.pin = PinOver
          /\ Safe(k, a, B) /\ Heard(a) /\ Resets(a.rx)
      BY ExitSafe
    <1>3. /\ Exited \in Seq(Events)
          /\ link = 0 => rx \o Farewell = Exited
          /\ link # 0 => rx \o Farewell = Append(Exited, x)
      BY FarewellEvents
    <1>4. CASE link = 0
      BY <1>2, <1>3, <1>4
    <1>5. CASE link # 0
      <2>1. x \in Events /\ x.type = "DISCONNECTED"
        BY <1>1, EventType
      <2>2. Status(x) /\ k \in Firmware /\ Frame(k, k)
        BY <1>2, <2>1 DEF Status, Safe, Frame
      <2>3. e \in Envs
        <3>1. Append(Exited, x) \in Seq(Events)
          BY <1>3, <2>1
        <3> QED
          BY <1>1, <3>1 DEF Envs
      <2>4. /\ e.rx = Append(a.rx, x) /\ e.link = 0 /\ e.pin = a.pin /\ e.pin = PinOver
            /\ e.rx = rx \o Farewell
        BY <1>2, <1>3, <1>5
      <2>5. AllUp(e)
        BY <1>1 DEF AllUp, Env
      <2>6. Says(e, x)
        BY <2>1 DEF Says
      <2> HIDE DEF x, a, e, B
      <2>7. Safe(k, e, B)
        BY <1>2, <2>1, <2>2, <2>4, StatusSafe
      <2>8. Heard(e) /\ (x.type = "DISCONNECTED" \/ Resets(a.rx) => Resets(e.rx))
        BY <1>2, <2>1, <2>2, <2>4, <2>5, <2>6, StatusHeard
      <2> QED
        BY <2>1, <2>3, <2>4, <2>7, <2>8 DEF B
    <1> QED
      BY <1>4, <1>5

LEMMA ModuleSeekStep ==
    ASSUME IInv, ModuleSeek
    PROVE  IInv'
    <1> DEFINE cmd == Head(k.wire)
               h == IF cmd.host = 0 THEN last ELSE cmd.host
               t == k'
               B == Believed(k)
    <1>1. /\ TakeCommand /\ cmd.type \in {"CONNECT", "PAIR"} /\ last' = h
          /\ hostKey' = hostKey /\ left' = left
      BY DEF ModuleSeek
    <1>2. \/ cmd.type = "CONNECT" /\ h = link /\ UNCHANGED <<rx, link, target, pairing, pin, hostDown>>
          \/ /\ Unlink
             /\ target' = IF cmd.type = "CONNECT" THEN h ELSE 0
             /\ pairing' = IF cmd.type = "PAIR" THEN h ELSE 0
             /\ rx' = rx \o Farewell \o
                   <<Event(IF cmd.type = "PAIR" THEN "DISCOVERABLE" ELSE "RECONNECTING", h)>>
      BY DEF ModuleSeek
    <1>3. /\ t \in Firmware /\ Frame(k, t) /\ t.bt_state = k.bt_state /\ t.ring = k.ring
          /\ k.wire # <<>> /\ t.wire = Tail(k.wire) /\ cmd \in Reports \union Commands
      BY <1>1, TakeFacts
    <1>4. Types /\ k.driver = k.transport
      BY DEF IInv
    <1>5. h \in Hosts /\ h # 0 /\ h \in HostIndex /\ 0 \in HostIndex
      <2>1. cmd.host \in HostIndex
        BY <1>3 DEF Reports, Commands
      <2> QED
        BY <1>4, <2>1, HostAssumption DEF Types, HostIndex
    <1>6. k' = t
      OBVIOUS
    <1>7. CASE cmd.type = "CONNECT" /\ h = link /\ UNCHANGED <<rx, link, target, pairing, pin, hostDown>>
      <2> DEFINE e == Env
      <2>1. Env' = e
        BY <1>7 DEF Env
      <2>2. e \in Envs /\ Safe(k, e, B) /\ Heard(e) /\ Resets(e.rx) /\ e.link = link
        BY EnvFields DEF IInv
      <2>3. QuietCommand(Head(k.wire), e.link) /\ Head(k.wire).type # "REPORT"
        BY <1>5, <1>7, <2>2 DEF QuietCommand
      <2>4. Types'
        BY <1>1, <1>4, <1>5, <1>7 DEF Types
      <2>5. t.driver = t.transport /\ Believed(t) = B
        BY <1>3, <1>4 DEF Frame, Believed
      <2> HIDE DEF e, t, B
      <2>6. Safe(t, e, B)
        BY <1>3, <2>2, <2>3, TakeSafe
      <2> QED
        BY <1>6, <2>1, <2>2, <2>4, <2>5, <2>6 DEF IInv
    <1>8. CASE /\ Unlink
               /\ target' = IF cmd.type = "CONNECT" THEN h ELSE 0
               /\ pairing' = IF cmd.type = "PAIR" THEN h ELSE 0
               /\ rx' = rx \o Farewell \o
                     <<Event(IF cmd.type = "PAIR" THEN "DISCOVERABLE" ELSE "RECONNECTING", h)>>
      <2> DEFINE type == IF cmd.type = "PAIR" THEN "DISCOVERABLE" ELSE "RECONNECTING"
                 x == Event(type, h)
      <2>1. /\ link' = 0 /\ pin' = PinOver /\ pin' \in {"NEVER", "ENTRY", "OVER"}
            /\ hostDown' \in [Hosts -> SUBSET Kinds] /\ AllUp(Env')
        BY <1>8, UnlinkFacts
      <2>2. PICK e \in Envs : /\ e.rx = rx \o Farewell /\ e.link = 0 /\ e.pin = PinOver
                              /\ Safe(k, e, Believed(k)) /\ Heard(e) /\ Resets(e.rx)
        BY <1>8, LinkEnded
      <2>3. x \in Events /\ x.type = type
        BY <1>5 DEF Event, Events
      <2>4. Status(x) /\ x.type # "CONNECTED"
        BY <2>3 DEF Status
      <2>5. rx' = Append(e.rx, x)
        <3>1. e.rx \in Seq(Events)
          BY DEF Envs
        <3>2. rx' = e.rx \o <<x>>
          BY <1>8, <2>2
        <3> HIDE DEF x
        <3>3. e.rx \o <<x>> = Append(e.rx, x)
          BY <2>3, <3>1, Concats
        <3> QED
          BY <3>2, <3>3
      <2>6. target' \in HostIndex /\ pairing' \in HostIndex
        BY <1>5, <1>8
      <2>7. Says(Env', x)
        <3>1. /\ x.type = "DISCOVERABLE" => target' = 0
              /\ x.type = "RECONNECTING" => pairing' = 0
              /\ x.type \in {"DISCOVERABLE", "RECONNECTING"}
          BY <1>1, <1>8, <2>3
        <3> HIDE DEF x
        <3> QED
          BY <2>1, <3>1 DEF Says, Env
      <2>8. Types'
        BY <1>1, <1>4, <1>5, <2>1 DEF Types
      <2>9. pin' = "NEVER" => e.pin = "NEVER"
        BY <2>1, <2>2
      <2> HIDE DEF x, t
      <2> QED
        BY <1>3, <1>4, <1>6, <2>1, <2>2, <2>3, <2>4, <2>5, <2>6, <2>7, <2>8, <2>9, SayStep
    <1> QED
      BY <1>2, <1>7, <1>8

(***************************************************************************)
(* The theorems.                                                           *)
(***************************************************************************)
LEMMA Initial ==
    ASSUME Init
    PROVE  IInv
    <1> DEFINE x == Event("DISCONNECTED", last)
    <1>1. /\ k.driver = "USB" /\ k.transport = "USB" /\ k.bt_state = "INITIALIZED" /\ k.ring = <<>>
          /\ k.wire = <<>> /\ k.held = {} /\ k.usbDown = {} /\ k.pincodeEntry = FALSE
      BY DEF Init
    <1>2. k \in Firmware
      BY ModeAssumption, HostAssumption DEF Init, Firmware, States, HostIndex
    <1>3. last \in Hosts /\ rx = <<x>> /\ link = 0 /\ target = 0 /\ pairing = 0 /\ pin = "NEVER"
          /\ hostDown = [h \in Hosts |-> {}]
      BY DEF Init
    <1>4. x \in Events /\ x.type = "DISCONNECTED"
      BY <1>3 DEF Event, Events, HostIndex
    <1> HIDE DEF x
    <1>5. DOMAIN rx = {1} /\ rx[1] = x /\ rx \in Seq(Events)
      BY <1>3, <1>4
    <1>6. Types
      BY RoomAssumption DEF Init, Types
    <1>7. Env \in Envs
      BY <1>3, <1>5 DEF Env, Envs, HostIndex
    <1>8. \A i \in DOMAIN rx : rx[i].type = "DISCONNECTED"
      BY <1>4, <1>5
    <1>9. Pending(rx) /\ Cut(rx) /\ ~Fresh(rx)
      BY <1>4, <1>5 DEF Pending, Cut, Fresh, Status
    <1>10. Heard(Env) /\ Resets(Env.rx)
      <2>1. /\ Env.rx = rx /\ Env.link = link /\ Env.target = target /\ Env.pairing = pairing
            /\ Env.hostDown = hostDown
        BY EnvFields
      <2>2. \A i \in DOMAIN rx : Says(Env, rx[i]) /\ ~PinEvent(rx[i])
        BY <1>3, <1>8, <2>1 DEF Says, PinEvent
      <2>3. \A h \in Hosts : hostDown[h] = {}
        BY <1>3
      <2> QED
        BY <1>3, <1>8, <1>9, <2>1, <2>2, <2>3 DEF Heard, Resets
    <1>11. Safe(k, Env, Believed(k))
      <2>1. Env.rx = rx /\ Env.link = 0
        BY <1>3, EnvFields
      <2>2. Right(k, Env) /\ Agree(k, Env)
        BY <1>1, <1>9, <2>1 DEF Right, Agree
      <2>3. Usb(k)
        BY <1>1 DEF Usb
      <2>4. ForSome(k.ring)
        BY <1>1 DEF ForSome
      <2>5. Keys(k, Env, Believed(k))
        BY <1>1, <2>1, <2>4 DEF Keys
      <2> QED
        BY <1>2, <2>2, <2>3, <2>5 DEF Safe
    <1> QED
      BY <1>1, <1>6, <1>7, <1>10, <1>11 DEF IInv

LEMMA Step ==
    ASSUME IInv, [Next]_vars
    PROVE  IInv'
    <1>1. CASE Next
      <2>1. CASE \E flip \in BOOLEAN : Round(flip)
        BY <2>1, RoundStep
      <2>2. CASE \E kind \in Kinds : Key(kind)
        BY <2>2, KeyStep
      <2>3. CASE \E h \in Hosts : HostKeyPress(h)
        BY <2>3, HostKeyPressStep
      <2>4. CASE HostKeyRelease
        BY <2>4, HostKeyReleaseStep
      <2>5. CASE HostKeyTimerReset \/ Elapse
        BY <2>5, TimerStep
      <2>6. CASE pairing_key_timer_cb
        BY <2>6, PairingStep
      <2>7. CASE ModuleReport
        BY <2>7, ModuleReportStep
      <2>8. CASE ModuleSeek
        BY <2>8, ModuleSeekStep
      <2>9. CASE ModuleStop
        BY <2>9, ModuleStopStep
      <2>10. CASE \E h \in Hosts : ModuleLinkUp(h)
        BY <2>10, ModuleLinkUpStep
      <2>11. CASE ModuleGivesUp
        BY <2>11, ModuleGivesUpStep
      <2>12. CASE ModulePin
        BY <2>12, ModulePinStep
      <2>13. CASE ModuleReset
        BY <2>13, ModuleResetStep
      <2> QED
        BY <1>1, <2>1, <2>2, <2>3, <2>4, <2>5, <2>6, <2>7, <2>8, <2>9, <2>10, <2>11, <2>12, <2>13
           DEF Next
    <1>2. CASE UNCHANGED vars
      BY <1>2 DEF vars, IInv, Types, Env, Envs
    <1> QED
      BY <1>1, <1>2

LEMMA Invariance == Spec => []IInv
    <1>1. Init => IInv
      BY Initial
    <1>2. IInv /\ [Next]_vars => IInv'
      BY Step
    <1> QED
      BY <1>1, <1>2, PTL DEF Spec

\* The types of the firmware's record and of the module's state; the driver in
\* charge is the one of the selected transport (host_set_driver in transport.c).
THEOREM TypeCorrect == Spec => []TypeOK
    <1>1. IInv => TypeOK
      <2> SUFFICES ASSUME IInv PROVE TypeOK
        OBVIOUS
      <2>1. /\ rx \in Seq(Events) /\ link \in HostIndex /\ target \in HostIndex
            /\ pairing \in HostIndex /\ pin \in {"NEVER", "ENTRY", "OVER"}
            /\ hostDown \in [Hosts -> SUBSET Kinds]
        BY EnvFields DEF IInv
      <2>2. k \in Firmware /\ k.driver = k.transport /\ Types
        BY DEF IInv, Safe
      <2> QED
        BY <2>1, <2>2 DEF TypeOK, Types
    <1> QED
      BY <1>1, Invariance, PTL

\* A report that the module sends to the host of its link was typed for that host
\* (or is a digit of a PIN): reports for another host are in neither the ring of
\* report_buffer.c nor on the UART by the time a link is up.
THEOREM RightHostAlways == Spec => []RightHost
    <1>1. IInv => RightHost
      <2> SUFFICES ASSUME IInv, k.wire # <<>>, Head(k.wire).type = "REPORT", link # 0
                   PROVE  Head(k.wire).host \in {0, link}
        BY DEF RightHost
      <2> DEFINE w == k.wire
                 X == Reports \union Commands
      <2>1. k \in Firmware /\ Right(k, Env) /\ Env.link = link
        BY EnvFields DEF IInv, Safe
      <2>2. For(w, link)
        BY <2>1 DEF Right
      <2>3. w \in Seq(X) /\ w # <<>> /\ Head(w).type = "REPORT"
        BY <2>1 DEF Firmware
      <2> HIDE DEF w, X
      <2>4. 1 \in DOMAIN w /\ Head(w) = w[1]
        BY <2>3
      <2>5. Head(w).host \in {0, link}
        BY <2>2, <2>3, <2>4 DEF For
      <2> QED
        BY <2>5 DEF w
    <1> QED
      BY <1>1, Invariance, PTL

\* When nothing is under way on the UART, bt_state and host_index of bluetooth.c
\* are what the module is doing.
THEOREM AgreementAlways == Spec => []Agreement
    <1>1. IInv => Agreement
      <2> SUFFICES ASSUME IInv, rx = <<>>, k.wire = <<>>
                   PROVE  /\ k.bt_state = "CONNECTED" <=> link # 0
                          /\ link # 0 => k.host_index = link
                          /\ target # 0 => k.bt_state = "RECONNECTING"
                          /\ pairing # 0 => k.bt_state = "PARING"
        BY DEF Agreement
      <2>1. /\ Env.rx = rx /\ Env.link = link /\ Env.target = target /\ Env.pairing = pairing
        BY EnvFields
      <2>2. ~Pending(rx) /\ Quiet(k.wire, link)
        BY DEF Pending, Quiet
      <2>3. Agree(k, Env) /\ Right(k, Env)
        BY DEF IInv, Safe
      <2> QED
        BY <2>1, <2>2, <2>3 DEF Agree, Right
    <1> QED
      BY <1>1, Invariance, PTL

\* Whatever was pressed when the mode switch was moved or the host changed, the host
\* in charge agrees with the keyboard once everything has settled, and every other
\* host believes nothing pressed: clear_keyboard in transport.c and bluetooth.c
\* reaches the host that needs it.
THEOREM KeysReleasedAlways == Spec => []KeysReleased
    <1>1. IInv => KeysReleased
      <2> SUFFICES ASSUME IInv, rx = <<>>, k.wire = <<>>, k.ring = <<>>, pin = "NEVER"
                   PROVE  /\ k.usbDown = IF k.transport = "USB" THEN k.held ELSE {}
                          /\ \A h \in Hosts : hostDown[h] =
                                IF k.transport = "BT" /\ h = link THEN k.held ELSE {}
        BY DEF KeysReleased, Settled
      <2>1. /\ Env.rx = rx /\ Env.link = link /\ Env.pin = pin /\ Env.hostDown = hostDown
            /\ hostDown \in [Hosts -> SUBSET Kinds]
        BY EnvFields DEF IInv
      <2>2. ~Pending(rx) /\ Quiet(k.wire, link)
        BY DEF Pending, Quiet
      <2>3. /\ k \in Firmware /\ Usb(k) /\ Keys(k, Env, Believed(k)) /\ k.driver = k.transport
            /\ Heard(Env)
        BY DEF IInv, Safe
      <2>4. k.usbDown = IF k.transport = "USB" THEN k.held ELSE {}
        BY <2>3 DEF Usb
      <2>5. ASSUME NEW h \in Hosts, h # link
            PROVE  hostDown[h] = {}
        BY <2>1, <2>3, <2>5 DEF Heard
      <2>6. ASSUME NEW h \in Hosts, h = link
            PROVE  hostDown[h] = Believed(k)
        <3> DEFINE base == hostDown[link]
                   D == Believed(k)
        <3>1. link # 0
          BY <2>6, HostAssumption
        <3>2. \A kind \in Kinds : Final(k.ring, k.wire, base, kind) <=> kind \in D
          BY <2>1, <2>2, <2>3, <3>1 DEF Keys
        <3>3. base \subseteq Kinds /\ D \subseteq Kinds
          BY <2>1, <2>3, <2>6 DEF Believed, Firmware
        <3> HIDE DEF base, D
        <3>4. \A kind \in Kinds : Final(k.ring, k.wire, base, kind) <=> kind \in base
          BY EmptyReports DEF Final
        <3>5. base = D
          BY <3>2, <3>3, <3>4
        <3> QED
          BY <2>6, <3>5 DEF base, D
      <2>7. Believed(k) = IF k.transport = "BT" THEN k.held ELSE {}
        BY <2>3 DEF Believed
      <2> QED
        BY <2>4, <2>5, <2>6, <2>7
    <1> QED
      BY <1>1, Invariance, PTL

(***************************************************************************)
(* The battery: no function asks the module to connect or to pair while    *)
(* the battery is critically low.                                          *)
(***************************************************************************)
Seek(c) == c.type \in {"CONNECT", "PAIR"}

SeekAt(w) == {i \in DOMAIN w : Seek(w[i])}

Low(f) == f \in Firmware /\ f.critical = TRUE

Calm(f, t) == Low(t) /\ SeekAt(t.wire) = SeekAt(f.wire)

LEMMA SeekAppend ==
    ASSUME NEW X, NEW s \in Seq(X), NEW r, ~Seek(r), NEW t, t = Append(s, r)
    PROVE  SeekAt(t) = SeekAt(s)
    <1> DEFINE n == Len(s)
    <1>1. /\ n \in Nat /\ DOMAIN s = 1 .. n /\ DOMAIN t = 1 .. n + 1
          /\ \A i \in 1 .. n : t[i] = s[i]
          /\ t[n + 1] = r
      BY AppendFacts
    <1> HIDE DEF n
    <1>2. /\ \A i \in DOMAIN s : i \in DOMAIN t /\ t[i] = s[i]
          /\ \A i \in DOMAIN t : t[i] = r \/ (i \in DOMAIN s /\ t[i] = s[i])
      BY <1>1
    <1> QED
      BY <1>2 DEF SeekAt

LEMMA SeekTail ==
    ASSUME NEW X, NEW s \in Seq(X), s # <<>>, NEW t, t = Tail(s)
    PROVE  Cardinality(SeekAt(t)) <= Cardinality(SeekAt(s))
    <1> DEFINE n == Len(s)
               S == SeekAt(t)
               T == SeekAt(s)
               m == [i \in S |-> i + 1]
    <1>1. /\ n \in Nat /\ n > 0 /\ DOMAIN s = 1 .. n /\ DOMAIN t = 1 .. n - 1
          /\ \A i \in 1 .. n - 1 : t[i] = s[i + 1]
      BY TailFacts
    <1> HIDE DEF n
    <1>2. \A i \in S : i \in Nat /\ i + 1 \in T
      BY <1>1 DEF SeekAt
    <1>3. IsFiniteSet(T)
      <2>1. IsFiniteSet(1 .. n)
        <3>1. 1 \in Int /\ n \in Int
          BY <1>1
        <3> QED
          BY <3>1, FS_Interval, Zenon
      <2>2. T \in SUBSET (1 .. n)
        BY <1>1 DEF SeekAt
      <2> QED
        BY <2>1, <2>2, FS_Subset
    <1> HIDE DEF S, T
    <1>4. m \in [S -> T] /\ \A a, b \in S : m[a] = m[b] => a = b
      BY <1>2
    <1>5. m \in Injection(S, T)
      BY <1>4 DEF Injection, IsInjective
    <1> HIDE DEF m
    <1>6. Cardinality(S) <= Cardinality(T)
      BY <1>3, <1>5, FS_Injection
    <1> QED
      BY <1>6 DEF S, T

LEMMA CalmSame ==
    ASSUME NEW f, Low(f), NEW t \in Firmware, t.critical = f.critical, t.wire = f.wire
    PROVE  Calm(f, t)
  BY DEF Low, Calm

LEMMA CalmAppend ==
    ASSUME NEW f, Low(f), NEW t \in Firmware, t.critical = f.critical, NEW r, ~Seek(r),
           t.wire = Append(f.wire, r)
    PROVE  Calm(f, t)
    <1> DEFINE w == f.wire
               u == t.wire
               X == Reports \union Commands
    <1>1. w \in Seq(X) /\ u = Append(w, r)
      BY DEF Low, Firmware
    <1> HIDE DEF w, u, X
    <1>2. SeekAt(u) = SeekAt(w)
      BY <1>1, SeekAppend
    <1> QED
      BY <1>2 DEF Calm, Low, u, w

LEMMA CalmSends ==
    ASSUME NEW f, Low(f), NEW t \in Firmware, NEW kind \in Kinds, NEW down \in BOOLEAN,
           Sends(f, t, kind, down)
    PROVE  Calm(f, t)
    <1>1. ASSUME NEW r, ~Seek(r), Adds(f, t, r)
          PROVE  Calm(f, t)
      <2>1. t.critical = f.critical /\ (t.wire = f.wire \/ t.wire = Append(f.wire, r))
        BY <1>1 DEF Adds, Frame
      <2> QED
        BY <1>1, <2>1, CalmSame, CalmAppend
    <1>2. \A h : ~Seek(ReportTo(h, kind, down))
      BY DEF Seek, ReportTo
    <1>3. ASSUME t = f
          PROVE  Calm(f, t)
      BY <1>3 DEF Calm
    <1>4. ~Reconnects(f, t)
      BY DEF Reconnects, Low
    <1>5. PICK h : Adds(f, t, ReportTo(h, kind, down)) \/ t = f
      BY <1>4 DEF Sends
    <1> QED
      BY <1>1, <1>2, <1>3, <1>5

LEMMA CalmHostSend ==
    ASSUME NEW f, Low(f), NEW kind \in Kinds, NEW down \in BOOLEAN, NEW zero \in BOOLEAN,
           NEW t, t = host_send(f, kind, down, zero)
    PROVE  Calm(f, t)
    <1>1. f \in Firmware
      BY DEF Low
    <1>2. CASE f.driver = "USB"
      <2>1. t = [f EXCEPT !.usbDown = Update(@, kind, down)]
        BY <1>2 DEF host_send, Update
      <2>2. Update(f.usbDown, kind, down) \in SUBSET Kinds
        BY <1>1 DEF Firmware, Update
      <2>3. t \in Firmware /\ t.critical = f.critical /\ t.wire = f.wire
        BY <1>1, <2>1, <2>2 DEF Firmware
      <2> QED
        BY <2>3, CalmSame
    <1>3. CASE f.driver # "USB"
      <2>1. CASE kind = "KB"
        <3>1. t = bluetooth_send_keyboard(f, down, zero)
          BY <1>3, <2>1 DEF host_send
        <3>2. t \in Firmware /\ Sends(f, t, kind, down)
          BY <1>1, <2>1, <3>1, KeyboardSends
        <3> QED
          BY <3>2, CalmSends
      <2>2. CASE kind = "CONSUMER"
        <3>1. t = bluetooth_send_consumer(f, down, zero)
          BY <1>3, <2>2 DEF host_send
        <3>2. t \in Firmware /\ Sends(f, t, kind, down)
          BY <1>1, <2>2, <3>1, ConsumerSends
        <3> QED
          BY <3>2, CalmSends
      <2> QED
        BY <2>1, <2>2, KindAssumption
    <1> QED
      BY <1>2, <1>3

LEMMA CalmRelease ==
    ASSUME NEW f, Low(f), NEW kind, NEW zero \in BOOLEAN, NEW t, t = Release(f, kind, zero)
    PROVE  Calm(f, t)
    <1> DEFINE g == [f EXCEPT !.held = Without(@, kind)]
               down == FALSE
    <1>1. f \in Firmware /\ f.held \subseteq Kinds
      BY DEF Low, Firmware
    <1>2. CASE kind \notin f.held
      BY <1>2 DEF Release, Calm
    <1>3. CASE kind \in f.held
      <2>1. Without(f.held, kind) \in SUBSET Kinds
        BY <1>1 DEF Without
      <2>2. g \in Firmware /\ g.critical = f.critical /\ g.wire = f.wire
        BY <1>1, <2>1 DEF Firmware
      <2>3. t = host_send(g, kind, down, zero) /\ down \in BOOLEAN /\ kind \in Kinds
        BY <1>1, <1>3 DEF Release, Without
      <2> HIDE DEF g, down
      <2>4. Calm(f, g)
        BY <2>2, CalmSame
      <2>5. Calm(g, t)
        BY <2>3, <2>4, CalmHostSend DEF Calm
      <2> QED
        BY <2>4, <2>5 DEF Calm
    <1> QED
      BY <1>2, <1>3

LEMMA CalmClear ==
    ASSUME NEW f, Low(f), NEW zero \in BOOLEAN, NEW t, t = clear_keyboard(f, zero)
    PROVE  Calm(f, t)
    <1> DEFINE a == "CONSUMER"
               b == "KB"
               g == Release(f, a, zero)
    <1>1. t = Release(g, b, zero)
      BY DEF clear_keyboard
    <1> HIDE DEF a, b
    <1>2. Calm(f, g)
      BY CalmRelease
    <1> HIDE DEF g
    <1>3. Calm(g, t)
      BY <1>1, <1>2, CalmRelease DEF Calm
    <1> QED
      BY <1>2, <1>3 DEF Calm

\* bluetooth_connect returns at once.
LEMMA CalmConnect ==
    ASSUME NEW f, Low(f), NEW zero
    PROVE  bluetooth_connect(f, zero) = f
  BY DEF Low, bluetooth_connect

LEMMA CalmTask ==
    ASSUME NEW f, Low(f), NEW t, t = report_buffer_task(f)
    PROVE  Calm(f, t)
    <1>1. t \in Firmware /\ (t = f \/ Moves(f, t))
      BY TaskEffect DEF Low
    <1>2. CASE t = f
      BY <1>2 DEF Calm
    <1>3. CASE Moves(f, t)
      <2>1. /\ t.critical = f.critical /\ f.ring # <<>> /\ t.wire = Append(f.wire, Head(f.ring))
        BY <1>3 DEF Moves, Frame
      <2>2. f.ring \in Seq(Reports)
        BY DEF Low, Firmware
      <2>3. Head(f.ring) \in Reports
        BY <2>1, <2>2
      <2>4. ~Seek(Head(f.ring))
        BY <2>3 DEF Reports, Seek
      <2> QED
        BY <1>1, <2>1, <2>4, CalmAppend
    <1> QED
      BY <1>1, <1>2, <1>3

LEMMA CalmDisconnect ==
    ASSUME NEW f, Low(f), NEW t, t = bluetooth_disconnect(f)
    PROVE  Calm(f, t)
    <1> DEFINE c == Command("DISCONNECT", 0)
    <1>1. c \in Reports \union Commands /\ c.type = "DISCONNECT"
      BY CommandType DEF HostIndex
    <1>2. ~Seek(c)
      BY <1>1 DEF Seek
    <1>3. t = Write(f, c) /\ f \in Firmware
      BY DEF bluetooth_disconnect, Low
    <1> HIDE DEF c
    <1>4. t \in Firmware /\ t.critical = f.critical /\ t.wire = Append(f.wire, c)
      BY <1>1, <1>3, WriteEffect DEF Frame
    <1> QED
      BY <1>2, <1>4, CalmAppend

LEMMA CalmToUsb ==
    ASSUME NEW f, Low(f), NEW zero \in BOOLEAN,
           NEW t, t = bt_transport_enable(usb_transport_enable(f, TRUE), FALSE, zero)
    PROVE  Calm(f, t)
    <1> DEFINE g == [f EXCEPT !.driver = "USB"]
               u == usb_transport_enable(f, TRUE)
               down == FALSE
    <1>1. g \in Firmware /\ g.critical = f.critical /\ g.wire = f.wire
      BY DEF Low, Firmware
    <1>2. u = g
      BY DEF usb_transport_enable
    <1>3. t = g \/ t = bluetooth_send_keyboard(g, down, zero)
      BY <1>2 DEF bt_transport_enable
    <1>4. down \in BOOLEAN
      OBVIOUS
    <1> HIDE DEF g, u, down
    <1>5. Calm(f, g)
      BY <1>1, CalmSame
    <1>6. ASSUME t = bluetooth_send_keyboard(g, down, zero)
          PROVE  Calm(g, t)
      <2>1. t \in Firmware /\ Sends(g, t, "KB", down)
        BY <1>1, <1>4, <1>6, KeyboardSends
      <2> DEFINE kind == "KB"
      <2>2. Sends(g, t, kind, down) /\ kind \in Kinds /\ Low(g)
        BY <1>5, <2>1, KindAssumption DEF Calm
      <2> HIDE DEF kind
      <2> QED
        BY <1>4, <2>1, <2>2, CalmSends
    <1> QED
      BY <1>3, <1>5, <1>6 DEF Calm

LEMMA CalmToBt ==
    ASSUME NEW f, Low(f), NEW zero \in BOOLEAN,
           NEW t, t = usb_transport_enable(bt_transport_enable(f, TRUE, zero), FALSE)
    PROVE  Calm(f, t)
    <1> DEFINE g == [f EXCEPT !.driver = "BT"]
               x == bluetooth_disconnect(g)
               b == bt_transport_enable(f, TRUE, zero)
    <1>1. g \in Firmware /\ g.critical = f.critical /\ g.wire = f.wire
      BY DEF Low, Firmware
    <1>2. b = f \/ b = bluetooth_connect(x, zero)
      BY DEF bt_transport_enable
    <1>3. t = [b EXCEPT !.usbDown = @ \ {"KB"}]
      BY DEF usb_transport_enable
    <1> HIDE DEF g, b
    <1>4. Calm(f, g)
      BY <1>1, CalmSame
    <1>5. Calm(g, x)
      BY <1>4, CalmDisconnect DEF Calm
    <1> HIDE DEF x
    <1>6. bluetooth_connect(x, zero) = x
      BY <1>5, CalmConnect DEF Calm
    <1>7. Calm(f, b)
      BY <1>2, <1>4, <1>5, <1>6 DEF Calm
    <1>8. t \in Firmware /\ t.critical = b.critical /\ t.wire = b.wire
      BY <1>3, <1>7 DEF Calm, Low, Firmware
    <1>9. Calm(b, t)
      BY <1>7, <1>8, CalmSame DEF Calm
    <1> QED
      BY <1>7, <1>9 DEF Calm

LEMMA CalmSwitch ==
    ASSUME NEW f, Low(f), NEW zero \in BOOLEAN, NEW new \in {"USB", "BT"},
           NEW t, t = set_transport(f, new, zero)
    PROVE  Calm(f, t)
    <1> DEFINE f1 == [f EXCEPT !.transport = new]
               g == clear_keyboard(f1, zero)
               u == bt_transport_enable(usb_transport_enable(g, TRUE), FALSE, zero)
               b == usb_transport_enable(bt_transport_enable(g, TRUE, zero), FALSE)
    <1>1. f1 \in Firmware /\ f1.critical = f.critical /\ f1.wire = f.wire
      BY DEF Low, Firmware
    <1>2. t = [u EXCEPT !.nkroBt = u.nkro, !.nkro = u.nkroUsb]
          \/ t = [b EXCEPT !.nkroUsb = b.nkro, !.nkro = b.nkroBt]
      BY DEF set_transport
    <1> HIDE DEF f1
    <1>3. Calm(f, f1)
      BY <1>1, CalmSame
    <1>4. Calm(f1, g)
      BY <1>3, CalmClear DEF Calm
    <1> HIDE DEF g
    <1>5. Calm(g, u) /\ Calm(g, b)
      BY <1>4, CalmToUsb, CalmToBt DEF Calm
    <1> HIDE DEF u, b
    <1>6. CASE t = [u EXCEPT !.nkroBt = u.nkro, !.nkro = u.nkroUsb]
      <2>1. t \in Firmware /\ t.critical = u.critical /\ t.wire = u.wire
        BY <1>5, <1>6 DEF Calm, Low, Firmware
      <2> QED
        BY <1>3, <1>4, <1>5, <2>1 DEF Calm, Low
    <1>7. CASE t = [b EXCEPT !.nkroUsb = b.nkro, !.nkro = b.nkroBt]
      <2>1. t \in Firmware /\ t.critical = b.critical /\ t.wire = b.wire
        BY <1>5, <1>7 DEF Calm, Low, Firmware
      <2> QED
        BY <1>3, <1>4, <1>5, <2>1 DEF Calm, Low
    <1> QED
      BY <1>2, <1>6, <1>7

LEMMA CalmEvent ==
    ASSUME NEW f, Low(f), NEW x \in Events, NEW early \in BOOLEAN, NEW zero \in BOOLEAN,
           NEW t, t = bluetooth_event_queue_task(f, x, early, zero)
    PROVE  Calm(f, t)
    <1>1. f \in Firmware
      BY DEF Low
    <1>2. /\ x.host \in HostIndex
          /\ x.type \in {"RESET", "CONNECTED", "DISCOVERABLE", "RECONNECTING", "DISCONNECTED",
                         "PINCODE_ENTRY", "EXIT_PINCODE_ENTRY"}
      BY DEF Events
    <1>3. CASE x.type \in {"RESET", "DISCOVERABLE", "RECONNECTING"}
      <2>1. PICK s \in States : t = [f EXCEPT !.bt_state = s]
        BY <1>3 DEF bluetooth_event_queue_task, bluetooth_enter_reset, bluetooth_enter_discoverable,
                    bluetooth_enter_reconnecting, States
      <2>2. t \in Firmware /\ t.critical = f.critical /\ t.wire = f.wire
        BY <1>1, <2>1 DEF Firmware
      <2> QED
        BY <2>2, CalmSame
    <1>4. CASE x.type = "CONNECTED"
      <2> DEFINE g == [f EXCEPT !.bt_state = "CONNECTED", !.host_index = x.host]
                 c == clear_keyboard(g, zero)
      <2>1. t = [c EXCEPT !.nkro = c.nkroBt]
        BY <1>4 DEF bluetooth_event_queue_task, bluetooth_enter_connected
      <2>2. g \in Firmware /\ g.critical = f.critical /\ g.wire = f.wire
        BY <1>1, <1>2 DEF Firmware, States
      <2> HIDE DEF g
      <2>3. Calm(f, g)
        BY <2>2, CalmSame
      <2>4. Calm(g, c)
        BY <2>3, CalmClear DEF Calm
      <2> HIDE DEF c
      <2>5. t \in Firmware /\ t.critical = c.critical /\ t.wire = c.wire
        BY <2>1, <2>4 DEF Calm, Low, Firmware
      <2> QED
        BY <2>3, <2>4, <2>5 DEF Calm, Low
    <1>5. CASE x.type = "DISCONNECTED"
      <2> DEFINE a == [f EXCEPT !.bt_state = "DISCONNECTED"]
                 g == [a EXCEPT !.ring = <<>>, !.due = FALSE]
                 c == bluetooth_connect(g, zero)
      <2>1. t = g \/ t = [c EXCEPT !.firstDisconnect = FALSE]
        BY <1>5 DEF bluetooth_event_queue_task, bluetooth_enter_disconnected,
                    bluetooth_enter_disconnected_kb, report_buffer_init
      <2>2. a \in Firmware /\ a.critical = f.critical /\ a.wire = f.wire
        BY <1>1 DEF Firmware, States
      <2> HIDE DEF a
      <2>3. g \in Firmware /\ g.critical = f.critical /\ g.wire = f.wire
        <3>1. <<>> \in Seq(Reports)
          OBVIOUS
        <3> QED
          BY <2>2, <3>1 DEF Firmware
      <2> HIDE DEF g
      <2>4. Calm(f, g)
        BY <2>3, CalmSame
      <2>5. c = g
        BY <2>4, CalmConnect DEF Calm
      <2> HIDE DEF c
      <2>6. t \in Firmware /\ t.critical = g.critical /\ t.wire = g.wire
        BY <2>1, <2>3, <2>5 DEF Firmware
      <2> QED
        BY <2>4, <2>6 DEF Calm, Low
    <1>6. CASE x.type \in {"PINCODE_ENTRY", "EXIT_PINCODE_ENTRY"}
      <2>1. PICK b \in BOOLEAN, n \in BOOLEAN : t = [f EXCEPT !.nkro = n, !.pincodeEntry = b]
        BY <1>6 DEF bluetooth_event_queue_task, bluetooth_enter_pin_code_entry,
                    bluetooth_exit_pin_code_entry
      <2>2. t \in Firmware /\ t.critical = f.critical /\ t.wire = f.wire
        BY <1>1, <2>1 DEF Firmware
      <2> QED
        BY <2>2, CalmSame
    <1> QED
      BY <1>2, <1>3, <1>4, <1>5, <1>6

LEMMA CalmBattery ==
    ASSUME NEW f, Low(f), NEW low, NEW usb, NEW t, t = battery_task(f, low, usb), t.critical
    PROVE  t = f
    <1>1. t = IF usb THEN [f EXCEPT !.critical = FALSE] ELSE f
      BY DEF Low, battery_task
    <1>2. [f EXCEPT !.critical = FALSE].critical = FALSE
      BY DEF Low, Firmware
    <1> QED
      BY <1>1, <1>2

LEMMA CalmRound ==
    ASSUME NEW f, Low(f), NEW low, NEW usb, NEW t,
           t = battery_task(report_buffer_task(f), low, usb), t.critical
    PROVE  Calm(f, t)
    <1> DEFINE r == report_buffer_task(f)
    <1>1. t = battery_task(r, low, usb)
      OBVIOUS
    <1>2. Calm(f, r)
      BY CalmTask
    <1> HIDE DEF r
    <1>3. t = r
      BY <1>1, <1>2, CalmBattery DEF Calm
    <1> QED
      BY <1>2, <1>3

\* A step of the firmware leaves the commands to connect or to pair as they are; a
\* step of the module takes one at most.
LEMMA GuardStep ==
    ASSUME IInv, Next, k.critical, k'.critical
    PROVE  Seeks(k') <= Seeks(k)
    <1>1. Low(k)
      BY DEF IInv, Safe, Low, Firmware
    <1>2. ASSUME Calm(k, k')
          PROVE  Seeks(k') <= Seeks(k)
      <2>1. Seeks(k') = Seeks(k)
        BY <1>2 DEF Calm, Seeks, SeekAt, Seek
      <2>2. Seeks(k) \in Nat
        <3> DEFINE n == Len(k.wire)
                   S == SeekAt(k.wire)
        <3>1. k.wire \in Seq(Reports \union Commands)
          BY <1>1 DEF Low, Firmware
        <3>2. n \in Nat /\ S \in SUBSET (1 .. n)
          BY <3>1 DEF SeekAt
        <3>3. IsFiniteSet(1 .. n)
          <4>1. 1 \in Int /\ n \in Int
            BY <3>2
          <4> QED
            BY <4>1, FS_Interval, Zenon
        <3>4. Cardinality(S) \in Nat
          BY <3>2, <3>3, FS_Subset, FS_CardinalityType
        <3> QED
          BY <3>4 DEF Seeks, SeekAt, Seek
      <2> QED
        BY <2>1, <2>2
    <1>3. ASSUME TakeCommand
          PROVE  Seeks(k') <= Seeks(k)
      <2> DEFINE w == k.wire
                 u == k'.wire
                 X == Reports \union Commands
      <2>1. w # <<>> /\ u = Tail(w)
        BY <1>3, TakeFacts
      <2>2. w \in Seq(X)
        BY <1>1 DEF Low, Firmware
      <2> HIDE DEF w, u, X
      <2>3. Cardinality(SeekAt(u)) <= Cardinality(SeekAt(w))
        BY <2>1, <2>2, SeekTail
      <2> QED
        BY <2>3 DEF Seeks, SeekAt, Seek, u, w
    <1>4. ASSUME k' = k
          PROVE  Calm(k, k')
      BY <1>1, <1>4 DEF Calm
    <1>5. ASSUME NEW flip \in BOOLEAN, Round(flip)
          PROVE  Calm(k, k')
      <2> DEFINE other == IF k.transport = "USB" THEN "BT" ELSE "USB"
      <2>1. PICK zero, early, low, usb \in BOOLEAN : Turn(flip, zero, early, low, usb)
        BY <1>5, Zenon DEF Round, Turn
      <2> DEFINE f == IF flip THEN set_transport(k, other, zero) ELSE k
                 x == Head(rx)
                 g == IF rx = <<>> THEN f ELSE bluetooth_event_queue_task(f, x, early, zero)
                 t == k'
      <2>2. t = battery_task(report_buffer_task(g), low, usb) /\ t.critical
        BY <2>1 DEF Turn
      <2>3. other \in {"USB", "BT"}
        OBVIOUS
      <2> HIDE DEF other
      <2>4. Calm(k, f)
        <3>1. CASE flip
          <4>1. f = set_transport(k, other, zero)
            BY <3>1
          <4> HIDE DEF f
          <4> QED
            BY <1>1, <2>3, <4>1, CalmSwitch
        <3>2. CASE ~flip
          BY <1>1, <3>2 DEF Calm
        <3> QED
          BY <3>1, <3>2
      <2> HIDE DEF f
      <2>5. Calm(f, g)
        <3>1. CASE rx = <<>>
          BY <2>4, <3>1 DEF Calm
        <3>2. CASE rx # <<>>
          <4>1. rx \in Seq(Events)
            BY EnvFields DEF IInv
          <4>2. x \in Events /\ g = bluetooth_event_queue_task(f, x, early, zero)
            BY <3>2, <4>1
          <4>3. Low(f)
            BY <2>4 DEF Calm
          <4> HIDE DEF x, g
          <4> QED
            BY <4>2, <4>3, CalmEvent
        <3> QED
          BY <3>1, <3>2
      <2> HIDE DEF g, t
      <2>6. Calm(g, t)
        BY <2>2, <2>5, CalmRound DEF Calm
      <2> QED
        BY <2>4, <2>5, <2>6 DEF Calm, t
    <1>6. ASSUME NEW kind \in Kinds, Key(kind)
          PROVE  Calm(k, k')
      <2> DEFINE down == kind \notin k.held
                 f == [k EXCEPT !.held = Update(@, kind, down)]
                 t == k'
      <2>1. PICK zero \in BOOLEAN :
               t = host_send([k EXCEPT !.held = IF down THEN @ \union {kind} ELSE @ \ {kind}],
                             kind, down, zero)
        BY <1>6 DEF Key
      <2>2. t = host_send(f, kind, down, zero)
        BY <2>1 DEF Update
      <2>3. down \in BOOLEAN
        OBVIOUS
      <2> HIDE DEF down
      <2>4. Update(k.held, kind, down) \in SUBSET Kinds
        BY <1>1 DEF Low, Firmware, Update
      <2>5. f \in Firmware /\ f.critical = k.critical /\ f.wire = k.wire
        BY <1>1, <2>4 DEF Low, Firmware
      <2> HIDE DEF f, t
      <2>6. Calm(k, f)
        BY <1>1, <2>5, CalmSame
      <2>7. Calm(f, t)
        BY <2>2, <2>3, <2>6, CalmHostSend DEF Calm
      <2> QED
        BY <2>6, <2>7 DEF Calm, t
    <1>7. ASSUME NEW h \in Hosts, HostKeyPress(h)
          PROVE  Calm(k, k')
      <2> DEFINE f == [k EXCEPT !.host_idx = h, !.armed = TRUE]
      <2>1. f \in Firmware /\ f.critical = k.critical /\ f.wire = k.wire
        BY <1>1 DEF Low, Firmware, HostIndex
      <2>2. k' = bluetooth_connect_ex(f, h)
        BY <1>7 DEF HostKeyPress
      <2> HIDE DEF f
      <2>3. k' = f
        BY <1>1, <2>1, <2>2 DEF bluetooth_connect_ex, Low
      <2> QED
        BY <1>1, <2>1, <2>3 DEF Calm, Low
    <1>8. ASSUME pairing_key_timer_cb
          PROVE  Calm(k, k')
      <2> DEFINE f == [k EXCEPT !.armed = FALSE]
      <2>1. f \in Firmware /\ f.critical = k.critical /\ f.wire = k.wire
        BY <1>1 DEF Low, Firmware
      <2>2. k' = bluetooth_pairing_ex(f, k.host_idx)
        BY <1>8 DEF pairing_key_timer_cb
      <2> HIDE DEF f
      <2>3. k' = f
        BY <1>1, <2>1, <2>2 DEF bluetooth_pairing_ex, Low
      <2> QED
        BY <1>1, <2>1, <2>3 DEF Calm, Low
    <1>9. ASSUME HostKeyRelease \/ HostKeyTimerReset \/ Elapse
          PROVE  Calm(k, k')
      <2> DEFINE t == k'
      <2>1. \/ t = k \/ t = [k EXCEPT !.host_idx = 0]
            \/ t = [k EXCEPT !.armed = FALSE] \/ t = [k EXCEPT !.due = TRUE]
        BY <1>9 DEF HostKeyRelease, HostKeyTimerReset, Elapse
      <2> HIDE DEF t
      <2>2. t = k => t \in Firmware /\ t.critical = k.critical /\ t.wire = k.wire
        BY <1>1 DEF Low
      <2>3. t = [k EXCEPT !.host_idx = 0] => t \in Firmware /\ t.critical = k.critical /\ t.wire = k.wire
        BY <1>1 DEF Low, Firmware, HostIndex
      <2>4. t = [k EXCEPT !.armed = FALSE] => t \in Firmware /\ t.critical = k.critical /\ t.wire = k.wire
        BY <1>1 DEF Low, Firmware
      <2>5. t = [k EXCEPT !.due = TRUE] => t \in Firmware /\ t.critical = k.critical /\ t.wire = k.wire
        BY <1>1 DEF Low, Firmware
      <2>6. t \in Firmware /\ t.critical = k.critical /\ t.wire = k.wire
        BY <2>1, <2>2, <2>3, <2>4, <2>5
      <2>7. Calm(k, t)
        BY <1>1, <2>6 DEF Calm, Low
      <2> QED
        BY <2>7 DEF t
    <1>10. ASSUME ModuleReport \/ ModuleSeek \/ ModuleStop
           PROVE  TakeCommand
      BY <1>10 DEF ModuleReport, ModuleSeek, ModuleStop
    <1>11. ASSUME (\E h \in Hosts : ModuleLinkUp(h)) \/ ModuleGivesUp \/ ModulePin \/ ModuleReset
           PROVE  k' = k
      BY <1>11 DEF ModuleLinkUp, ModuleGivesUp, ModulePin, ModuleReset
    <1> QED
      BY <1>2, <1>3, <1>4, <1>5, <1>6, <1>7, <1>8, <1>9, <1>10, <1>11 DEF Next

\* With a critically low battery no step asks the module to connect or to pair: every
\* path of bluetooth.c, transport.c and k3_pro.c to such a command goes through a
\* function that looks at battery_is_critical_low().
THEOREM BatteryGuardAlways == Spec => BatteryGuard
    <1>1. IInv /\ [Next]_vars => [k.critical /\ k'.critical => Seeks(k') <= Seeks(k)]_vars
      BY GuardStep
    <1> QED
      BY <1>1, Invariance, PTL DEF Spec, BatteryGuard
=============================================================================
