-------------------------- MODULE ReportLinkProofs --------------------------
(***************************************************************************)
(* Theorems about ReportLink, for every size, delay and number of reports. *)
(***************************************************************************)
EXTENDS ReportLink, TLAPS

(***************************************************************************)
(* The sets of values of the fields of an MCU state.                       *)
(***************************************************************************)

LEMMA NextSlot ==
    ASSUME NEW i \in Slots
    PROVE  /\ Next1(i) \in Slots
           /\ Next1(i) = IF i + 1 = QueueSize THEN 0 ELSE i + 1
    BY SizeAssumption DEF Next1, Slots

LEMMA FieldFacts ==
    /\ 0 \in Slots /\ 0 \in Times /\ MaxTime \in Times
    /\ 0 \in Retries /\ RetryCount \in Retries /\ FullRetry \in Retries
    /\ AwakeTime \in Spans
    /\ DefaultInterval \in Intervals /\ DefaultInterval + HalfExtra \in Intervals
    /\ [i \in Slots |-> NoReport] \in Rings
    /\ NoReport \in Entries
    <1>1. 0 \in Slots
      BY SizeAssumption DEF Slots
    <1>2. 0 \in Times /\ MaxTime \in Times /\ AwakeTime \in Spans
      BY TimeAssumption DEF Times, Spans
    <1>3. 0 \in Retries /\ RetryCount \in Retries /\ FullRetry \in Retries
      BY RetryAssumption DEF Retries
    <1>4. DefaultInterval \in Intervals /\ DefaultInterval + HalfExtra \in Intervals
      BY DEF Intervals
    <1>5. NoReport \in Entries /\ [i \in Slots |-> NoReport] \in Rings
      BY DEF Entries, Rings
    <1> QED
      BY <1>1, <1>2, <1>3, <1>4, <1>5

(***************************************************************************)
(* The operators of ReportBuffer keep the MCU state well typed.            *)
(***************************************************************************)

LEMMA InitType ==
    ASSUME NEW b \in Mcu
    PROVE  report_buffer_init(b) \in Mcu
    BY FieldFacts DEF report_buffer_init, Mcu

LEMMA EnqueueType ==
    ASSUME NEW b \in Mcu, NEW r \in Report
    PROVE  report_buffer_enqueue(b, r) \in Mcu
    <1>1. b.head \in Slots /\ b.queue \in Rings
      BY DEF Mcu
    <1>2. Next1(b.head) \in Slots
      BY <1>1, NextSlot
    <1>3. [b.queue EXCEPT ![b.head] = r] \in Rings
      BY <1>1 DEF Rings, Entries
    <1> QED
      BY <1>2, <1>3 DEF report_buffer_enqueue, Mcu

LEMMA DequeueType ==
    ASSUME NEW b \in Mcu
    PROVE  report_buffer_dequeue(b) \in Mcu
    <1>1. b.tail \in Slots /\ b.queue \in Rings
      BY DEF Mcu
    <1>2. b.queue[b.tail] \in Entries
      BY <1>1 DEF Rings
    <1>3. Next1(b.tail) \in Slots
      BY <1>1, NextSlot
    <1> QED
      BY <1>2, <1>3 DEF report_buffer_dequeue, Mcu

LEMMA TransportType ==
    ASSUME NEW b \in Mcu, NEW r \in Entries
    PROVE  transport_send(b, r) \in Mcu
    <1>1. b.tx \in Commands
      BY DEF Mcu
    <1>2. r.type \in ReportType => r \in Report
      BY DEF ReportType, NoReport, Entries
    <1>3. r.type \in ReportType => Append(b.tx, r) \in Commands
      BY <1>1, <1>2 DEF Commands
    <1> QED
      BY <1>3 DEF transport_send, Mcu

LEMMA SendPendingType ==
    ASSUME NEW b \in Mcu
    PROVE  SendPending(b) \in Mcu
    <1>1. b.kb_rpt \in Entries
      BY DEF Mcu
    <1>2. transport_send(b, b.kb_rpt) \in Mcu
      BY <1>1, TransportType
    <1> QED
      BY <1>2, FieldFacts DEF SendPending, lpm_timer_reset, Mcu

LEMMA TaskType ==
    ASSUME NEW b \in Mcu, NEW connected \in BOOLEAN
    PROVE  report_buffer_task(b, connected) \in Mcu
    <1> DEFINE d == report_buffer_dequeue(b)
    <1>1. d \in Mcu
      BY DequeueType
    <1>2. [d EXCEPT !.retry = RetryCount] \in Mcu
      BY <1>1, FieldFacts DEF Mcu
    <1>3. SendPending([d EXCEPT !.retry = RetryCount]) \in Mcu
      BY <1>2, SendPendingType
    <1>4. ASSUME b.retry # 0
          PROVE  SendPending([b EXCEPT !.retry = @ - 1]) \in Mcu
      <2>1. b.retry \in Retries
        BY DEF Mcu
      <2>2. b.retry - 1 \in Retries
        BY <1>4, <2>1, RetryAssumption DEF Retries
      <2>3. [b EXCEPT !.retry = @ - 1] \in Mcu
        BY <2>2 DEF Mcu
      <2> QED
        BY <2>3, SendPendingType
    <1> QED
      BY <1>1, <1>3, <1>4 DEF report_buffer_task

LEMMA SendType ==
    ASSUME NEW b \in Mcu, NEW r \in Report
    PROVE  bluetooth_send(b, r) \in Mcu
    <1>1. report_buffer_enqueue(b, r) \in Mcu
      BY EnqueueType
    <1>2. report_buffer_set_retry(report_buffer_enqueue(b, r), 0) \in Mcu
      BY <1>1, FieldFacts DEF report_buffer_set_retry, Mcu
    <1>3. send_nkro(b, r) \in Mcu
      BY <1>1, <1>2, TaskType DEF send_nkro
    <1>4. report_buffer_update_timer(transport_send(b, r)) \in Mcu
      <2>1. transport_send(b, r) \in Mcu
        BY TransportType DEF Entries
      <2> QED
        BY <2>1, FieldFacts DEF report_buffer_update_timer, Mcu
    <1> QED
      BY <1>1, <1>3, <1>4 DEF bluetooth_send, send_direct

LEMMA AckType ==
    ASSUME NEW b \in Mcu, NEW a \in Ack
    PROVE  ack_handler(b, a) \in Mcu
    BY FieldFacts DEF ack_handler, report_buffer_set_retry, report_buffer_set_inverval, Mcu

LEMMA ResetType ==
    ASSUME NEW b \in Mcu
    PROVE  lpm_timer_reset(b) \in Mcu
    BY FieldFacts DEF lpm_timer_reset, Mcu

LEMMA WakeType ==
    ASSUME NEW b \in Mcu, NEW stale \in {0, MaxTime}
    PROVE  enter_power_mode(b, stale) \in Mcu
    <1>1. [b EXCEPT !.now = 0, !.sinceRetry = stale] \in Mcu
      BY FieldFacts DEF Mcu
    <1> QED
      BY <1>1, ResetType, InitType DEF enter_power_mode

LEMMA LaterType ==
    ASSUME NEW t \in Times
    PROVE  Later(t) \in Times
    BY TimeAssumption DEF Later, Times

LEMMA TickType ==
    ASSUME NEW b \in Mcu
    PROVE  TimerTick(b) \in Mcu
    <1>1. /\ b.now \in Times /\ b.sinceReport \in Times /\ b.sinceRetry \in Times
          /\ b.awake \in Spans
      BY DEF Mcu
    <1>2. (IF b.awake > 0 THEN b.awake - 1 ELSE 0) \in Spans
      BY <1>1, TimeAssumption DEF Spans
    <1>3. Later(b.now) \in Times /\ Later(b.sinceReport) \in Times /\ Later(b.sinceRetry) \in Times
      BY <1>1, LaterType
    <1> QED
      BY <1>2, <1>3 DEF TimerTick, Mcu

LEMMA EndRoundType ==
    ASSUME NEW b \in Mcu, NEW connected \in BOOLEAN, EndRound(b, connected)
    PROVE  mcu' \in Mcu
    BY TaskType, WakeType DEF EndRound

(***************************************************************************)
(* Type correctness.                                                       *)
(***************************************************************************)

LEMMA InitTypeOK == Init => TypeOK
    <1> SUFFICES ASSUME Init
                 PROVE  TypeOK
      OBVIOUS
    <1>1. <<Connect>> \in Commands
      BY DEF Commands
    <1>2. mcu \in Mcu
      BY <1>1, FieldFacts DEF Init, Mcu
    <1>3. /\ rx \in Seq(Ack \union {"CONNECTED", "DISCONNECTED"}) /\ fifo \in Seq(Report)
          /\ got \subseteq 1 .. MaxReports /\ excused \subseteq 1 .. MaxReports
      BY DEF Init
    <1>4. host \in 0 .. MaxReports /\ gen \in 0 .. MaxReports /\ dropped \in 0 .. MaxReports /\ burst \in Nat
      BY LinkAssumption DEF Init
    <1> QED
      BY <1>2, <1>3, <1>4 DEF Init, TypeOK

\* Serial numbers taken from an MCU state, or from the FIFO, are those of reports.
LEMMA PendingType ==
    ASSUME NEW b \in Mcu
    PROVE  Pending(b) \subseteq 1 .. MaxReports
    <1>1. b.queue \in Rings /\ b.head \in Slots /\ b.tail \in Slots /\ b.kb_rpt \in Entries
      BY DEF Mcu
    <1>2. Occupied(b) \subseteq Slots
      BY <1>1, SizeAssumption DEF Occupied, Slots
    <1>3. \A r \in Entries : r.id \in 0 .. MaxReports
      BY LinkAssumption DEF Entries, Report, NoReport
    <1>4. \A r \in Queued(b) : r \in Entries
      BY <1>1, <1>2 DEF Queued, Rings
    <1>5. Ids(Queued(b)) \subseteq 1 .. MaxReports
      BY <1>3, <1>4, LinkAssumption DEF Ids
    <1>6. Ids({b.kb_rpt}) \subseteq 1 .. MaxReports
      BY <1>1, <1>3, LinkAssumption DEF Ids
    <1> QED
      BY <1>5, <1>6 DEF Pending

LEMMA FifoIdsType ==
    ASSUME NEW s \in Seq(Report)
    PROVE  SeqIds(s) \subseteq 1 .. MaxReports
    <1>1. \A r \in Report : r.id \in 1 .. MaxReports
      BY DEF Report
    <1>2. \A i \in DOMAIN s : s[i] \in Report
      OBVIOUS
    <1>3. \A i \in DOMAIN s : s[i].id \in 1 .. MaxReports
      BY <1>1, <1>2
    <1> QED
      BY <1>3 DEF SeqIds, Ids

LEMMA KeyTypeOK ==
    ASSUME TypeOK, NEW kind \in Kinds, NEW down \in BOOLEAN, Key(kind, down)
    PROVE  TypeOK'
    <1> DEFINE r == [type |-> kind, id |-> gen + 1, down |-> down]
               m == lpm_timer_reset(mcu)
    <1>1. gen + 1 \in 1 .. MaxReports
      BY LinkAssumption DEF TypeOK, Key
    <1>2. r \in Report
      BY <1>1 DEF Report
    <1>3. m \in Mcu
      BY ResetType DEF TypeOK
    <1>4. bluetooth_send(m, r) \in Mcu
      BY <1>2, <1>3, SendType
    <1>5. [m EXCEPT !.tx = Append(@, Connect)] \in Mcu
      <2>1. m.tx \in Commands
        BY <1>3 DEF Mcu
      <2>2. Append(m.tx, Connect) \in Commands
        BY <2>1 DEF Commands
      <2> QED
        BY <1>3, <2>2 DEF Mcu
    <1>6. mcu' \in Mcu
      BY <1>3, <1>4, <1>5 DEF Key
    <1>7. /\ gen' \in 0 .. MaxReports /\ excused' \subseteq 1 .. MaxReports
          /\ dropped' \in 0 .. MaxReports /\ burst' \in Nat
      BY <1>1 DEF Key, TypeOK
    <1>8. bt_state' \in {"CONNECTED", "DISCONNECTED", "RECONNECTING"} /\ held' \subseteq Kinds
      BY DEF Key, TypeOK
    <1> QED
      BY <1>6, <1>7, <1>8 DEF Key, TypeOK

LEMMA RoundTypeOK == TypeOK /\ Round => TypeOK'
    <1> SUFFICES ASSUME TypeOK, Round
                 PROVE  TypeOK'
      OBVIOUS
    <1>1. mcu \in Mcu /\ (bt_state = "CONNECTED") \in BOOLEAN
      BY DEF TypeOK
    <1>2. CASE RoundQuiet
      <2>1. mcu' \in Mcu
        BY <1>1, <1>2, EndRoundType DEF RoundQuiet
      <2> QED
        BY <1>2, <2>1 DEF RoundQuiet, EndBurst, Outside, TypeOK
    <1>3. CASE RoundAck
      <2>1. ack_handler(mcu, Head(rx)) \in Mcu
        BY <1>1, <1>3, AckType DEF RoundAck
      <2>2. mcu' \in Mcu
        BY <1>1, <1>3, <2>1, EndRoundType DEF RoundAck
      <2>3. rx' \in Seq(Ack \union {"CONNECTED", "DISCONNECTED"})
        BY <1>3 DEF RoundAck, TypeOK
      <2> QED
        BY <1>3, <2>2, <2>3 DEF RoundAck, EndBurst, Outside, TypeOK
    <1>4. CASE RoundConnected
      <2> DEFINE Release(kind, id) == [type |-> kind, id |-> id, down |-> FALSE]
                 m0 == lpm_timer_reset(mcu)
                 n1 == IF "CONSUMER" \in held THEN gen + 1 ELSE gen
                 m1 == IF "CONSUMER" \in held THEN bluetooth_send(m0, Release("CONSUMER", n1)) ELSE m0
                 n2 == IF KbType \in held THEN n1 + 1 ELSE n1
                 m2 == IF KbType \in held THEN bluetooth_send(m1, Release(KbType, n2)) ELSE m1
      <2>1. /\ n1 \in Nat /\ n2 \in Nat /\ gen <= n1 /\ n1 <= n2 /\ n2 <= MaxReports
            /\ "CONSUMER" \in held => n1 >= 1
            /\ KbType \in held => n2 >= 1
        BY <1>4, LinkAssumption DEF RoundConnected, TypeOK
      <2>2. m0 \in Mcu
        BY <1>1, ResetType
      <2>3. "CONSUMER" \in held => Release("CONSUMER", n1) \in Report
        BY <2>1, LinkAssumption DEF Report, TypeOK
      <2>4. m1 \in Mcu
        BY <2>2, <2>3, SendType
      <2>5. KbType \in held => Release(KbType, n2) \in Report
        BY <2>1, LinkAssumption DEF Report, TypeOK
      <2>6. m2 \in Mcu
        BY <2>4, <2>5, SendType
      <2>7. EndRound(m2, TRUE)
        BY <1>4 DEF RoundConnected
      <2>8. mcu' \in Mcu
        BY <2>6, <2>7, EndRoundType
      <2>9. rx' \in Seq(Ack \union {"CONNECTED", "DISCONNECTED"})
        BY <1>4 DEF RoundConnected, TypeOK
      <2>10. gen' = n2 /\ EndBurst(n2 - gen)
        BY <1>4 DEF RoundConnected
      <2>11. gen' \in 0 .. MaxReports /\ burst' \in Nat
        BY <2>1, <2>10, LinkAssumption DEF EndBurst, TypeOK
      <2> QED
        BY <1>4, <2>8, <2>9, <2>11 DEF RoundConnected, Outside, TypeOK
    <1>5. CASE RoundDisconnected
      <2>1. mcu' \in Mcu
        BY <1>1, <1>5, ResetType, InitType, EndRoundType DEF RoundDisconnected
      <2>2. rx' \in Seq(Ack \union {"CONNECTED", "DISCONNECTED"})
        BY <1>5 DEF RoundDisconnected, TypeOK
      <2>3. Pending(mcu) \subseteq 1 .. MaxReports
        BY <1>1, PendingType
      <2>4. excused \subseteq 1 .. MaxReports /\ excused' = excused \union Pending(mcu)
        BY <1>5 DEF RoundDisconnected, TypeOK
      <2>5. excused' \subseteq 1 .. MaxReports
        BY <2>3, <2>4
      <2>6. burst' \in Nat
        BY <1>5 DEF RoundDisconnected, EndBurst, TypeOK
      <2> QED
        BY <1>5, <2>1, <2>2, <2>5, <2>6 DEF RoundDisconnected, Outside, TypeOK
    <1> QED
      BY <1>2, <1>3, <1>4, <1>5 DEF Round

LEMMA TakeCommandType ==
    ASSUME TypeOK, mcu.tx # <<>>, TakeCommand
    PROVE  /\ mcu' \in Mcu
           /\ Head(mcu.tx) \in Report \union {Connect}
    <1>1. mcu.tx \in Commands /\ mcu \in Mcu
      BY DEF TypeOK, Mcu
    <1>2. Tail(mcu.tx) \in Commands /\ Head(mcu.tx) \in Report \union {Connect}
      BY <1>1 DEF Commands
    <1> QED
      BY <1>1, <1>2 DEF TakeCommand, Mcu

LEMMA ModuleTypeOK == TypeOK /\ Module => TypeOK'
    <1> SUFFICES ASSUME TypeOK, Module
                 PROVE  TypeOK'
      OBVIOUS
    <1>1. /\ mcu' \in Mcu
          /\ Head(mcu.tx) \in Report \union {Connect}
      BY TakeCommandType DEF Module, ModuleAccept, ModuleRefuse, ModuleDiscard
    <1>2. CASE ModuleAccept
      <2>1. fifo' \in Seq(Report)
        BY <1>1, <1>2 DEF ModuleAccept, TypeOK
      <2>2. rx' \in Seq(Ack \union {"CONNECTED", "DISCONNECTED"})
        BY <1>2 DEF ModuleAccept, TypeOK, Ack
      <2> QED
        BY <1>1, <1>2, <2>1, <2>2 DEF ModuleAccept, TypeOK
    <1>3. CASE ModuleRefuse
      <2>1. PICK a \in Ack : rx' = Append(rx, a)
        BY <1>3 DEF ModuleRefuse, Ack
      <2>2. rx' \in Seq(Ack \union {"CONNECTED", "DISCONNECTED"})
        BY <2>1 DEF TypeOK
      <2> QED
        BY <1>1, <1>3, <2>2 DEF ModuleRefuse, Outside, TypeOK
    <1>4. CASE ModuleDiscard
      <2>1. Head(mcu.tx).id \in 0 .. MaxReports
        BY <1>1, LinkAssumption DEF Report, Connect
      <2>2. Ids({Head(mcu.tx)}) \subseteq 1 .. MaxReports
        BY <2>1, LinkAssumption DEF Ids
      <2> QED
        BY <1>1, <1>4, <2>2 DEF ModuleDiscard, Outside, TypeOK
    <1> QED
      BY <1>2, <1>3, <1>4 DEF Module

LEMMA NextTypeOK == TypeOK /\ [Next]_vars => TypeOK'
    <1> SUFFICES ASSUME TypeOK, [Next]_vars
                 PROVE  TypeOK'
      OBVIOUS
    <1>1. ASSUME NEW kind \in Kinds, NEW down \in BOOLEAN, Key(kind, down)
          PROVE  TypeOK'
      BY <1>1, KeyTypeOK
    <1>2. CASE Round
      BY <1>2, RoundTypeOK
    <1>3. CASE Tick
      BY <1>3, TickType DEF Tick, Outside, TypeOK
    <1>4. CASE Module
      BY <1>4, ModuleTypeOK
    <1>5. ASSUME NEW event \in {"CONNECTED", "DISCONNECTED"}, ModuleLinkResult(event)
          PROVE  TypeOK'
      <2>1. mcu' \in Mcu
        BY <1>5, TakeCommandType DEF ModuleLinkResult, TypeOK
      <2>2. rx' \in Seq(Ack \union {"CONNECTED", "DISCONNECTED"})
        BY <1>5 DEF ModuleLinkResult
      <2> QED
        BY <1>5, <2>1, <2>2 DEF ModuleLinkResult, TypeOK
    <1>6. CASE ModuleLinkLost
      <2>1. SeqIds(fifo) \subseteq 1 .. MaxReports
        BY FifoIdsType DEF TypeOK
      <2>2. rx' \in Seq(Ack \union {"CONNECTED", "DISCONNECTED"})
        BY <1>6 DEF ModuleLinkLost, TypeOK
      <2>3. excused \subseteq 1 .. MaxReports /\ excused' = excused \union SeqIds(fifo)
        BY <1>6 DEF ModuleLinkLost, TypeOK
      <2>4. excused' \subseteq 1 .. MaxReports
        BY <2>1, <2>3
      <2>5. fifo' \in Seq(Report)
        BY <1>6 DEF ModuleLinkLost
      <2> QED
        BY <1>6, <2>2, <2>4, <2>5 DEF ModuleLinkLost, TypeOK
    <1>7. CASE HostReceive
      <2>1. Head(fifo) \in Report /\ Tail(fifo) \in Seq(Report)
        BY <1>7 DEF HostReceive, TypeOK
      <2>2. Head(fifo).id \in 1 .. MaxReports /\ Head(fifo).down \in BOOLEAN
        BY <2>1 DEF Report
      <2>3. host' \in 0 .. MaxReports /\ got' \subseteq 1 .. MaxReports
        <3>1. host' = Head(fifo).id /\ got' = got \union {Head(fifo).id}
          BY <1>7 DEF HostReceive
        <3>2. got \subseteq 1 .. MaxReports
          BY DEF TypeOK
        <3>3. PICK id \in 1 .. MaxReports : id = Head(fifo).id
          BY <2>2
        <3>4. host' = id /\ got' = got \union {id}
          BY <3>1, <3>3
        <3> QED
          BY <3>2, <3>4, LinkAssumption
      <2>4. hostDown' \in BOOLEAN
        BY <1>7, <2>2 DEF HostReceive, TypeOK
      <2> QED
        BY <1>7, <2>1, <2>3, <2>4 DEF HostReceive, TypeOK
    <1>8. CASE UNCHANGED vars
      BY <1>8 DEF vars, TypeOK
    <1> QED
      BY <1>1, <1>2, <1>3, <1>4, <1>5, <1>6, <1>7, <1>8 DEF Next

\* The state of the report buffer, the link and the ghosts is well typed in every
\* reachable state: in particular the ring's indices stay within the ring and the
\* retry counter never goes below zero.
THEOREM TypeCorrect == Spec => []TypeOK
    <1> QED
      BY InitTypeOK, NextTypeOK, PTL DEF Spec

(***************************************************************************)
(* The ring as a queue: which slots an operation fills or frees.           *)
(***************************************************************************)

LEMMA EnqueueSlots ==
    ASSUME NEW b \in Mcu, NEW r \in Report, ~report_buffer_is_full(b),
           NEW e, e = report_buffer_enqueue(b, r)
    PROVE  /\ Occupied(e) = Occupied(b) \union {b.head}
           /\ b.head \notin Occupied(b)
           /\ \A i \in Occupied(e) : i \in Slots /\ Ahead(e, i) = Ahead(b, i)
           /\ \A i \in Occupied(b) : Ahead(b, i) < Ahead(b, b.head)
           /\ e.queue = [b.queue EXCEPT ![b.head] = r]
           /\ e.kb_rpt = b.kb_rpt /\ e.tx = b.tx /\ e.retry = b.retry /\ e.interval = b.interval
           /\ e.sinceReport = b.sinceReport /\ e.sinceRetry = b.sinceRetry
           /\ e.now = b.now /\ e.awake = b.awake
    <1>1. b.head \in Slots /\ b.tail \in Slots
      BY DEF Mcu
    <1>2. e = [b EXCEPT !.queue[b.head] = r, !.head = Next1(b.head)]
      BY DEF report_buffer_enqueue
    <1>3. e.head = Next1(b.head) /\ e.tail = b.tail
      BY <1>2 DEF Mcu
    <1>4. Next1(b.head) # b.tail
      BY DEF report_buffer_is_full
    <1>5. Next1(b.head) = IF b.head + 1 = QueueSize THEN 0 ELSE b.head + 1
      BY <1>1, NextSlot
    <1>6. Occupied(e) = Occupied(b) \union {b.head}
      BY <1>1, <1>3, <1>4, <1>5, SizeAssumption DEF Occupied, Slots
    <1>7. /\ b.head \notin Occupied(b)
          /\ \A i \in Occupied(b) : i \in Slots /\ Ahead(b, i) < Ahead(b, b.head)
      BY <1>1, SizeAssumption DEF Occupied, Ahead, Slots
    <1>8. \A i \in Slots : Ahead(e, i) = Ahead(b, i)
      BY <1>3 DEF Ahead
    <1>9. /\ e.queue = [b.queue EXCEPT ![b.head] = r]
          /\ e.kb_rpt = b.kb_rpt /\ e.tx = b.tx /\ e.retry = b.retry /\ e.interval = b.interval
          /\ e.sinceReport = b.sinceReport /\ e.sinceRetry = b.sinceRetry
          /\ e.now = b.now /\ e.awake = b.awake
      BY <1>2 DEF Mcu
    <1> QED
      BY <1>1, <1>6, <1>7, <1>8, <1>9

LEMMA DequeueSlots ==
    ASSUME NEW b \in Mcu, ~report_buffer_is_empty(b),
           NEW d, d = report_buffer_dequeue(b)
    PROVE  /\ b.tail \in Occupied(b)
           /\ Occupied(d) = Occupied(b) \ {b.tail}
           /\ \A i \in Occupied(d) : i \in Slots /\ Ahead(b, b.tail) < Ahead(b, i)
           /\ \A i, j \in Occupied(d) : Ahead(d, i) < Ahead(d, j) => Ahead(b, i) < Ahead(b, j)
           /\ d.kb_rpt = b.queue[b.tail] /\ d.queue = b.queue /\ d.tx = b.tx
           /\ d.retry = b.retry /\ d.interval = b.interval
           /\ d.sinceReport = b.sinceReport /\ d.sinceRetry = b.sinceRetry
           /\ d.now = b.now /\ d.awake = b.awake
    <1>1. b.head \in Slots /\ b.tail \in Slots
      BY DEF Mcu
    <1>2. /\ d.head = b.head /\ d.tail = Next1(b.tail)
          /\ d.kb_rpt = b.queue[b.tail] /\ d.queue = b.queue /\ d.tx = b.tx
          /\ d.retry = b.retry /\ d.interval = b.interval
          /\ d.sinceReport = b.sinceReport /\ d.sinceRetry = b.sinceRetry
          /\ d.now = b.now /\ d.awake = b.awake
      BY DEF report_buffer_dequeue, Mcu
    <1>3. b.head # b.tail
      BY DEF report_buffer_is_empty
    <1>4. Next1(b.tail) = IF b.tail + 1 = QueueSize THEN 0 ELSE b.tail + 1
      BY <1>1, NextSlot
    <1>5. b.tail \in Occupied(b)
      BY <1>1, <1>3, SizeAssumption DEF Occupied, Slots
    <1>6. Occupied(d) = Occupied(b) \ {b.tail}
      BY <1>1, <1>2, <1>3, <1>4, SizeAssumption DEF Occupied, Slots
    <1>7. \A i \in Occupied(b) : i \in Slots
      BY <1>1, SizeAssumption DEF Occupied, Slots
    <1>8. \A i \in Slots : i # b.tail => Ahead(b, b.tail) < Ahead(b, i) /\ Ahead(d, i) = Ahead(b, i) - 1
      BY <1>1, <1>2, <1>4, SizeAssumption DEF Ahead, Slots
    <1>9. \A i \in Slots : Ahead(b, i) \in Int
      BY <1>1, SizeAssumption DEF Ahead, Slots
    <1>10. \A i, j \in Occupied(d) : Ahead(d, i) < Ahead(d, j) => Ahead(b, i) < Ahead(b, j)
      BY <1>6, <1>7, <1>8, <1>9
    <1> QED
      BY <1>2, <1>5, <1>6, <1>7, <1>8, <1>10

(***************************************************************************)
(* No overtaking.                                                          *)
(***************************************************************************)

LEMMA EnqueueOrdered ==
    ASSUME NEW b \in Mcu, NEW r \in Report, NEW g \in Nat,
           RingOrdered(b, g), r.id = g + 1
    PROVE  LET e == report_buffer_enqueue(b, r)
           IN RingOrdered(e, g + 1) /\ e.tx = b.tx /\ e.kb_rpt = b.kb_rpt
    <1> DEFINE e == report_buffer_enqueue(b, r)
    <1>1. b.kb_rpt.id \in Int /\ \A i \in Slots : b.queue[i].id \in Int
      BY LinkAssumption DEF Mcu, Rings, Entries, Report, NoReport
    <1>2. b.head \in Slots /\ b.tail \in Slots /\ b.queue \in Rings
      BY DEF Mcu
    <1>3. \A i \in Occupied(b) : i \in Slots
      BY <1>2, SizeAssumption DEF Occupied, Slots
    <1>4. CASE report_buffer_is_full(b)
      <2>1. e = b
        BY <1>4 DEF report_buffer_enqueue
      <2> QED
        BY <1>1, <1>3, <2>1 DEF RingOrdered
    <1>5. CASE ~report_buffer_is_full(b)
      <2> HIDE DEF e
      <2>1. /\ Occupied(e) = Occupied(b) \union {b.head}
            /\ b.head \notin Occupied(b)
            /\ \A i \in Occupied(e) : i \in Slots /\ Ahead(e, i) = Ahead(b, i)
            /\ \A i \in Occupied(b) : Ahead(b, i) < Ahead(b, b.head)
            /\ e.queue = [b.queue EXCEPT ![b.head] = r]
            /\ e.kb_rpt = b.kb_rpt /\ e.tx = b.tx
        BY <1>5, EnqueueSlots DEF e
      <2>2. e.queue[b.head] = r /\ \A i \in Occupied(b) : e.queue[i] = b.queue[i]
        BY <1>2, <1>3, <2>1 DEF Rings
      <2>3. \A i \in Slots : Ahead(b, i) \in Int
        BY <1>2, SizeAssumption DEF Ahead, Slots
      <2>4. \A i \in Occupied(e) : e.kb_rpt.id < e.queue[i].id /\ e.queue[i].id <= g + 1
        BY <1>1, <1>3, <2>1, <2>2 DEF RingOrdered
      <2>5. ASSUME NEW i \in Occupied(e), NEW j \in Occupied(e), Ahead(e, i) < Ahead(e, j)
            PROVE  e.queue[i].id < e.queue[j].id
        <3>1. i \in Slots /\ j \in Slots /\ Ahead(b, i) < Ahead(b, j)
          BY <2>1, <2>5
        <3>2. i \in Occupied(b)
          BY <1>2, <2>1, <2>3, <3>1
        <3>3. CASE j = b.head
          BY <1>1, <2>2, <3>1, <3>2, <3>3 DEF RingOrdered
        <3>4. CASE j \in Occupied(b)
          BY <2>2, <3>1, <3>2, <3>4 DEF RingOrdered
        <3> QED
          BY <2>1, <3>3, <3>4
      <2>6. e.kb_rpt.id <= g + 1
        BY <1>1, <2>1 DEF RingOrdered
      <2>7. RingOrdered(e, g + 1)
        BY <2>4, <2>5, <2>6 DEF RingOrdered
      <2> QED
        BY <2>1, <2>7 DEF e
    <1> QED
      BY <1>4, <1>5

LEMMA DequeueOrdered ==
    ASSUME NEW b \in Mcu, NEW g \in Nat, RingOrdered(b, g), ~report_buffer_is_empty(b)
    PROVE  LET d == report_buffer_dequeue(b)
           IN RingOrdered(d, g) /\ d.tx = b.tx /\ b.kb_rpt.id < d.kb_rpt.id
    <1> DEFINE d == report_buffer_dequeue(b)
    <1> HIDE DEF d
    <1>1. /\ b.tail \in Occupied(b)
          /\ Occupied(d) = Occupied(b) \ {b.tail}
          /\ \A i \in Occupied(d) : i \in Slots /\ Ahead(b, b.tail) < Ahead(b, i)
          /\ \A i, j \in Occupied(d) : Ahead(d, i) < Ahead(d, j) => Ahead(b, i) < Ahead(b, j)
          /\ d.kb_rpt = b.queue[b.tail] /\ d.queue = b.queue /\ d.tx = b.tx
      BY DequeueSlots DEF d
    <1> QED
      BY <1>1 DEF RingOrdered, d

LEMMA SendOrdered ==
    ASSUME NEW b \in Mcu, NEW f \in Seq(Report), NEW h \in Nat,
           WireOrdered(b.tx, b.kb_rpt.id, f, h)
    PROVE  LET p == SendPending(b)
           IN /\ WireOrdered(p.tx, p.kb_rpt.id, f, h)
              /\ p.kb_rpt = b.kb_rpt /\ p.queue = b.queue /\ p.head = b.head /\ p.tail = b.tail
    <1> DEFINE p == SendPending(b)
    <1>1. b.kb_rpt \in Entries /\ b.tx \in Commands
      BY DEF Mcu
    <1>2. /\ p.kb_rpt = b.kb_rpt /\ p.queue = b.queue /\ p.head = b.head /\ p.tail = b.tail
          /\ p.tx = IF b.kb_rpt.type \in ReportType THEN Append(b.tx, b.kb_rpt) ELSE b.tx
      BY DEF SendPending, transport_send, lpm_timer_reset, Mcu
    <1> HIDE DEF p
    <1>3. b.kb_rpt.id \in Int /\ \A i \in DOMAIN f : f[i].id \in Int
      <2>1. \A r \in Entries : r.id \in Int
        BY LinkAssumption DEF Entries, Report, NoReport
      <2>2. \A i \in DOMAIN f : f[i] \in Entries
        BY DEF Entries
      <2> QED
        BY <1>1, <2>1, <2>2
    <1>4. CASE b.kb_rpt.type \notin ReportType
      BY <1>2, <1>4 DEF p
    <1>5. CASE b.kb_rpt.type \in ReportType
      <2> DEFINE t == Append(b.tx, b.kb_rpt)
      <2>1. /\ DOMAIN t = (DOMAIN b.tx) \union {Len(b.tx) + 1}
            /\ t[Len(b.tx) + 1] = b.kb_rpt
            /\ \A j \in DOMAIN b.tx : t[j] = b.tx[j] /\ j < Len(b.tx) + 1
        BY <1>1 DEF Commands
      <2>2. Len(b.tx) \in Nat /\ \A j \in DOMAIN b.tx : j \in Int
        BY <1>1 DEF Commands
      <2> HIDE DEF t
      <2>3. WireOrdered(t, b.kb_rpt.id, f, h)
        BY <1>3, <2>1, <2>2 DEF WireOrdered
      <2> QED
        BY <1>2, <1>5, <2>3 DEF p, t
    <1> QED
      BY <1>4, <1>5

\* Everything InOrder says, of an MCU state and the outside world.
Ord(b, g, f, h) == RingOrdered(b, g) /\ WireOrdered(b.tx, b.kb_rpt.id, f, h)

LEMMA OrdFrame ==
    ASSUME NEW b \in Mcu, NEW c \in Mcu, NEW g, NEW f, NEW h, Ord(b, g, f, h),
           c.queue = b.queue, c.head = b.head, c.tail = b.tail,
           c.kb_rpt = b.kb_rpt, c.tx = b.tx
    PROVE  Ord(c, g, f, h)
    BY DEF Ord, RingOrdered, Occupied, Ahead

LEMMA RaiseOrdered ==
    ASSUME NEW f \in Seq(Report), NEW tx \in Commands, NEW h \in Nat,
           NEW k \in Nat, NEW l \in Nat, k <= l, WireOrdered(tx, k, f, h)
    PROVE  WireOrdered(tx, l, f, h)
    <1>1. \A r \in Report \union {Connect} : r.id \in Int
      BY LinkAssumption DEF Report, Connect
    <1>2. (\A i \in DOMAIN f : f[i].id \in Int) /\ (\A i \in DOMAIN tx : tx[i].id \in Int)
      <2>1. \A i \in DOMAIN f : f[i] \in Report \union {Connect}
        OBVIOUS
      <2>2. \A i \in DOMAIN tx : tx[i] \in Report \union {Connect}
        BY DEF Commands
      <2> QED
        BY <1>1, <2>1, <2>2
    <1> QED
      BY <1>2 DEF WireOrdered

LEMMA TaskOrdered ==
    ASSUME NEW b \in Mcu, NEW connected \in BOOLEAN, NEW g \in Nat,
           NEW f \in Seq(Report), NEW h \in Nat, Ord(b, g, f, h)
    PROVE  Ord(report_buffer_task(b, connected), g, f, h)
    <1> DEFINE d == report_buffer_dequeue(b)
               s == [d EXCEPT !.retry = RetryCount]
               u == [b EXCEPT !.retry = @ - 1]
    <1>1. CASE ~report_buffer_is_empty(b) /\ b.retry = 0
      <2>1. d \in Mcu
        BY DequeueType
      <2>2. RingOrdered(d, g) /\ d.tx = b.tx /\ b.kb_rpt.id < d.kb_rpt.id
        BY <1>1, DequeueOrdered DEF Ord
      <2>3. b.kb_rpt.id \in Nat /\ d.kb_rpt.id \in Nat /\ b.tx \in Commands
        BY <2>1, LinkAssumption DEF Mcu, Entries, Report, NoReport
      <2>4. Ord(d, g, f, h)
        BY <2>2, <2>3, RaiseOrdered DEF Ord
      <2>5. /\ s \in Mcu /\ s.queue = d.queue /\ s.head = d.head /\ s.tail = d.tail
            /\ s.kb_rpt = d.kb_rpt /\ s.tx = d.tx
        BY <2>1, FieldFacts DEF Mcu
      <2>6. Ord(s, g, f, h)
        BY <2>1, <2>4, <2>5, OrdFrame
      <2>7. Ord(SendPending(s), g, f, h)
        BY <2>5, <2>6, SendOrdered DEF Ord, RingOrdered, Occupied, Ahead
      <2> QED
        BY <1>1, <2>4, <2>7 DEF report_buffer_task
    <1>2. CASE b.retry # 0
      <2>1. b.retry \in Retries
        BY DEF Mcu
      <2>2. b.retry - 1 \in Retries
        BY <1>2, <2>1, RetryAssumption DEF Retries
      <2>3. /\ u \in Mcu /\ u.queue = b.queue /\ u.head = b.head /\ u.tail = b.tail
            /\ u.kb_rpt = b.kb_rpt /\ u.tx = b.tx
        BY <2>2 DEF Mcu
      <2>4. Ord(u, g, f, h)
        BY <2>3, OrdFrame
      <2>5. Ord(SendPending(u), g, f, h)
        BY <2>3, <2>4, SendOrdered DEF Ord, RingOrdered, Occupied, Ahead
      <2> QED
        BY <1>2, <2>5 DEF report_buffer_task
    <1>3. CASE report_buffer_is_empty(b) /\ b.retry = 0
      <2>1. ~(b.retry > 0)
        BY <1>3
      <2> QED
        BY <1>3, <2>1 DEF report_buffer_task
    <1> QED
      BY <1>1, <1>2, <1>3

LEMMA SendNkroOrdered ==
    ASSUME NEW b \in Mcu, NEW r \in Report, NEW g \in Nat,
           NEW f \in Seq(Report), NEW h \in Nat, Ord(b, g, f, h),
           r.id = g + 1, r.type = "NKRO"
    PROVE  Ord(bluetooth_send(b, r), g + 1, f, h)
    <1> DEFINE e == report_buffer_enqueue(b, r)
               z == report_buffer_set_retry(e, 0)
    <1>1. e \in Mcu
      BY EnqueueType
    <1>2. Ord(e, g + 1, f, h)
      BY EnqueueOrdered DEF Ord
    <1>3. /\ z \in Mcu /\ z.queue = e.queue /\ z.head = e.head /\ z.tail = e.tail
          /\ z.kb_rpt = e.kb_rpt /\ z.tx = e.tx
      BY <1>1, FieldFacts DEF Mcu, report_buffer_set_retry
    <1>4. Ord(z, g + 1, f, h)
      BY <1>1, <1>2, <1>3, OrdFrame
    <1>5. Ord(report_buffer_task(z, TRUE), g + 1, f, h)
      <2>1. g + 1 \in Nat /\ TRUE \in BOOLEAN
        OBVIOUS
      <2> HIDE DEF z
      <2> QED
        BY <1>3, <1>4, <2>1, TaskOrdered
    <1> QED
      BY <1>2, <1>5 DEF bluetooth_send, send_nkro

LEMMA InitOrdered ==
    ASSUME NEW b \in Mcu, NEW g \in Nat, NEW f, NEW h, Ord(b, g, f, h)
    PROVE  Ord(report_buffer_init(b), g, f, h)
    <1> DEFINE i == report_buffer_init(b)
    <1>1. i.head = 0 /\ i.tail = 0 /\ i.kb_rpt = b.kb_rpt /\ i.tx = b.tx
      BY DEF report_buffer_init, Mcu
    <1>2. 0 .. 0 - 1 = {}
      OBVIOUS
    <1>3. Occupied(i) = {}
      BY <1>1, <1>2 DEF Occupied
    <1> HIDE DEF i
    <1>4. Ord(i, g, f, h)
      BY <1>1, <1>3 DEF Ord, RingOrdered
    <1> QED
      BY <1>4 DEF i

LEMMA EndRoundOrdered ==
    ASSUME NEW b \in Mcu, NEW connected \in BOOLEAN, NEW g \in Nat,
           NEW f \in Seq(Report), NEW h \in Nat, Ord(b, g, f, h), EndRound(b, connected)
    PROVE  Ord(mcu', g, f, h)
    <1> DEFINE m == report_buffer_task(b, connected)
    <1>1. m \in Mcu /\ Ord(m, g, f, h)
      BY TaskType, TaskOrdered
    <1>2. ASSUME NEW stale \in {0, MaxTime}
          PROVE  Ord(enter_power_mode(m, stale), g, f, h)
      <2> DEFINE w == lpm_timer_reset([m EXCEPT !.now = 0, !.sinceRetry = stale])
      <2>1. [m EXCEPT !.now = 0, !.sinceRetry = stale] \in Mcu
        BY <1>1, FieldFacts DEF Mcu
      <2>2. /\ w \in Mcu /\ w.queue = m.queue /\ w.head = m.head /\ w.tail = m.tail
            /\ w.kb_rpt = m.kb_rpt /\ w.tx = m.tx
        BY <1>1, <2>1, FieldFacts DEF lpm_timer_reset, Mcu
      <2>3. Ord(w, g, f, h)
        BY <1>1, <2>2, OrdFrame
      <2> QED
        BY <2>2, <2>3, InitOrdered DEF enter_power_mode
    <1> QED
      BY <1>1, <1>2 DEF EndRound

LEMMA NkroKinds ==
    ASSUME Nkro, ~Consumer
    PROVE  Kinds = {"NKRO"} /\ KbType = "NKRO"
    BY DEF Kinds, KbType

LEMMA RoundOrdered ==
    ASSUME Nkro, ~Consumer, TypeOK, InOrder, Round
    PROVE  InOrder'
    <1>1. /\ mcu \in Mcu /\ gen \in Nat /\ fifo \in Seq(Report) /\ host \in Nat
          /\ (bt_state = "CONNECTED") \in BOOLEAN /\ Ord(mcu, gen, fifo, host)
      BY DEF TypeOK, InOrder, Ord
    <1>2. SUFFICES Ord(mcu', gen', fifo', host')
      BY DEF InOrder, Ord
    <1>3. fifo' = fifo /\ host' = host
      BY DEF Round, RoundQuiet, RoundAck, RoundConnected, RoundDisconnected, Outside
    <1>4. CASE RoundQuiet
      BY <1>1, <1>3, <1>4, EndRoundOrdered DEF RoundQuiet
    <1>5. CASE RoundAck
      <2> DEFINE a == ack_handler(mcu, Head(rx))
      <2>1. /\ a \in Mcu /\ a.queue = mcu.queue /\ a.head = mcu.head /\ a.tail = mcu.tail
            /\ a.kb_rpt = mcu.kb_rpt /\ a.tx = mcu.tx
        <3>1. Head(rx) \in Ack
          BY <1>5 DEF RoundAck
        <3> QED
          BY <1>1, <3>1, AckType DEF ack_handler, report_buffer_set_retry, report_buffer_set_inverval, Mcu
      <2>2. Ord(a, gen, fifo, host)
        BY <1>1, <2>1, OrdFrame
      <2>3. EndRound(a, bt_state = "CONNECTED") /\ gen' = gen
        BY <1>5 DEF RoundAck
      <2> HIDE DEF a
      <2> QED
        BY <1>1, <1>3, <2>1, <2>2, <2>3, EndRoundOrdered
    <1>6. CASE RoundConnected
      <2> DEFINE m0 == lpm_timer_reset(mcu)
                 n == IF "NKRO" \in held THEN gen + 1 ELSE gen
                 r == [type |-> "NKRO", id |-> n, down |-> FALSE]
                 m == IF "NKRO" \in held THEN bluetooth_send(m0, r) ELSE m0
      <2>1. "CONSUMER" \notin held /\ KbType = "NKRO"
        BY NkroKinds DEF TypeOK
      <2>2. EndRound(m, TRUE) /\ gen' = n /\ n <= MaxReports
        BY <1>6, <2>1 DEF RoundConnected
      <2>3. /\ m0 \in Mcu /\ m0.queue = mcu.queue /\ m0.head = mcu.head /\ m0.tail = mcu.tail
            /\ m0.kb_rpt = mcu.kb_rpt /\ m0.tx = mcu.tx
        BY <1>1, ResetType DEF lpm_timer_reset, Mcu
      <2>4. Ord(m0, gen, fifo, host)
        BY <1>1, <2>3, OrdFrame
      <2>5. "NKRO" \in held => r \in Report /\ r.id = gen + 1 /\ r.type = "NKRO"
        BY <1>1, <2>2, NkroKinds, LinkAssumption DEF Report
      <2> HIDE DEF m0, r
      <2>6. m \in Mcu /\ Ord(m, n, fifo, host) /\ n \in Nat
        BY <1>1, <2>3, <2>4, <2>5, SendType, SendNkroOrdered
      <2> HIDE DEF m, n
      <2> QED
        BY <1>1, <1>3, <2>2, <2>6, EndRoundOrdered
    <1>7. CASE RoundDisconnected
      <2> DEFINE m == IF bt_state = "CONNECTED" THEN lpm_timer_reset(mcu) ELSE mcu
      <2>1. /\ m \in Mcu /\ m.queue = mcu.queue /\ m.head = mcu.head /\ m.tail = mcu.tail
            /\ m.kb_rpt = mcu.kb_rpt /\ m.tx = mcu.tx
        BY <1>1, ResetType DEF lpm_timer_reset, Mcu
      <2>2. Ord(m, gen, fifo, host)
        BY <1>1, <2>1, OrdFrame
      <2>3. EndRound(report_buffer_init(m), FALSE) /\ gen' = gen
        BY <1>7 DEF RoundDisconnected
      <2> HIDE DEF m
      <2>4. report_buffer_init(m) \in Mcu /\ Ord(report_buffer_init(m), gen, fifo, host)
        BY <1>1, <2>1, <2>2, InitType, InitOrdered
      <2> QED
        BY <1>1, <1>3, <2>3, <2>4, EndRoundOrdered
    <1> QED
      BY <1>4, <1>5, <1>6, <1>7 DEF Round

\* Taking the first command off the UART, or the first report off the FIFO.
LEMMA TakeOrdered ==
    ASSUME NEW b \in Mcu, b.tx # <<>>, NEW g, NEW f, NEW h, Ord(b, g, f, h),
           NEW c \in Mcu, c = [b EXCEPT !.tx = Tail(@)]
    PROVE  Ord(c, g, f, h)
    <1>1. b.tx \in Commands
      BY DEF Mcu
    <1>2. /\ c.queue = b.queue /\ c.head = b.head /\ c.tail = b.tail
          /\ c.kb_rpt = b.kb_rpt /\ c.tx = Tail(b.tx)
      BY DEF Mcu
    <1>3. \A i \in DOMAIN Tail(b.tx) : i \in Int /\ i + 1 \in DOMAIN b.tx /\ Tail(b.tx)[i] = b.tx[i + 1]
      BY <1>1 DEF Commands
    <1>4. WireOrdered(Tail(b.tx), b.kb_rpt.id, f, h)
      <2> DEFINE t == Tail(b.tx)
      <2> HIDE DEF t
      <2>1. \A i \in DOMAIN t : i \in Int /\ i + 1 \in DOMAIN b.tx /\ t[i] = b.tx[i + 1]
        BY <1>3 DEF t
      <2>2. WireOrdered(t, b.kb_rpt.id, f, h)
        BY <2>1 DEF Ord, WireOrdered
      <2> QED
        BY <2>2 DEF t
    <1> QED
      BY <1>2, <1>4 DEF Ord, RingOrdered, Occupied, Ahead

LEMMA AcceptOrdered ==
    ASSUME NEW f \in Seq(Report), NEW tx \in Commands, tx # <<>>, Head(tx) # Connect,
           NEW h, NEW k, WireOrdered(tx, k, f, h)
    PROVE  WireOrdered(Tail(tx), k, Append(f, Head(tx)), h)
    <1> DEFINE t == Tail(tx)
               a == Append(f, Head(tx))
    <1>1. \A i \in DOMAIN t : i \in Int /\ i + 1 \in DOMAIN tx /\ t[i] = tx[i + 1] /\ 1 < i + 1
      BY DEF Commands
    <1>2. 1 \in DOMAIN tx /\ Head(tx) = tx[1]
      BY DEF Commands
    <1>3. /\ DOMAIN a = (DOMAIN f) \union {Len(f) + 1}
          /\ a[Len(f) + 1] = tx[1]
          /\ \A i \in DOMAIN f : a[i] = f[i] /\ i < Len(f) + 1
      BY <1>2
    <1>4. Len(f) \in Nat /\ \A i \in DOMAIN f : i \in Int
      OBVIOUS
    <1>5. \A r \in Report : r.id \in Int
      BY LinkAssumption DEF Report
    <1>6. tx[1] \in Report
      BY <1>2 DEF Commands
    <1>7. tx[1].id \in Int
      BY <1>5, <1>6
    <1>8. tx[1] # Connect
      BY <1>2
    <1> HIDE DEF t, a
    <1>9. WireOrdered(t, k, a, h)
      BY <1>1, <1>2, <1>3, <1>4, <1>7, <1>8 DEF WireOrdered
    <1> QED
      BY <1>9 DEF t, a

LEMMA ReceiveOrdered ==
    ASSUME NEW f \in Seq(Report), f # <<>>, NEW tx, NEW h, NEW k, WireOrdered(tx, k, f, h)
    PROVE  WireOrdered(tx, k, Tail(f), Head(f).id)
    <1> DEFINE t == Tail(f)
    <1>1. \A i \in DOMAIN t : i \in Int /\ i + 1 \in DOMAIN f /\ t[i] = f[i + 1] /\ 1 < i + 1
      OBVIOUS
    <1>2. 1 \in DOMAIN f /\ Head(f) = f[1]
      OBVIOUS
    <1> HIDE DEF t
    <1>3. WireOrdered(tx, k, t, f[1].id)
      BY <1>1, <1>2 DEF WireOrdered
    <1> QED
      BY <1>2, <1>3 DEF t

LEMMA NextOrdered ==
    ASSUME Nkro, ~Consumer, TypeOK, InOrder, [Next]_vars
    PROVE  InOrder'
    <1>1. /\ mcu \in Mcu /\ gen \in Nat /\ fifo \in Seq(Report) /\ host \in Nat
          /\ Ord(mcu, gen, fifo, host)
      BY DEF TypeOK, InOrder, Ord
    <1>2. TypeOK'
      BY NextTypeOK
    <1>3. SUFFICES Ord(mcu', gen', fifo', host')
      BY DEF InOrder, Ord
    <1>4. ASSUME NEW kind \in Kinds, NEW down \in BOOLEAN, Key(kind, down)
          PROVE  Ord(mcu', gen', fifo', host')
      <2> DEFINE r == [type |-> kind, id |-> gen + 1, down |-> down]
                 m == lpm_timer_reset(mcu)
      <2>1. r \in Report /\ r.id = gen + 1 /\ r.type = "NKRO"
        BY <1>1, <1>4, NkroKinds, LinkAssumption DEF Key, Report
      <2>2. /\ m \in Mcu /\ m.queue = mcu.queue /\ m.head = mcu.head /\ m.tail = mcu.tail
            /\ m.kb_rpt = mcu.kb_rpt /\ m.tx = mcu.tx
        BY <1>1, ResetType DEF lpm_timer_reset, Mcu
      <2>3. Ord(m, gen, fifo, host)
        BY <1>1, <2>2, OrdFrame
      <2>4. fifo' = fifo /\ host' = host /\ gen' = gen + 1 /\ mcu' \in Mcu
        BY <1>2, <1>4 DEF Key, TypeOK
      <2>5. CASE bt_state = "CONNECTED"
        <3>1. mcu' = bluetooth_send(m, r)
          BY <1>4, <2>5 DEF Key
        <3> HIDE DEF m, r
        <3> QED
          BY <1>1, <2>1, <2>2, <2>3, <2>4, <3>1, SendNkroOrdered
      <2>6. CASE bt_state # "CONNECTED"
        <3>1. mcu' = m \/ mcu' = [m EXCEPT !.tx = Append(@, Connect)]
          BY <1>4, <2>6 DEF Key
        <3>2. /\ mcu'.queue = m.queue /\ mcu'.head = m.head /\ mcu'.tail = m.tail
              /\ mcu'.kb_rpt = m.kb_rpt
              /\ mcu'.tx = m.tx \/ mcu'.tx = Append(m.tx, Connect)
          BY <2>2, <3>1 DEF Mcu
        <3>3. m.tx \in Commands
          BY <2>2 DEF Mcu
        <3> DEFINE t == Append(m.tx, Connect)
        <3>4. /\ DOMAIN t = (DOMAIN m.tx) \union {Len(m.tx) + 1}
              /\ t[Len(m.tx) + 1] = Connect
              /\ \A j \in DOMAIN m.tx : t[j] = m.tx[j]
          BY <3>3 DEF Commands
        <3> HIDE DEF t, m
        <3>5. WireOrdered(t, m.kb_rpt.id, fifo, host)
          BY <2>3, <3>4 DEF WireOrdered, Ord
        <3>6. WireOrdered(mcu'.tx, mcu'.kb_rpt.id, fifo, host)
          BY <2>3, <3>2, <3>5 DEF Ord, t
        <3>7. m.kb_rpt.id \in Int /\ (\A i \in Slots : m.queue[i].id \in Int)
          BY <2>2, LinkAssumption DEF Mcu, Rings, Entries, Report, NoReport
        <3>8. \A i \in Occupied(m) : i \in Slots
          BY <2>2, SizeAssumption DEF Occupied, Slots, Mcu
        <3>9. RingOrdered(m, gen + 1)
          BY <1>1, <2>3, <3>7, <3>8 DEF RingOrdered, Ord
        <3>10. RingOrdered(mcu', gen + 1)
          BY <3>2, <3>9 DEF RingOrdered, Occupied, Ahead
        <3> QED
          BY <2>4, <3>6, <3>10 DEF Ord
      <2> QED
        BY <2>5, <2>6
    <1>5. CASE Round
      <2>1. InOrder'
        BY <1>5, RoundOrdered
      <2> QED
        BY <2>1 DEF InOrder, Ord
    <1>6. CASE Tick
      <2>1. /\ mcu'.queue = mcu.queue /\ mcu'.head = mcu.head /\ mcu'.tail = mcu.tail
            /\ mcu'.kb_rpt = mcu.kb_rpt /\ mcu'.tx = mcu.tx
        BY <1>1, <1>6 DEF Tick, TimerTick, Mcu
      <2>2. mcu' \in Mcu /\ gen' = gen /\ fifo' = fifo /\ host' = host
        BY <1>2, <1>6 DEF Tick, TypeOK, Outside
      <2> QED
        BY <1>1, <2>1, <2>2, OrdFrame
    <1>7. CASE ModuleRefuse \/ ModuleDiscard
      <2>1. mcu.tx # <<>> /\ TakeCommand /\ gen' = gen /\ fifo' = fifo /\ host' = host /\ mcu' \in Mcu
        BY <1>2, <1>7 DEF ModuleRefuse, ModuleDiscard, Outside, TypeOK
      <2> QED
        BY <1>1, <2>1, TakeOrdered DEF TakeCommand
    <1>8. CASE ModuleAccept
      <2>1. /\ mcu.tx # <<>> /\ Head(mcu.tx) # Connect /\ TakeCommand /\ gen' = gen /\ host' = host
            /\ fifo' = Append(fifo, Head(mcu.tx)) /\ mcu' \in Mcu
        BY <1>2, <1>8 DEF ModuleAccept, TypeOK
      <2>2. /\ mcu'.queue = mcu.queue /\ mcu'.head = mcu.head /\ mcu'.tail = mcu.tail
            /\ mcu'.kb_rpt = mcu.kb_rpt /\ mcu'.tx = Tail(mcu.tx) /\ mcu.tx \in Commands
        BY <1>1, <2>1 DEF TakeCommand, Mcu
      <2>3. WireOrdered(Tail(mcu.tx), mcu.kb_rpt.id, Append(fifo, Head(mcu.tx)), host)
        BY <1>1, <2>1, <2>2, AcceptOrdered DEF Ord
      <2>4. RingOrdered(mcu', gen)
        BY <1>1, <2>2 DEF Ord, RingOrdered, Occupied, Ahead
      <2> QED
        BY <2>1, <2>2, <2>3, <2>4 DEF Ord
    <1>9. ASSUME NEW event \in {"CONNECTED", "DISCONNECTED"}, ModuleLinkResult(event)
          PROVE  Ord(mcu', gen', fifo', host')
      <2>1. gen' = gen /\ fifo' = fifo /\ host' = host /\ mcu' \in Mcu
        BY <1>2, <1>9 DEF ModuleLinkResult, TypeOK
      <2>2. mcu' = mcu \/ (TakeCommand /\ mcu.tx # <<>>)
        BY <1>9 DEF ModuleLinkResult
      <2> QED
        BY <1>1, <2>1, <2>2, TakeOrdered DEF TakeCommand
    <1>10. CASE ModuleLinkLost
      <2>1. gen' = gen /\ fifo' = <<>> /\ host' = host /\ mcu' = mcu
        BY <1>10 DEF ModuleLinkLost
      <2>2. DOMAIN fifo' = {}
        BY <2>1
      <2> QED
        BY <1>1, <2>1, <2>2 DEF Ord, WireOrdered
    <1>11. CASE HostReceive
      <2>1. fifo # <<>> /\ gen' = gen /\ fifo' = Tail(fifo) /\ host' = Head(fifo).id /\ mcu' = mcu
        BY <1>11 DEF HostReceive
      <2> QED
        BY <1>1, <2>1, ReceiveOrdered DEF Ord
    <1>12. CASE UNCHANGED vars
      BY <1>1, <1>12 DEF vars
    <1> QED
      BY <1>4, <1>5, <1>6, <1>7, <1>8, <1>9, <1>10, <1>11, <1>12 DEF Next, Module

\* With NKRO on and no consumer reports no report ever overtakes another, for
\* every ring size and every delay of the module, its noise included: the order
\* of bluetooth_send_keyboard's ring path does not depend on timely answers.
THEOREM NkroInOrder ==
    ASSUME Nkro, ~Consumer
    PROVE  Spec => []InOrder
    <1>1. Init => InOrder
      <2> SUFFICES ASSUME Init
                   PROVE  InOrder
        OBVIOUS
      <2>1. mcu.kb_rpt.id = 0 /\ mcu.head = 0 /\ mcu.tail = 0 /\ gen = 0 /\ host = 0
        BY DEF Init, NoReport
      <2>2. 0 .. 0 - 1 = {}
        OBVIOUS
      <2>3. Occupied(mcu) = {}
        BY <2>1, <2>2 DEF Occupied
      <2>4. DOMAIN fifo = {}
        BY DEF Init
      <2>5. \A j \in DOMAIN mcu.tx : mcu.tx[j] = Connect
        BY DEF Init
      <2> QED
        BY <2>1, <2>3, <2>4, <2>5 DEF InOrder, RingOrdered, WireOrdered
    <1>2. TypeOK /\ InOrder /\ [Next]_vars => InOrder'
      BY NextOrdered
    <1> QED
      BY <1>1, <1>2, TypeCorrect, PTL DEF Spec

(***************************************************************************)
(* A macro shorter than the ring loses nothing.  The invariant counts: as  *)
(* long as the ring was not empty at the end of a round, every report in   *)
(* it is one of the burst, so a ring that is full has seen at least        *)
(* QueueSize - 1 reports of the burst.                                     *)
(***************************************************************************)

\* The number of reports in the ring.
Waiting(b) == IF b.tail <= b.head THEN b.head - b.tail ELSE b.head + QueueSize - b.tail

Fits ==
    /\ Waiting(mcu) <= burst
    /\ dropped <= gen
    /\ MacroFits

LEMMA WaitingBounds ==
    ASSUME NEW b \in Mcu
    PROVE  /\ Waiting(b) \in Nat /\ Waiting(b) < QueueSize
           /\ report_buffer_is_full(b) <=> Waiting(b) = QueueSize - 1
           /\ report_buffer_is_empty(b) <=> Waiting(b) = 0
    <1>1. b.head \in Slots /\ b.tail \in Slots
      BY DEF Mcu
    <1>2. Next1(b.head) = IF b.head + 1 = QueueSize THEN 0 ELSE b.head + 1
      BY <1>1, NextSlot
    <1> QED
      BY <1>1, <1>2, SizeAssumption
      DEF Slots, Waiting, report_buffer_is_full, report_buffer_is_empty

\* The count depends on the two indices alone.
LEMMA WaitingFrame ==
    ASSUME NEW b, NEW c, c.head = b.head, c.tail = b.tail
    PROVE  Waiting(c) = Waiting(b)
    BY DEF Waiting

LEMMA EnqueueWaiting ==
    ASSUME NEW b \in Mcu, NEW r \in Report
    PROVE  Waiting(report_buffer_enqueue(b, r)) <= Waiting(b) + 1
    <1>1. b.head \in Slots /\ b.tail \in Slots
      BY DEF Mcu
    <1>2. Next1(b.head) = IF b.head + 1 = QueueSize THEN 0 ELSE b.head + 1
      BY <1>1, NextSlot
    <1>3. CASE report_buffer_is_full(b)
      BY <1>3, WaitingBounds DEF report_buffer_enqueue
    <1>4. CASE ~report_buffer_is_full(b)
      <2> DEFINE e == report_buffer_enqueue(b, r)
      <2>1. e.head = Next1(b.head) /\ e.tail = b.tail
        BY <1>4 DEF report_buffer_enqueue, Mcu
      <2> HIDE DEF e
      <2>2. Waiting(e) <= Waiting(b) + 1
        BY <1>1, <1>2, <1>4, <2>1, SizeAssumption DEF Slots, Waiting, report_buffer_is_full
      <2> QED
        BY <2>2 DEF e
    <1> QED
      BY <1>3, <1>4

LEMMA SendPendingWaiting ==
    ASSUME NEW b \in Mcu
    PROVE  Waiting(SendPending(b)) = Waiting(b)
    <1>1. SendPending(b).head = b.head /\ SendPending(b).tail = b.tail
      BY DEF SendPending, lpm_timer_reset, transport_send, Mcu
    <1> QED
      BY <1>1, WaitingFrame

LEMMA TaskWaiting ==
    ASSUME NEW b \in Mcu, NEW connected \in BOOLEAN
    PROVE  Waiting(report_buffer_task(b, connected)) <= Waiting(b)
    <1> DEFINE d == report_buffer_dequeue(b)
               d1 == [d EXCEPT !.retry = RetryCount]
               b1 == [b EXCEPT !.retry = @ - 1]
    <1>1. b.head \in Slots /\ b.tail \in Slots /\ d \in Mcu /\ d1 \in Mcu
      BY DequeueType, FieldFacts DEF Mcu
    <1>2. Next1(b.tail) = IF b.tail + 1 = QueueSize THEN 0 ELSE b.tail + 1
      BY <1>1, NextSlot
    <1>3. ASSUME ~report_buffer_is_empty(b)
          PROVE  Waiting(d) <= Waiting(b)
      <2>1. d.head = b.head /\ d.tail = Next1(b.tail)
        BY DEF report_buffer_dequeue, Mcu
      <2> HIDE DEF d
      <2> QED
        BY <1>1, <1>2, <1>3, <2>1, SizeAssumption DEF Slots, Waiting, report_buffer_is_empty
    <1>4. Waiting(SendPending(d1)) = Waiting(d)
      <2>1. d1.head = d.head /\ d1.tail = d.tail
        BY <1>1 DEF Mcu
      <2>2. Waiting(d1) = Waiting(d)
        BY <2>1, WaitingFrame
      <2> QED
        BY <1>1, <2>2, SendPendingWaiting
    <1>5. ASSUME b.retry # 0
          PROVE  Waiting(SendPending(b1)) = Waiting(b)
      <2>1. b.retry - 1 \in Retries
        BY <1>5, RetryAssumption DEF Mcu, Retries
      <2>2. b1 \in Mcu /\ b1.head = b.head /\ b1.tail = b.tail
        BY <2>1 DEF Mcu
      <2>3. Waiting(b1) = Waiting(b)
        BY <2>2, WaitingFrame
      <2> QED
        BY <2>2, <2>3, SendPendingWaiting
    <1>6. Waiting(b) \in Nat /\ b.retry \in Nat
      BY WaitingBounds, RetryAssumption DEF Mcu, Retries
    <1> DEFINE t == report_buffer_task(b, connected)
    <1>7. \/ t = b
          \/ ~report_buffer_is_empty(b) /\ (t = SendPending(d1) \/ t = d)
          \/ b.retry # 0 /\ t = SendPending(b1)
      BY <1>6 DEF report_buffer_task
    <1> HIDE DEF t, d, d1, b1
    <1>8. Waiting(t) <= Waiting(b)
      BY <1>3, <1>4, <1>5, <1>6, <1>7
    <1> QED
      BY <1>8 DEF t

LEMMA SendWaiting ==
    ASSUME NEW b \in Mcu, NEW r \in Report
    PROVE  Waiting(bluetooth_send(b, r)) <= Waiting(b) + 1
    <1> DEFINE e == report_buffer_enqueue(b, r)
               q == report_buffer_set_retry(e, 0)
               u == report_buffer_task(q, TRUE)
               s == report_buffer_update_timer(transport_send(b, r))
    <1>1. e \in Mcu /\ Waiting(e) <= Waiting(b) + 1
      BY EnqueueType, EnqueueWaiting
    <1>2. q \in Mcu /\ q.head = e.head /\ q.tail = e.tail
      BY <1>1, FieldFacts DEF report_buffer_set_retry, Mcu
    <1>3. Waiting(q) = Waiting(e)
      BY <1>2, WaitingFrame
    <1>4. Waiting(u) <= Waiting(q) /\ u \in Mcu
      BY <1>2, TaskWaiting, TaskType
    <1>5. s.head = b.head /\ s.tail = b.tail
      BY DEF report_buffer_update_timer, transport_send, Mcu
    <1>6. Waiting(s) = Waiting(b)
      BY <1>5, WaitingFrame
    <1>7. Waiting(b) \in Nat /\ Waiting(e) \in Nat /\ Waiting(u) \in Nat
      BY <1>1, <1>4, WaitingBounds
    <1> DEFINE t == bluetooth_send(b, r)
    <1>8. t = e \/ t = s \/ t = u
      BY DEF bluetooth_send, send_nkro, send_direct
    <1> HIDE DEF t, e, q, s, u
    <1>9. Waiting(t) <= Waiting(b) + 1
      BY <1>1, <1>3, <1>4, <1>6, <1>7, <1>8
    <1> QED
      BY <1>9 DEF t

\* A round leaves no more reports in the ring than it found.
LEMMA EndRoundWaiting ==
    ASSUME NEW b \in Mcu, NEW connected \in BOOLEAN, EndRound(b, connected)
    PROVE  Waiting(mcu') <= Waiting(b)
    <1> DEFINE m == report_buffer_task(b, connected)
    <1>1. m \in Mcu /\ Waiting(m) <= Waiting(b)
      BY TaskType, TaskWaiting
    <1>2. ASSUME NEW stale \in {0, MaxTime}
          PROVE  Waiting(enter_power_mode(m, stale)) = 0
      <2>1. enter_power_mode(m, stale).head = 0 /\ enter_power_mode(m, stale).tail = 0
        BY <1>1 DEF enter_power_mode, report_buffer_init, lpm_timer_reset, Mcu
      <2> QED
        BY <2>1 DEF Waiting
    <1>3. Waiting(b) \in Nat
      BY WaitingBounds
    <1>4. mcu' = m \/ \E stale \in {0, MaxTime} : mcu' = enter_power_mode(m, stale)
      BY DEF EndRound
    <1> HIDE DEF m
    <1> QED
      BY <1>1, <1>2, <1>3, <1>4

\* A round that begins with n new reports in the ring.
LEMMA EndBurstFits ==
    ASSUME TypeOK, TypeOK', Fits, NEW n \in Nat, EndBurst(n),
           gen' = gen + n, dropped' = dropped, Waiting(mcu') <= Waiting(mcu) + n
    PROVE  Fits'
    <1>1. /\ mcu' \in Mcu /\ burst \in Nat /\ gen \in Nat /\ dropped \in Nat
          /\ Waiting(mcu) \in Nat /\ Waiting(mcu') \in Nat
      BY WaitingBounds, LinkAssumption DEF TypeOK
    <1>2. CASE report_buffer_is_empty(mcu')
      <2>1. Waiting(mcu') = 0
        BY <1>1, <1>2, WaitingBounds
      <2>2. burst' = 0
        BY <1>2 DEF EndBurst
      <2> QED
        BY <1>1, <2>1, <2>2 DEF Fits, MacroFits
    <1>3. CASE ~report_buffer_is_empty(mcu')
      <2>1. burst' = burst + n
        BY <1>3 DEF EndBurst
      <2> QED
        BY <1>1, <2>1, SizeAssumption DEF Fits, MacroFits, Waiting
    <1> QED
      BY <1>2, <1>3

LEMMA KeyFits ==
    ASSUME TypeOK, TypeOK', Fits, NEW kind \in Kinds, NEW down \in BOOLEAN, Key(kind, down)
    PROVE  Fits'
    <1> DEFINE r == [type |-> kind, id |-> gen + 1, down |-> down]
               m == lpm_timer_reset(mcu)
    <1>1. gen \in Nat /\ gen + 1 \in 1 .. MaxReports /\ burst \in Nat /\ dropped \in Nat
      BY LinkAssumption DEF TypeOK, Key
    <1>2. r \in Report /\ m \in Mcu /\ mcu \in Mcu /\ mcu' \in Mcu
      BY <1>1, ResetType DEF Report, TypeOK
    <1>3. Waiting(m) = Waiting(mcu)
      BY WaitingFrame DEF lpm_timer_reset, TypeOK, Mcu
    <1>4. /\ Waiting(mcu) \in Nat /\ Waiting(mcu') \in Nat
          /\ report_buffer_is_full(m) => Waiting(m) = QueueSize - 1
      BY <1>2, WaitingBounds
    <1>5. CASE bt_state = "CONNECTED"
      <2>1. mcu' = bluetooth_send(m, r) /\ burst' = burst + 1 /\ gen' = gen + 1
        BY <1>5 DEF Key
      <2>2. Waiting(mcu') <= Waiting(mcu) + 1
        BY <1>2, <1>3, <2>1, SendWaiting
      <2>3. CASE Drops(m, r)
        <3>1. dropped' = gen + 1 /\ Waiting(mcu) = QueueSize - 1
          BY <1>3, <1>4, <1>5, <2>3 DEF Key, Drops
        <3> QED
          BY <1>1, <1>4, <2>1, <2>2, <3>1, SizeAssumption DEF Fits, MacroFits
      <2>4. CASE ~Drops(m, r)
        <3>1. dropped' = dropped
          BY <1>5, <2>4 DEF Key
        <3> QED
          BY <1>1, <1>4, <2>1, <2>2, <3>1, SizeAssumption DEF Fits, MacroFits
      <2> QED
        BY <2>3, <2>4
    <1>6. CASE bt_state # "CONNECTED"
      <2>1. burst' = burst /\ gen' = gen + 1 /\ dropped' = dropped
        BY <1>6 DEF Key
      <2>2. mcu'.head = mcu.head /\ mcu'.tail = mcu.tail
        BY <1>2, <1>6 DEF Key, lpm_timer_reset, Mcu
      <2>3. Waiting(mcu') = Waiting(mcu)
        BY <2>2, WaitingFrame
      <2> QED
        BY <1>1, <1>4, <2>1, <2>3, SizeAssumption DEF Fits, MacroFits
    <1> QED
      BY <1>5, <1>6

LEMMA RoundFits ==
    ASSUME TypeOK, TypeOK', Fits, Round
    PROVE  Fits'
    <1>1. /\ mcu \in Mcu /\ (bt_state = "CONNECTED") \in BOOLEAN
          /\ Waiting(mcu) \in Nat /\ Waiting(mcu') \in Nat /\ gen \in Nat
      BY WaitingBounds, LinkAssumption DEF TypeOK
    <1>2. CASE RoundQuiet
      <2>1. Waiting(mcu') <= Waiting(mcu)
        BY <1>1, <1>2, EndRoundWaiting DEF RoundQuiet
      <2>2. EndBurst(0) /\ gen' = gen /\ dropped' = dropped
        BY <1>2 DEF RoundQuiet
      <2> QED
        BY <1>1, <2>1, <2>2, EndBurstFits
    <1>3. CASE RoundAck
      <2> DEFINE a == ack_handler(mcu, Head(rx))
      <2>1. a \in Mcu /\ a.head = mcu.head /\ a.tail = mcu.tail
        BY <1>1, <1>3, AckType
        DEF RoundAck, ack_handler, report_buffer_set_retry, report_buffer_set_inverval, Mcu
      <2>2. EndRound(a, bt_state = "CONNECTED") /\ EndBurst(0) /\ gen' = gen /\ dropped' = dropped
        BY <1>3 DEF RoundAck
      <2> HIDE DEF a
      <2>3. Waiting(mcu') <= Waiting(a) /\ Waiting(a) = Waiting(mcu)
        BY <1>1, <2>1, <2>2, EndRoundWaiting, WaitingFrame
      <2> QED
        BY <1>1, <2>2, <2>3, EndBurstFits
    <1>4. CASE RoundConnected
      <2> DEFINE Release(kind, id) == [type |-> kind, id |-> id, down |-> FALSE]
                 m0 == lpm_timer_reset(mcu)
                 n1 == IF "CONSUMER" \in held THEN gen + 1 ELSE gen
                 m1 == IF "CONSUMER" \in held THEN bluetooth_send(m0, Release("CONSUMER", n1)) ELSE m0
                 n2 == IF KbType \in held THEN n1 + 1 ELSE n1
                 m2 == IF KbType \in held THEN bluetooth_send(m1, Release(KbType, n2)) ELSE m1
      <2>1. /\ n1 \in Nat /\ n2 \in Nat /\ gen <= n1 /\ n1 <= n2 /\ n2 <= MaxReports
            /\ "CONSUMER" \in held => n1 = gen + 1
            /\ "CONSUMER" \notin held => n1 = gen
            /\ KbType \in held => n2 = n1 + 1
            /\ KbType \notin held => n2 = n1
        BY <1>1, <1>4 DEF RoundConnected
      <2>2. m0 \in Mcu /\ m0.head = mcu.head /\ m0.tail = mcu.tail
        BY <1>1, ResetType DEF lpm_timer_reset, Mcu
      <2>3. "CONSUMER" \in held => Release("CONSUMER", n1) \in Report
        BY <1>1, <2>1, LinkAssumption DEF Report, TypeOK
      <2>4. "CONSUMER" \in held => /\ m1 \in Mcu
                                   /\ Waiting(m1) <= Waiting(m0) + 1
        BY <2>2, <2>3, SendType, SendWaiting
      <2>5. "CONSUMER" \notin held => m1 = m0
        OBVIOUS
      <2>6. m1 \in Mcu
        BY <2>2, <2>4, <2>5
      <2>7. KbType \in held => Release(KbType, n2) \in Report
        BY <1>1, <2>1, LinkAssumption DEF Report, TypeOK
      <2>8. KbType \in held => /\ m2 \in Mcu
                               /\ Waiting(m2) <= Waiting(m1) + 1
        BY <2>6, <2>7, SendType, SendWaiting
      <2>9. KbType \notin held => m2 = m1
        OBVIOUS
      <2>10. EndRound(m2, TRUE) /\ EndBurst(n2 - gen) /\ gen' = n2 /\ dropped' = dropped
        BY <1>4 DEF RoundConnected
      <2> HIDE DEF m0, n1, m1, n2, m2
      <2>11. m2 \in Mcu /\ Waiting(m0) = Waiting(mcu)
        BY <2>2, <2>6, <2>8, <2>9, WaitingFrame
      <2>12. Waiting(m0) \in Nat /\ Waiting(m1) \in Nat /\ Waiting(m2) \in Nat
        BY <2>2, <2>6, <2>11, WaitingBounds
      <2>13. Waiting(mcu') <= Waiting(m2)
        BY <2>10, <2>11, EndRoundWaiting
      <2>14. Waiting(m1) <= Waiting(mcu) + (n1 - gen)
        BY <1>1, <2>1, <2>4, <2>5, <2>11, <2>12
      <2>15. Waiting(m2) <= Waiting(m1) + (n2 - n1)
        BY <2>1, <2>8, <2>9, <2>12
      <2> DEFINE n == n2 - gen
      <2>16. n \in Nat /\ gen' = gen + n /\ Waiting(mcu') <= Waiting(mcu) + n /\ EndBurst(n)
        BY <1>1, <2>1, <2>10, <2>12, <2>13, <2>14, <2>15
      <2> HIDE DEF n
      <2> QED
        BY <2>10, <2>16, EndBurstFits
    <1>5. CASE RoundDisconnected
      <2> DEFINE m == IF bt_state = "CONNECTED" THEN lpm_timer_reset(mcu) ELSE mcu
                 i == report_buffer_init(m)
      <2>1. m \in Mcu /\ i \in Mcu
        BY <1>1, ResetType, InitType
      <2>2. i.head = 0 /\ i.tail = 0
        BY <2>1 DEF report_buffer_init, Mcu
      <2>3. EndRound(i, FALSE) /\ EndBurst(0) /\ gen' = gen /\ dropped' = dropped
        BY <1>5 DEF RoundDisconnected
      <2> HIDE DEF m, i
      <2>4. Waiting(i) = 0
        BY <2>2 DEF Waiting
      <2>5. Waiting(mcu') <= Waiting(i)
        BY <2>1, <2>3, EndRoundWaiting
      <2> QED
        BY <1>1, <2>3, <2>4, <2>5, EndBurstFits
    <1> QED
      BY <1>2, <1>3, <1>4, <1>5 DEF Round

LEMMA NextFits == TypeOK /\ TypeOK' /\ Fits /\ [Next]_vars => Fits'
    <1> SUFFICES ASSUME TypeOK, TypeOK', Fits, [Next]_vars
                 PROVE  Fits'
      OBVIOUS
    <1>1. ASSUME NEW kind \in Kinds, NEW down \in BOOLEAN, Key(kind, down)
          PROVE  Fits'
      BY <1>1, KeyFits
    <1>2. CASE Round
      BY <1>2, RoundFits
    <1>3. ASSUME /\ mcu'.head = mcu.head /\ mcu'.tail = mcu.tail
                 /\ UNCHANGED <<gen, burst, dropped>>
          PROVE  Fits'
      BY <1>3, WaitingFrame DEF Fits, MacroFits
    <1>4. CASE Tick
      BY <1>3, <1>4 DEF Tick, TimerTick, TypeOK, Mcu
    <1>5. CASE Module
      BY <1>3, <1>5 DEF Module, ModuleAccept, ModuleRefuse, ModuleDiscard, TakeCommand, TypeOK, Mcu
    <1>6. ASSUME NEW event \in {"CONNECTED", "DISCONNECTED"}, ModuleLinkResult(event)
          PROVE  Fits'
      BY <1>3, <1>6 DEF ModuleLinkResult, TakeCommand, TypeOK, Mcu
    <1>7. CASE ModuleLinkLost
      BY <1>3, <1>7 DEF ModuleLinkLost
    <1>8. CASE HostReceive
      BY <1>3, <1>8 DEF HostReceive
    <1>9. CASE UNCHANGED vars
      BY <1>3, <1>9 DEF vars
    <1> QED
      BY <1>1, <1>2, <1>4, <1>5, <1>6, <1>7, <1>8, <1>9 DEF Next

\* Whatever the ring's size, the pace of the module and the state of the link, a
\* macro of fewer reports than the ring has slots, started on an idle buffer,
\* loses none of them to a full ring (report_buffer_enqueue).
THEOREM MacroFitsAlways == Spec => []MacroFits
    <1>1. Init => Fits
      BY SizeAssumption DEF Init, Fits, MacroFits, Waiting
    <1>2. Fits => MacroFits
      BY DEF Fits
    <1> QED
      BY <1>1, <1>2, TypeCorrect, NextFits, PTL DEF Spec

(***************************************************************************)
(* The keyboard sleeps only when every answer was read.  Two things work   *)
(* together: an unread answer is younger than AckBound, and lpm_task waits *)
(* longer than that after every send (Pace); and answers are behind no     *)
(* connection event in the input of ckbt51_task (Linkage).                 *)
(***************************************************************************)

NoAcks(s) == \A i \in DOMAIN s : s[i] \notin Ack

NoReports(tx) == \A i \in DOMAIN tx : tx[i] = Connect

FirstConnected(s) == s # <<>> /\ s[1] = "CONNECTED"

Linkage ==
    /\ \A i \in DOMAIN rx : rx[i] = "DISCONNECTED" => i = Len(rx) /\ ~linked
    /\ \A i \in DOMAIN rx : rx[i] = "CONNECTED" => /\ i = 1 /\ bt_state # "CONNECTED"
                                                  /\ NoAcks(rx) /\ NoReports(mcu.tx)
    /\ bt_state # "CONNECTED" => NoAcks(rx) /\ (linked => NoReports(mcu.tx))
    /\ ~linked /\ (bt_state = "CONNECTED" \/ FirstConnected(rx)) =>
          rx # <<>> /\ rx[Len(rx)] = "DISCONNECTED"

Pace ==
    /\ mcu.sinceReport <= mcu.now
    /\ mcu.sinceRetry + mcu.awake >= AwakeTime
    /\ bt_state = "CONNECTED" => mcu.sinceReport + mcu.awake >= AwakeTime
    /\ Outstanding => mcu.sinceReport <= AckBound

\* What an operator does to the timers: nothing, and it sends nothing; or it
\* starts both over.
Paces(b, c) ==
    \/ /\ c.tx = b.tx /\ c.now = b.now /\ c.awake = b.awake
       /\ c.sinceReport = b.sinceReport /\ c.sinceRetry = b.sinceRetry
    \/ c.sinceReport = 0 /\ c.awake = AwakeTime

LEMMA OutstandingTx ==
    ASSUME NEW tx \in Commands
    PROVE  SeqIds(tx) = {} <=> NoReports(tx)
    <1>1. \A i \in DOMAIN tx : tx[i] \in Report \union {Connect}
      BY DEF Commands
    <1>2. \A r \in Report : r.id # 0 /\ r # Connect
      BY DEF Report, Connect
    <1>3. \A i \in DOMAIN tx : tx[i].id = 0 <=> tx[i] = Connect
      BY <1>1, <1>2 DEF Connect
    <1> QED
      BY <1>3 DEF SeqIds, Ids, NoReports

LEMMA TaskPaces ==
    ASSUME NEW b \in Mcu, NEW connected \in BOOLEAN
    PROVE  /\ Paces(b, report_buffer_task(b, connected))
           /\ report_buffer_task(b, connected).now = b.now
    <1> DEFINE d == report_buffer_dequeue(b)
               d1 == [d EXCEPT !.retry = RetryCount]
               b1 == [b EXCEPT !.retry = @ - 1]
               t == report_buffer_task(b, connected)
    <1>1. ASSUME NEW c \in Mcu, c.now = b.now
          PROVE  /\ SendPending(c).sinceReport = 0 /\ SendPending(c).awake = AwakeTime
                 /\ SendPending(c).now = b.now
      BY <1>1 DEF SendPending, lpm_timer_reset, transport_send, Mcu
    <1>2. d \in Mcu /\ d1 \in Mcu /\ d1.now = b.now
      BY DequeueType, FieldFacts DEF report_buffer_dequeue, Mcu
    <1>3. Paces(b, d) /\ d.now = b.now
      BY DEF report_buffer_dequeue, Paces, Mcu
    <1>4. b.retry # 0 => b1 \in Mcu /\ b1.now = b.now
      BY RetryAssumption DEF Mcu, Retries
    <1>5. t = b \/ t = d \/ t = SendPending(d1) \/ (b.retry # 0 /\ t = SendPending(b1))
      BY DEF report_buffer_task
    <1> HIDE DEF d, d1, b1, t
    <1>6. Paces(b, t) /\ t.now = b.now
      BY <1>1, <1>2, <1>3, <1>4, <1>5 DEF Paces
    <1> QED
      BY <1>6 DEF t

LEMMA SendPaces ==
    ASSUME NEW b \in Mcu, NEW r \in Report, b.awake = AwakeTime
    PROVE  /\ Paces(b, bluetooth_send(b, r))
           /\ bluetooth_send(b, r).now = b.now
           /\ bluetooth_send(b, r).awake = AwakeTime
    <1> DEFINE e == report_buffer_enqueue(b, r)
               q == report_buffer_set_retry(e, 0)
               u == report_buffer_task(q, TRUE)
               s == report_buffer_update_timer(transport_send(b, r))
               t == bluetooth_send(b, r)
    <1>1. e \in Mcu /\ Paces(b, e) /\ e.now = b.now /\ e.awake = AwakeTime
      BY EnqueueType DEF report_buffer_enqueue, Paces, Mcu
    <1>2. q \in Mcu /\ Paces(b, q) /\ q.now = b.now /\ q.awake = AwakeTime
      <2>1. q \in Mcu
        BY <1>1, FieldFacts DEF report_buffer_set_retry, Mcu
      <2>2. /\ q.tx = e.tx /\ q.now = e.now /\ q.awake = e.awake
            /\ q.sinceReport = e.sinceReport /\ q.sinceRetry = e.sinceRetry
        BY <1>1 DEF report_buffer_set_retry, Mcu
      <2> HIDE DEF q, e
      <2> QED
        BY <1>1, <2>1, <2>2 DEF Paces
    <1>3. Paces(q, u) /\ u.now = q.now
      BY <1>2, TaskPaces
    <1>4. Paces(b, s) /\ s.now = b.now /\ s.awake = AwakeTime
      BY DEF report_buffer_update_timer, transport_send, Paces, Mcu
    <1>5. t = e \/ t = s \/ t = u
      BY DEF bluetooth_send, send_nkro, send_direct
    <1> HIDE DEF e, q, u, s, t
    <1>6. Paces(b, u) /\ u.now = b.now /\ u.awake = AwakeTime
      BY <1>2, <1>3 DEF Paces
    <1>7. Paces(b, t) /\ t.now = b.now /\ t.awake = AwakeTime
      BY <1>1, <1>4, <1>5, <1>6
    <1> QED
      BY <1>7 DEF t

\* A round that sleeps began with the low power timer run out.
LEMMA EndRoundPaces ==
    ASSUME NEW b \in Mcu, NEW connected \in BOOLEAN, EndRound(b, connected)
    PROVE  /\ Paces(b, mcu')
           /\ mcu'.now < b.now => b.awake = 0
    <1> DEFINE m == report_buffer_task(b, connected)
    <1>1. m \in Mcu /\ Paces(b, m) /\ m.now = b.now
      BY TaskType, TaskPaces
    <1>2. \/ mcu' = m
          \/ m.awake = 0 /\ \E stale \in {0, MaxTime} : mcu' = enter_power_mode(m, stale)
      BY DEF EndRound
    <1>3. CASE mcu' = m
      <2>1. b.now \in Nat
        BY TimeAssumption DEF Mcu, Times
      <2> QED
        BY <1>1, <1>3, <2>1
    <1>4. ASSUME NEW stale \in {0, MaxTime}, m.awake = 0, mcu' = enter_power_mode(m, stale)
          PROVE  Paces(b, mcu') /\ b.awake = 0
      <2>1. mcu'.sinceReport = 0 /\ mcu'.awake = AwakeTime
        BY <1>1, <1>4 DEF enter_power_mode, report_buffer_init, lpm_timer_reset, Mcu
      <2> HIDE DEF m
      <2> QED
        BY <1>1, <1>4, <2>1, TimeAssumption DEF Paces
    <1> QED
      BY <1>2, <1>3, <1>4

\* The same for an invariant: an operator that paces keeps what Pace says of
\* the timers.
LEMMA PacesPace ==
    ASSUME NEW b \in Mcu, NEW c \in Mcu, Paces(b, c), b.sinceReport <= b.now,
           b.sinceRetry + b.awake >= AwakeTime
    PROVE  /\ c.sinceReport <= c.now
           /\ c.sinceRetry + c.awake >= AwakeTime
           /\ b.sinceReport + b.awake >= AwakeTime => c.sinceReport + c.awake >= AwakeTime
           /\ \/ c.sinceReport = 0
              \/ c.tx = b.tx /\ c.sinceReport = b.sinceReport
    <1>1. /\ c.now \in Nat /\ c.sinceRetry \in Nat /\ c.sinceReport \in Nat /\ c.awake \in Nat
          /\ b.now \in Nat /\ b.sinceRetry \in Nat /\ b.sinceReport \in Nat /\ b.awake \in Nat
      BY TimeAssumption DEF Mcu, Times, Spans
    <1> QED
      BY <1>1, TimeAssumption DEF Paces

Packets == Ack \union {"CONNECTED", "DISCONNECTED"}

LEMMA TailOfRx ==
    ASSUME TypeOK, rx # <<>>, rx' = Tail(rx)
    PROVE  /\ Len(rx) \in Nat /\ Len(rx) > 0 /\ Len(rx') = Len(rx) - 1 /\ Head(rx) = rx[1]
           /\ DOMAIN rx = 1 .. Len(rx) /\ DOMAIN rx' = 1 .. Len(rx')
           /\ \A i \in DOMAIN rx' : i + 1 \in DOMAIN rx /\ rx'[i] = rx[i + 1]
           /\ rx' = <<>> <=> Len(rx) = 1
    <1>1. rx \in Seq(Packets)
      BY DEF TypeOK, Packets
    <1>2. Len(rx) \in Nat /\ Len(rx) > 0 /\ Head(rx) = rx[1] /\ DOMAIN rx = 1 .. Len(rx)
      BY <1>1
    <1>3. rx' \in Seq(Packets) /\ Len(rx') = Len(rx) - 1
      BY <1>1
    <1>4. DOMAIN rx' = 1 .. Len(rx') /\ (rx' = <<>> <=> Len(rx') = 0)
      BY <1>3
    <1>5. \A i \in 1 .. Len(rx) - 1 : rx'[i] = rx[i + 1]
      BY <1>1
    <1> QED
      BY <1>2, <1>3, <1>4, <1>5

LEMMA TailLinkage ==
    ASSUME TypeOK, Linkage, rx # <<>>, rx' = Tail(rx), linked' = linked
    PROVE  /\ \A i \in DOMAIN rx' : rx'[i] # "CONNECTED"
           /\ \A i \in DOMAIN rx' : rx'[i] = "DISCONNECTED" => i = Len(rx') /\ ~linked'
           /\ NoAcks(rx) => NoAcks(rx')
           /\ ~linked /\ bt_state = "CONNECTED" /\ Head(rx) # "DISCONNECTED" =>
                rx' # <<>> /\ rx'[Len(rx')] = "DISCONNECTED"
           /\ ~linked /\ Head(rx) = "CONNECTED" =>
                rx' # <<>> /\ rx'[Len(rx')] = "DISCONNECTED"
           /\ Head(rx) = "DISCONNECTED" => rx' = <<>> /\ ~linked
    <1>1. /\ Len(rx) \in Nat /\ Len(rx) > 0 /\ Len(rx') = Len(rx) - 1 /\ Head(rx) = rx[1]
          /\ DOMAIN rx = 1 .. Len(rx) /\ DOMAIN rx' = 1 .. Len(rx')
          /\ \A i \in DOMAIN rx' : i + 1 \in DOMAIN rx /\ rx'[i] = rx[i + 1]
          /\ rx' = <<>> <=> Len(rx) = 1
      BY TailOfRx
    <1>2. /\ \A i \in DOMAIN rx : rx[i] = "DISCONNECTED" => i = Len(rx) /\ ~linked
          /\ \A i \in DOMAIN rx : rx[i] = "CONNECTED" => i = 1
          /\ ~linked /\ (bt_state = "CONNECTED" \/ FirstConnected(rx)) => rx[Len(rx)] = "DISCONNECTED"
      BY DEF Linkage
    <1>3. \A i \in DOMAIN rx' : rx'[i] # "CONNECTED"
      BY <1>1, <1>2
    <1>4. \A i \in DOMAIN rx' : rx'[i] = "DISCONNECTED" => i = Len(rx') /\ ~linked'
      BY <1>1, <1>2
    <1>5. NoAcks(rx) => NoAcks(rx')
      BY <1>1 DEF NoAcks
    <1>6. ~linked /\ bt_state = "CONNECTED" /\ Head(rx) # "DISCONNECTED" =>
                rx' # <<>> /\ rx'[Len(rx')] = "DISCONNECTED"
      BY <1>1, <1>2
    <1>7. ~linked /\ Head(rx) = "CONNECTED" => rx' # <<>> /\ rx'[Len(rx')] = "DISCONNECTED"
      BY <1>1, <1>2 DEF FirstConnected
    <1>8. Head(rx) = "DISCONNECTED" => rx' = <<>> /\ ~linked
      BY <1>1, <1>2
    <1> QED
      BY <1>3, <1>4, <1>5, <1>6, <1>7, <1>8

\* Without a connection a round sends nothing.
LEMMA EndRoundTx ==
    ASSUME NEW b \in Mcu, EndRound(b, FALSE)
    PROVE  mcu'.tx = b.tx
    <1>1. report_buffer_task(b, FALSE) = b
      BY DEF report_buffer_task
    <1> QED
      BY <1>1 DEF EndRound, enter_power_mode, report_buffer_init, lpm_timer_reset, Mcu

LEMMA RoundLinkage ==
    ASSUME TypeOK, Linkage, Round
    PROVE  Linkage'
    <1>1. mcu \in Mcu /\ rx \in Seq(Packets) /\ linked' = linked /\ linked \in BOOLEAN
      BY DEF TypeOK, Packets, Round, RoundQuiet, RoundAck, RoundConnected, RoundDisconnected, Outside
    <1>2. CASE RoundQuiet
      <2>1. rx' = rx /\ rx = <<>> /\ bt_state' = bt_state /\ EndRound(mcu, bt_state = "CONNECTED")
        BY <1>2 DEF RoundQuiet
      <2>2. bt_state # "CONNECTED" => mcu'.tx = mcu.tx
        BY <1>1, <2>1, EndRoundTx
      <2> QED
        BY <1>1, <2>1, <2>2 DEF Linkage, NoAcks, FirstConnected
    <1>3. CASE RoundAck
      <2>1. rx # <<>> /\ Head(rx) \in Ack /\ rx' = Tail(rx) /\ bt_state' = bt_state
        BY <1>3 DEF RoundAck
      <2>2. bt_state = "CONNECTED"
        <3>1. Head(rx) = rx[1] /\ 1 \in DOMAIN rx
          BY <1>1, <2>1
        <3> QED
          BY <2>1, <3>1 DEF Linkage, NoAcks
      <2>3. Head(rx) # "DISCONNECTED"
        BY <2>1 DEF Ack
      <2> QED
        BY <1>1, <2>1, <2>2, <2>3, TailLinkage DEF Linkage
    <1>4. CASE RoundConnected
      <2>1. rx # <<>> /\ Head(rx) = "CONNECTED" /\ rx' = Tail(rx) /\ bt_state' = "CONNECTED"
        BY <1>4 DEF RoundConnected
      <2> QED
        BY <1>1, <2>1, TailLinkage DEF Linkage
    <1>5. CASE RoundDisconnected
      <2>1. rx # <<>> /\ Head(rx) = "DISCONNECTED" /\ rx' = Tail(rx) /\ bt_state' = "DISCONNECTED"
        BY <1>5 DEF RoundDisconnected
      <2>2. rx' = <<>> /\ ~linked'
        BY <1>1, <2>1, TailLinkage
      <2> QED
        BY <2>1, <2>2 DEF Linkage, NoAcks, FirstConnected
    <1> QED
      BY <1>2, <1>3, <1>4, <1>5 DEF Round

LEMMA KeyLinkage ==
    ASSUME TypeOK, Linkage, NEW kind \in Kinds, NEW down \in BOOLEAN, Key(kind, down)
    PROVE  Linkage'
    <1>1. mcu \in Mcu /\ rx' = rx /\ linked' = linked
      BY DEF TypeOK, Key
    <1>2. CASE bt_state = "CONNECTED"
      <2>1. bt_state' = "CONNECTED"
        BY <1>2 DEF Key
      <2> QED
        BY <1>1, <1>2, <2>1 DEF Linkage
    <1>3. CASE bt_state # "CONNECTED"
      <2>1. bt_state' # "CONNECTED"
        BY <1>3 DEF Key
      <2>2. mcu'.tx = mcu.tx \/ mcu'.tx = Append(mcu.tx, Connect)
        BY <1>1, <1>3 DEF Key, lpm_timer_reset, Mcu
      <2>3. NoReports(mcu.tx) => NoReports(mcu'.tx)
        <3>1. mcu.tx \in Seq(Report \union {Connect})
          BY <1>1 DEF Mcu, Commands
        <3> QED
          BY <2>2, <3>1 DEF NoReports
      <2> QED
        BY <1>1, <1>3, <2>1, <2>3 DEF Linkage
    <1> QED
      BY <1>2, <1>3

LEMMA TakeTx ==
    ASSUME TypeOK, mcu.tx # <<>>, TakeCommand
    PROVE  /\ mcu.tx \in Seq(Report \union {Connect}) /\ mcu'.tx = Tail(mcu.tx)
           /\ NoReports(mcu.tx) => NoReports(mcu'.tx) /\ Head(mcu.tx) = Connect
    <1>1. mcu.tx \in Seq(Report \union {Connect}) /\ mcu'.tx = Tail(mcu.tx)
      BY DEF TypeOK, Mcu, Commands, TakeCommand
    <1> QED
      BY <1>1 DEF NoReports

LEMMA ModuleLinkage ==
    ASSUME TypeOK, Linkage, Module
    PROVE  Linkage'
    <1>1. /\ NoReports(mcu.tx) => NoReports(mcu'.tx) /\ Head(mcu.tx) = Connect
      BY TakeTx DEF Module, ModuleAccept, ModuleRefuse, ModuleDiscard
    <1>2. ASSUME NEW a \in Ack, rx' = Append(rx, a), linked, linked' = linked,
                 bt_state' = bt_state, Head(mcu.tx) # Connect
          PROVE  Linkage'
      <2>1. bt_state = "CONNECTED" /\ ~NoReports(mcu.tx)
        BY <1>1, <1>2 DEF Linkage
      <2>2. \A i \in DOMAIN rx : rx[i] \notin {"CONNECTED", "DISCONNECTED"}
        BY <1>2, <2>1 DEF Linkage
      <2>3. \A i \in DOMAIN rx' : rx'[i] \notin {"CONNECTED", "DISCONNECTED"}
        <3>1. rx \in Seq(Packets) /\ a \in Packets /\ a \notin {"CONNECTED", "DISCONNECTED"}
          BY DEF TypeOK, Packets, Ack
        <3> QED
          BY <1>2, <2>2, <3>1
      <2> QED
        BY <1>2, <2>1, <2>3 DEF Linkage
    <1>3. CASE ModuleAccept
      <2>1. PICK a \in Ack : rx' = Append(rx, a)
        BY <1>3 DEF ModuleAccept, Ack
      <2> QED
        BY <1>2, <1>3, <2>1 DEF ModuleAccept
    <1>4. CASE ModuleRefuse
      <2>1. PICK a \in Ack : rx' = Append(rx, a)
        BY <1>4 DEF ModuleRefuse, Ack
      <2> QED
        BY <1>2, <1>4, <2>1 DEF ModuleRefuse, Outside
    <1>5. CASE ModuleDiscard
      BY <1>1, <1>5 DEF ModuleDiscard, Outside, Linkage
    <1> QED
      BY <1>3, <1>4, <1>5 DEF Module

LEMMA NextLinkage == TypeOK /\ Linkage /\ [Next]_vars => Linkage'
    <1> SUFFICES ASSUME TypeOK, Linkage, [Next]_vars
                 PROVE  Linkage'
      OBVIOUS
    <1>1. ASSUME NEW kind \in Kinds, NEW down \in BOOLEAN, Key(kind, down)
          PROVE  Linkage'
      BY <1>1, KeyLinkage
    <1>2. CASE Round
      BY <1>2, RoundLinkage
    <1>3. CASE Tick
      <2>1. mcu'.tx = mcu.tx
        BY <1>3 DEF Tick, TimerTick, TypeOK, Mcu
      <2> QED
        BY <1>3, <2>1 DEF Tick, Outside, Linkage
    <1>4. CASE Module
      BY <1>4, ModuleLinkage
    <1>5. ASSUME NEW event \in {"CONNECTED", "DISCONNECTED"}, ModuleLinkResult(event)
          PROVE  Linkage'
      <2>1. rx' = <<event>> /\ linked' = (event = "CONNECTED") /\ bt_state' = bt_state /\ rx = <<>> /\ ~linked
        BY <1>5 DEF ModuleLinkResult
      <2>2. mcu'.tx = <<>>
        <3>1. CASE mcu.tx = <<Connect>> /\ TakeCommand
          <4>1. mcu'.tx = Tail(<<Connect>>)
            BY <3>1 DEF TakeCommand, TypeOK, Mcu
          <4> QED
            BY <4>1
        <3>2. CASE mcu.tx = <<>> /\ UNCHANGED mcu
          BY <3>2
        <3> QED
          BY <1>5, <3>1, <3>2 DEF ModuleLinkResult
      <2>3. NoReports(mcu'.tx)
        BY <2>2 DEF NoReports
      <2>4. bt_state # "CONNECTED"
        BY <2>1 DEF Linkage
      <2>5. NoAcks(rx')
        BY <2>1 DEF NoAcks, Ack
      <2>6. DOMAIN rx' = {1} /\ rx'[1] = event /\ Len(rx') = 1 /\ rx' # <<>>
        BY <2>1
      <2> HIDE <2>1
      <2>7. bt_state' # "CONNECTED" /\ linked' = (event = "CONNECTED")
        BY <2>1, <2>4
      <2> QED
        BY <2>3, <2>5, <2>6, <2>7 DEF Linkage, FirstConnected
    <1>6. CASE ModuleLinkLost
      <2>1. rx' = Append(rx, "DISCONNECTED") /\ linked /\ ~linked' /\ bt_state' = bt_state /\ mcu' = mcu
        BY <1>6 DEF ModuleLinkLost
      <2>2. /\ DOMAIN rx = 1 .. Len(rx) /\ DOMAIN rx' = 1 .. Len(rx) + 1 /\ Len(rx') = Len(rx) + 1
            /\ Len(rx) \in Nat /\ rx' # <<>>
            /\ \A i \in DOMAIN rx : rx'[i] = rx[i]
            /\ rx'[Len(rx) + 1] = "DISCONNECTED"
        BY <2>1 DEF TypeOK
      <2>3. \A i \in DOMAIN rx : rx[i] # "DISCONNECTED"
        BY <2>1 DEF Linkage
      <2>4. \A i \in DOMAIN rx' : rx'[i] = "DISCONNECTED" => i = Len(rx')
        BY <2>2, <2>3
      <2>5. NoAcks(rx) => NoAcks(rx')
        BY <2>2 DEF NoAcks, Ack
      <2>6. \A i \in DOMAIN rx' : rx'[i] = "CONNECTED" => i \in DOMAIN rx /\ rx[i] = "CONNECTED"
        BY <2>2
      <2> QED
        BY <2>1, <2>2, <2>4, <2>5, <2>6 DEF Linkage
    <1>7. CASE HostReceive
      BY <1>7 DEF HostReceive, Linkage
    <1>8. CASE UNCHANGED vars
      BY <1>8 DEF vars, Linkage
    <1> QED
      BY <1>1, <1>2, <1>3, <1>4, <1>5, <1>6, <1>7, <1>8 DEF Next

LEMMA OutstandingFacts ==
    /\ TypeOK => (Outstanding <=> ~NoReports(mcu.tx) \/ ~NoAcks(rx))
    /\ TypeOK' => (Outstanding' <=> ~NoReports(mcu'.tx) \/ ~NoAcks(rx'))
    <1>1. TypeOK => (SeqIds(mcu.tx) = {} <=> NoReports(mcu.tx))
      BY OutstandingTx DEF TypeOK, Mcu
    <1>2. TypeOK' => (SeqIds(mcu'.tx) = {} <=> NoReports(mcu'.tx))
      BY OutstandingTx DEF TypeOK, Mcu
    <1> QED
      BY <1>1, <1>2 DEF Outstanding, NoAcks

LEMMA TimerTypes ==
    ASSUME NEW b \in Mcu
    PROVE  b.now \in Nat /\ b.sinceRetry \in Nat /\ b.sinceReport \in Nat /\ b.awake \in Nat
    BY TimeAssumption DEF Mcu, Times, Spans

LEMMA PaceKept ==
    ASSUME TypeOK', NEW b \in Mcu, Paces(b, mcu'),
           b.sinceReport <= b.now, b.sinceRetry + b.awake >= AwakeTime,
           bt_state' = "CONNECTED" => b.sinceReport + b.awake >= AwakeTime,
           mcu'.tx = b.tx /\ Outstanding' => b.sinceReport <= AckBound
    PROVE  Pace'
    <1>1. mcu' \in Mcu
      BY DEF TypeOK
    <1>2. /\ mcu'.sinceReport <= mcu'.now
          /\ mcu'.sinceRetry + mcu'.awake >= AwakeTime
          /\ b.sinceReport + b.awake >= AwakeTime => mcu'.sinceReport + mcu'.awake >= AwakeTime
          /\ \/ mcu'.sinceReport = 0
             \/ mcu'.tx = b.tx /\ mcu'.sinceReport = b.sinceReport
      BY <1>1, PacesPace
    <1>3. Outstanding' => mcu'.sinceReport <= AckBound
      BY <1>2, LinkAssumption
    <1> QED
      BY <1>2, <1>3 DEF Pace

LEMMA KeyPace ==
    ASSUME TypeOK, TypeOK', Linkage, Pace, NEW kind \in Kinds, NEW down \in BOOLEAN, Key(kind, down)
    PROVE  Pace'
    <1> DEFINE r == [type |-> kind, id |-> gen + 1, down |-> down]
               m == lpm_timer_reset(mcu)
    <1>1. mcu \in Mcu /\ m \in Mcu
      BY ResetType DEF TypeOK
    <1>2. r \in Report
      BY LinkAssumption DEF TypeOK, Key, Report
    <1>3. /\ m.tx = mcu.tx /\ m.now = mcu.now /\ m.awake = AwakeTime
          /\ m.sinceReport = mcu.sinceReport /\ m.sinceRetry = mcu.sinceRetry
      BY <1>1 DEF lpm_timer_reset, Mcu
    <1>4. /\ m.sinceReport <= m.now /\ m.sinceRetry + m.awake >= AwakeTime
          /\ m.sinceReport + m.awake >= AwakeTime
      BY <1>1, <1>3, TimerTypes, TimeAssumption DEF Pace
    <1>5. CASE bt_state = "CONNECTED"
      <2>1. mcu' = bluetooth_send(m, r) /\ rx' = rx
        BY <1>5 DEF Key
      <2> HIDE DEF m, r
      <2>2. Paces(m, mcu')
        BY <1>1, <1>2, <1>3, <2>1, SendPaces
      <2>3. mcu'.tx = m.tx /\ Outstanding' => m.sinceReport <= AckBound
        BY <1>3, <2>1, OutstandingFacts DEF Pace
      <2> QED
        BY <1>1, <1>4, <2>2, <2>3, PaceKept
    <1>6. CASE bt_state # "CONNECTED"
      <2>1. /\ mcu'.now = m.now /\ mcu'.awake = m.awake /\ rx' = rx
            /\ mcu'.sinceReport = m.sinceReport /\ mcu'.sinceRetry = m.sinceRetry
            /\ mcu'.tx = m.tx \/ mcu'.tx = Append(m.tx, Connect)
        BY <1>1, <1>6 DEF Key, Mcu
      <2>2. NoReports(mcu.tx) => NoReports(mcu'.tx)
        <3>1. mcu.tx \in Seq(Report \union {Connect})
          BY <1>1 DEF Mcu, Commands
        <3> QED
          BY <1>3, <2>1, <3>1 DEF NoReports
      <2>3. Outstanding' => Outstanding
        BY <2>1, <2>2, OutstandingFacts
      <2> HIDE DEF m
      <2> QED
        BY <1>3, <1>4, <2>1, <2>3 DEF Pace
    <1> QED
      BY <1>5, <1>6

LEMMA RoundPace ==
    ASSUME TypeOK, TypeOK', Linkage, Pace, Round
    PROVE  Pace'
    <1>1. mcu \in Mcu /\ (bt_state = "CONNECTED") \in BOOLEAN /\ mcu' \in Mcu
      BY DEF TypeOK
    <1>2. rx' = rx \/ (rx # <<>> /\ rx' = Tail(rx))
      BY DEF Round, RoundQuiet, RoundAck, RoundConnected, RoundDisconnected
    <1>3. NoAcks(rx) => NoAcks(rx')
      BY <1>2, TailOfRx DEF NoAcks
    <1>4. mcu'.tx = mcu.tx /\ Outstanding' => mcu.sinceReport <= AckBound
      BY <1>3, OutstandingFacts DEF Pace
    <1>5. CASE RoundQuiet
      <2>1. EndRound(mcu, bt_state = "CONNECTED") /\ bt_state' = bt_state
        BY <1>5 DEF RoundQuiet
      <2>2. Paces(mcu, mcu')
        BY <1>1, <2>1, EndRoundPaces
      <2> QED
        BY <1>1, <1>4, <2>1, <2>2, PaceKept DEF Pace
    <1>6. CASE RoundAck
      <2> DEFINE a == ack_handler(mcu, Head(rx))
      <2>1. a \in Mcu
        BY <1>1, <1>6, AckType DEF RoundAck
      <2>2. /\ a.tx = mcu.tx /\ a.now = mcu.now /\ a.awake = mcu.awake
            /\ a.sinceReport = mcu.sinceReport /\ a.sinceRetry = mcu.sinceRetry
        BY <1>1, <1>6 DEF RoundAck, ack_handler, report_buffer_set_retry, report_buffer_set_inverval, Mcu
      <2>3. EndRound(a, bt_state = "CONNECTED") /\ bt_state' = bt_state
        BY <1>6 DEF RoundAck
      <2> HIDE DEF a
      <2>4. Paces(a, mcu')
        BY <1>1, <2>1, <2>3, EndRoundPaces
      <2> QED
        BY <1>4, <2>1, <2>2, <2>3, <2>4, PaceKept DEF Pace
    <1>7. CASE RoundConnected
      <2> DEFINE Release(kind, id) == [type |-> kind, id |-> id, down |-> FALSE]
                 m0 == lpm_timer_reset(mcu)
                 n1 == IF "CONSUMER" \in held THEN gen + 1 ELSE gen
                 m1 == IF "CONSUMER" \in held THEN bluetooth_send(m0, Release("CONSUMER", n1)) ELSE m0
                 n2 == IF KbType \in held THEN n1 + 1 ELSE n1
                 m2 == IF KbType \in held THEN bluetooth_send(m1, Release(KbType, n2)) ELSE m1
      <2>1. m0 \in Mcu
        BY <1>1, ResetType
      <2>2. /\ m0.tx = mcu.tx /\ m0.now = mcu.now /\ m0.awake = AwakeTime
            /\ m0.sinceReport = mcu.sinceReport /\ m0.sinceRetry = mcu.sinceRetry
        BY <1>1 DEF lpm_timer_reset, Mcu
      <2>3. /\ n1 \in Nat /\ n2 \in Nat /\ n2 <= MaxReports /\ n1 <= n2
            /\ "CONSUMER" \in held => n1 >= 1
            /\ KbType \in held => n2 >= 1
        BY <1>7, LinkAssumption DEF RoundConnected, TypeOK
      <2>4. "CONSUMER" \in held => Release("CONSUMER", n1) \in Report
        BY <2>3, LinkAssumption DEF Report, TypeOK
      <2>5. KbType \in held => Release(KbType, n2) \in Report
        BY <2>3, LinkAssumption DEF Report, TypeOK
      <2>6. m1 = m0 \/ \E r \in Report : m1 = bluetooth_send(m0, r)
        BY <2>4
      <2>7. m2 = m1 \/ \E r \in Report : m2 = bluetooth_send(m1, r)
        BY <2>5
      <2>8. EndRound(m2, TRUE)
        BY <1>7 DEF RoundConnected
      <2> HIDE DEF m0, m1, m2
      <2>9. m1 \in Mcu /\ Paces(m0, m1) /\ m1.awake = AwakeTime
        BY <2>1, <2>2, <2>6, SendType, SendPaces DEF Paces
      <2>10. m2 \in Mcu /\ Paces(m1, m2)
        BY <2>7, <2>9, SendType, SendPaces DEF Paces
      <2>11. Paces(m2, mcu')
        BY <2>8, <2>10, EndRoundPaces
      <2>12. Paces(m0, mcu')
        BY <2>9, <2>10, <2>11 DEF Paces
      <2>13. /\ m0.sinceReport <= m0.now /\ m0.sinceRetry + m0.awake >= AwakeTime
             /\ m0.sinceReport + m0.awake >= AwakeTime
        BY <1>1, <2>2, TimerTypes, TimeAssumption DEF Pace
      <2> QED
        BY <1>4, <2>1, <2>2, <2>12, <2>13, PaceKept
    <1>8. CASE RoundDisconnected
      <2> DEFINE m == IF bt_state = "CONNECTED" THEN lpm_timer_reset(mcu) ELSE mcu
                 i == report_buffer_init(m)
      <2>1. m \in Mcu /\ i \in Mcu
        BY <1>1, ResetType, InitType
      <2>2. i.sinceReport = 0 /\ i.sinceRetry = mcu.sinceRetry /\ i.awake \in {mcu.awake, AwakeTime}
        BY <1>1 DEF report_buffer_init, lpm_timer_reset, Mcu
      <2>3. EndRound(i, FALSE) /\ bt_state' = "DISCONNECTED"
        BY <1>8 DEF RoundDisconnected
      <2> HIDE DEF m, i
      <2>4. Paces(i, mcu')
        BY <2>1, <2>3, EndRoundPaces
      <2>5. i.sinceReport <= i.now /\ i.sinceRetry + i.awake >= AwakeTime /\ i.sinceReport <= AckBound
        BY <1>1, <2>1, <2>2, TimerTypes, TimeAssumption, LinkAssumption DEF Pace
      <2> QED
        BY <2>1, <2>3, <2>4, <2>5, PaceKept
    <1> QED
      BY <1>5, <1>6, <1>7, <1>8 DEF Round

LEMMA NextPace == TypeOK /\ TypeOK' /\ Linkage /\ Pace /\ [Next]_vars => Pace'
    <1> SUFFICES ASSUME TypeOK, TypeOK', Linkage, Pace, [Next]_vars
                 PROVE  Pace'
      OBVIOUS
    <1> USE DEF Outside
    <1>1. ASSUME NEW kind \in Kinds, NEW down \in BOOLEAN, Key(kind, down)
          PROVE  Pace'
      BY <1>1, KeyPace
    <1>2. CASE Round
      BY <1>2, RoundPace
    <1>3. CASE Tick
      <2>1. /\ mcu \in Mcu /\ rx' = rx /\ bt_state' = bt_state
            /\ Outstanding => mcu.sinceReport < AckBound
        BY <1>3 DEF Tick, TypeOK
      <2>2. /\ mcu'.now = Later(mcu.now) /\ mcu'.tx = mcu.tx
            /\ mcu'.sinceReport = Later(mcu.sinceReport) /\ mcu'.sinceRetry = Later(mcu.sinceRetry)
            /\ mcu'.awake = IF mcu.awake > 0 THEN mcu.awake - 1 ELSE 0
        BY <1>3, <2>1 DEF Tick, TimerTick, Mcu
      <2>3. /\ mcu.now \in 0 .. MaxTime /\ mcu.sinceReport \in 0 .. MaxTime
            /\ mcu.sinceRetry \in 0 .. MaxTime /\ mcu.awake \in 0 .. AwakeTime
        BY <2>1 DEF Mcu, Times, Spans
      <2>4. Outstanding' => Outstanding
        BY <2>1, <2>2, OutstandingFacts
      <2> QED
        BY <2>1, <2>2, <2>3, <2>4, TimeAssumption, LinkAssumption DEF Pace, Later
    <1>4. ASSUME /\ mcu'.now = mcu.now /\ mcu'.awake = mcu.awake /\ bt_state' = bt_state
                 /\ mcu'.sinceReport = mcu.sinceReport /\ mcu'.sinceRetry = mcu.sinceRetry
                 /\ Outstanding' => Outstanding
          PROVE  Pace'
      BY <1>4 DEF Pace
    <1>5. CASE Module
      <2>1. /\ mcu'.now = mcu.now /\ mcu'.awake = mcu.awake /\ bt_state' = bt_state
            /\ mcu'.sinceReport = mcu.sinceReport /\ mcu'.sinceRetry = mcu.sinceRetry
        BY <1>5 DEF Module, ModuleAccept, ModuleRefuse, ModuleDiscard, TakeCommand, TypeOK, Mcu
      <2>2. mcu.tx # <<>> /\ TakeCommand /\ (Head(mcu.tx) # Connect \/ rx' = rx)
        BY <1>5 DEF Module, ModuleAccept, ModuleRefuse, ModuleDiscard
      <2>3. NoReports(mcu.tx) => NoReports(mcu'.tx) /\ Head(mcu.tx) = Connect
        BY <2>2, TakeTx
      <2>4. Outstanding' => Outstanding
        BY <2>2, <2>3, OutstandingFacts
      <2> QED
        BY <1>4, <2>1, <2>4
    <1>6. ASSUME NEW event \in {"CONNECTED", "DISCONNECTED"}, ModuleLinkResult(event)
          PROVE  Pace'
      <2>1. /\ mcu'.now = mcu.now /\ mcu'.awake = mcu.awake /\ bt_state' = bt_state
            /\ mcu'.sinceReport = mcu.sinceReport /\ mcu'.sinceRetry = mcu.sinceRetry
        BY <1>6 DEF ModuleLinkResult, TakeCommand, TypeOK, Mcu
      <2>2. NoReports(mcu'.tx)
        <3>1. CASE mcu.tx = <<Connect>> /\ TakeCommand
          <4>1. mcu'.tx = Tail(<<Connect>>)
            BY <3>1 DEF TakeCommand, TypeOK, Mcu
          <4> QED
            BY <4>1 DEF NoReports
        <3>2. CASE mcu.tx = <<>> /\ UNCHANGED mcu
          BY <3>2 DEF NoReports
        <3> QED
          BY <1>6, <3>1, <3>2 DEF ModuleLinkResult
      <2>3. NoAcks(rx')
        BY <1>6 DEF ModuleLinkResult, NoAcks, Ack
      <2> QED
        BY <1>4, <2>1, <2>2, <2>3, OutstandingFacts
    <1>7. CASE ModuleLinkLost
      <2>1. rx' = Append(rx, "DISCONNECTED") /\ mcu' = mcu /\ bt_state' = bt_state
        BY <1>7 DEF ModuleLinkLost
      <2>2. NoAcks(rx) => NoAcks(rx')
        BY <2>1 DEF NoAcks, Ack, TypeOK
      <2> QED
        BY <1>4, <2>1, <2>2, OutstandingFacts
    <1>8. CASE HostReceive
      BY <1>8 DEF HostReceive, Pace, Outstanding
    <1>9. CASE UNCHANGED vars
      BY <1>9 DEF vars, Pace, Outstanding
    <1> QED
      BY <1>1, <1>2, <1>3, <1>5, <1>6, <1>7, <1>8, <1>9 DEF Next

LEMMA LinkageAndPace == Spec => [](TypeOK /\ Linkage /\ Pace)
    <1>1. Init => Linkage /\ Pace
      <2> SUFFICES ASSUME Init
                   PROVE  Linkage /\ Pace
        OBVIOUS
      <2>1. mcu.tx = <<Connect>> /\ rx = <<>> /\ bt_state = "RECONNECTING" /\ ~linked
        BY DEF Init
      <2>2. mcu.sinceReport = 0 /\ mcu.sinceRetry = 0 /\ mcu.now = 0 /\ mcu.awake = AwakeTime
        BY DEF Init
      <2>3. NoReports(mcu.tx) /\ NoAcks(rx)
        BY <2>1 DEF NoReports, NoAcks
      <2>4. Linkage
        BY <2>1, <2>3 DEF Linkage, FirstConnected
      <2> QED
        BY <2>1, <2>2, <2>4, TimeAssumption, LinkAssumption DEF Pace
    <1> QED
      BY <1>1, InitTypeOK, NextTypeOK, NextLinkage, NextPace, PTL DEF Spec

\* A round that sleeps has read every answer.
LEMMA RoundSleepsAnswered ==
    ASSUME TypeOK, Linkage, Pace, Round, mcu'.now < mcu.now
    PROVE  NoAcks(rx')
    <1>1. mcu \in Mcu /\ (bt_state = "CONNECTED") \in BOOLEAN
      BY DEF TypeOK
    <1>2. ASSUME bt_state = "CONNECTED", mcu.awake = 0
          PROVE  NoAcks(rx)
      <2>1. mcu.sinceReport >= AwakeTime
        BY <1>1, <1>2, TimerTypes, TimeAssumption DEF Pace
      <2>2. ~Outstanding
        BY <1>1, <2>1, TimerTypes, TimeAssumption, LinkAssumption DEF Pace
      <2> QED
        BY <2>2, OutstandingFacts
    <1>3. bt_state # "CONNECTED" => NoAcks(rx)
      BY DEF Linkage
    <1>4. CASE RoundQuiet
      <2>1. EndRound(mcu, bt_state = "CONNECTED") /\ rx' = rx
        BY <1>4 DEF RoundQuiet
      <2>2. mcu.awake = 0
        BY <1>1, <2>1, EndRoundPaces
      <2> QED
        BY <1>2, <1>3, <2>1, <2>2
    <1>5. CASE RoundAck
      <2> DEFINE a == ack_handler(mcu, Head(rx))
      <2>1. a \in Mcu
        BY <1>1, <1>5, AckType DEF RoundAck
      <2>2. a.now = mcu.now /\ a.awake = mcu.awake
        BY <1>1, <1>5 DEF RoundAck, ack_handler, report_buffer_set_retry, report_buffer_set_inverval, Mcu
      <2>3. EndRound(a, bt_state = "CONNECTED") /\ rx # <<>> /\ rx' = Tail(rx)
        BY <1>5 DEF RoundAck
      <2> HIDE DEF a
      <2>4. a.awake = 0
        BY <1>1, <2>1, <2>2, <2>3, EndRoundPaces
      <2>5. NoAcks(rx)
        BY <1>2, <1>3, <2>2, <2>4
      <2> QED
        BY <2>3, <2>5, TailOfRx DEF NoAcks
    <1>6. CASE RoundConnected
      <2>1. rx # <<>> /\ rx' = Tail(rx) /\ Head(rx) = "CONNECTED"
        BY <1>6 DEF RoundConnected
      <2>2. NoAcks(rx)
        BY <2>1, TailOfRx DEF Linkage
      <2> QED
        BY <2>1, <2>2, TailOfRx DEF NoAcks
    <1>7. CASE RoundDisconnected
      <2>1. rx # <<>> /\ rx' = Tail(rx) /\ Head(rx) = "DISCONNECTED" /\ linked' = linked
        BY <1>7 DEF RoundDisconnected, Outside
      <2>2. rx' = <<>>
        BY <2>1, TailLinkage
      <2> QED
        BY <2>2 DEF NoAcks
    <1> QED
      BY <1>4, <1>5, <1>6, <1>7 DEF Round

\* For every set of constants (and however late, within AckBound, or full of
\* errors the module's answers are) the keyboard only sleeps with no answer
\* unread: the UART driver, which lpm_task restarts, never loses one.
THEOREM SleepsAnsweredAlways == Spec => SleepsAnswered
    <1>1. ASSUME TypeOK, TypeOK', Linkage, Pace, [Next]_vars
          PROVE  [mcu'.now < mcu.now => \A i \in DOMAIN rx' : rx'[i] \notin Ack]_vars
      <2>1. mcu \in Mcu
        BY <1>1 DEF TypeOK
      <2>2. mcu.now \in Nat
        BY <2>1, TimerTypes
      <2>3. CASE Round
        BY <1>1, <2>3, RoundSleepsAnswered DEF NoAcks
      <2>4. ASSUME mcu'.now = mcu.now
            PROVE  ~(mcu'.now < mcu.now)
        BY <2>2, <2>4
      <2>5. ASSUME NEW kind \in Kinds, NEW down \in BOOLEAN, Key(kind, down)
            PROVE  ~(mcu'.now < mcu.now)
        <3> DEFINE r == [type |-> kind, id |-> gen + 1, down |-> down]
                   m == lpm_timer_reset(mcu)
        <3>1. r \in Report
          BY <1>1, <2>5, LinkAssumption DEF TypeOK, Key, Report
        <3>2. m \in Mcu /\ m.awake = AwakeTime /\ m.now = mcu.now
          BY <2>1, ResetType DEF lpm_timer_reset, Mcu
        <3>3. bluetooth_send(m, r).now = mcu.now
          BY <3>1, <3>2, SendPaces
        <3>4. mcu' = bluetooth_send(m, r) \/ mcu'.now = mcu.now
          BY <2>1, <2>5, <3>2 DEF Key, Mcu, lpm_timer_reset
        <3> QED
          BY <2>4, <3>3, <3>4
      <2>6. CASE Tick
        <3>1. mcu'.now = Later(mcu.now)
          BY <2>1, <2>6 DEF Tick, TimerTick, Mcu
        <3> QED
          BY <2>2, <3>1 DEF Later
      <2>7. CASE Module
        BY <2>1, <2>4, <2>7
        DEF Module, ModuleAccept, ModuleRefuse, ModuleDiscard, TakeCommand, Mcu
      <2>8. ASSUME NEW event \in {"CONNECTED", "DISCONNECTED"}, ModuleLinkResult(event)
            PROVE  ~(mcu'.now < mcu.now)
        BY <2>1, <2>4, <2>8 DEF ModuleLinkResult, TakeCommand, Mcu
      <2>9. CASE ModuleLinkLost \/ HostReceive \/ UNCHANGED vars
        BY <2>4, <2>9 DEF ModuleLinkLost, HostReceive, vars
      <2> QED
        BY <1>1, <2>3, <2>5, <2>6, <2>7, <2>8, <2>9 DEF Next
    <1> QED
      BY <1>1, LinkageAndPace, PTL DEF Spec, SleepsAnswered

(***************************************************************************)
(* Nothing is lost on the NKRO path, when the module answers without       *)
(* transmission errors and before a report is sent again.  The invariant:  *)
(* while there is a link, at most one report is unanswered, it is the one  *)
(* being sent, and its retry counter does not run out before its answer is *)
(* read (Exchange); Pace makes sure that nothing is left to send when the  *)
(* keyboard sleeps.                                                        *)
(***************************************************************************)

\* The firmware has the report with serial number n: in the ring, being sent,
\* or written to the UART.
InRing(b, n) == \E i \in Occupied(b) : b.queue[i].id = n

OnWire(s, n) == \E i \in DOMAIN s : s[i].id = n

Has(b, n) == InRing(b, n) \/ (b.retry > 0 /\ b.kb_rpt.id = n) \/ OnWire(b.tx, n)

\* The report has left the firmware's hands.
Passed(n) == n \in got \/ n \in excused \/ OnWire(fifo, n)

AllHeld == \A n \in 1 .. gen : Passed(n) \/ Has(mcu, n)

LEMMA AllHeldMeans == TypeOK /\ AllHeld => NothingLost
    <1> SUFFICES ASSUME TypeOK, AllHeld, NEW n \in 1 .. gen
                 PROVE  n \in got \union excused \union Pending(mcu) \union SeqIds(fifo) \union SeqIds(mcu.tx)
      BY DEF NothingLost
    <1>1. gen \in Nat /\ n # 0
      BY LinkAssumption DEF TypeOK
    <1>2. OnWire(fifo, n) => n \in SeqIds(fifo)
      BY <1>1 DEF OnWire, SeqIds, Ids
    <1>3. OnWire(mcu.tx, n) => n \in SeqIds(mcu.tx)
      BY <1>1 DEF OnWire, SeqIds, Ids
    <1>4. InRing(mcu, n) => n \in Ids(Queued(mcu))
      BY <1>1 DEF InRing, Queued, Ids
    <1>5. mcu.kb_rpt.id = n => n \in Ids({mcu.kb_rpt})
      BY <1>1 DEF Ids
    <1> QED
      BY <1>2, <1>3, <1>4, <1>5 DEF AllHeld, Passed, Has, Pending

\* A discarded buffer holds nothing that Pending does not name.
LEMMA PendingMeans ==
    ASSUME NEW b \in Mcu, NEW n \in Nat, n # 0, Has(b, n)
    PROVE  n \in Pending(b) \/ OnWire(b.tx, n)
    <1>1. InRing(b, n) => n \in Ids(Queued(b))
      BY DEF InRing, Queued, Ids
    <1>2. b.kb_rpt.id = n => n \in Ids({b.kb_rpt})
      BY DEF Ids
    <1> QED
      BY <1>1, <1>2 DEF Has, Pending

LEMMA AppendWire ==
    ASSUME NEW s \in Commands, NEW r, NEW n
    PROVE  /\ OnWire(s, n) => OnWire(Append(s, r), n)
           /\ OnWire(Append(s, r), r.id)
    <1>1. /\ DOMAIN s = 1 .. Len(s) /\ Len(s) \in Nat
          /\ DOMAIN Append(s, r) = 1 .. Len(s) + 1
          /\ \A i \in 1 .. Len(s) : Append(s, r)[i] = s[i]
          /\ Append(s, r)[Len(s) + 1] = r
      BY DEF Commands
    <1> QED
      BY <1>1 DEF OnWire

LEMMA EnqueueHas ==
    ASSUME NEW b \in Mcu, NEW r \in Report, NEW n, NEW e, e = report_buffer_enqueue(b, r)
    PROVE  /\ Has(b, n) => Has(e, n)
           /\ ~report_buffer_is_full(b) => Has(e, r.id)
    <1>1. CASE report_buffer_is_full(b)
      <2>1. e = b
        BY <1>1 DEF report_buffer_enqueue
      <2> QED
        BY <1>1, <2>1
    <1>2. CASE ~report_buffer_is_full(b)
      <2>1. /\ Occupied(e) = Occupied(b) \union {b.head}
            /\ b.head \notin Occupied(b)
            /\ e.queue = [b.queue EXCEPT ![b.head] = r]
            /\ e.kb_rpt = b.kb_rpt /\ e.tx = b.tx /\ e.retry = b.retry
        BY <1>2, EnqueueSlots
      <2>2. b.head \in Slots /\ b.queue \in Rings /\ Occupied(b) \subseteq Slots
        BY SizeAssumption DEF Mcu, Occupied, Slots
      <2>3. e.queue[b.head] = r /\ \A i \in Occupied(b) : e.queue[i] = b.queue[i]
        BY <2>1, <2>2 DEF Rings
      <2>4. InRing(b, n) => InRing(e, n)
        BY <2>1, <2>3 DEF InRing
      <2>5. InRing(e, r.id)
        BY <2>1, <2>3 DEF InRing
      <2> QED
        BY <2>1, <2>4, <2>5 DEF Has
    <1> QED
      BY <1>1, <1>2

LEMMA SendPendingEffect ==
    ASSUME NEW b \in Mcu, NEW t, t = SendPending(b)
    PROVE  /\ t.queue = b.queue /\ t.head = b.head /\ t.tail = b.tail
           /\ t.kb_rpt = b.kb_rpt /\ t.retry = b.retry
           /\ t.sinceReport = 0 /\ t.sinceRetry = 0 /\ t.awake = AwakeTime
           /\ b.kb_rpt \in Report => t.tx = Append(b.tx, b.kb_rpt)
           /\ b.kb_rpt \notin Report => t.tx = b.tx /\ b.kb_rpt.id = 0
    <1>1. b.kb_rpt \in Report => b.kb_rpt.type \in ReportType
      BY DEF Report, ReportType, Kinds, KbType
    <1>2. b.kb_rpt \notin Report => b.kb_rpt.type \notin ReportType /\ b.kb_rpt.id = 0
      BY DEF Mcu, Entries, NoReport, ReportType
    <1> QED
      BY <1>1, <1>2 DEF SendPending, lpm_timer_reset, transport_send, Mcu

LEMMA SendPendingHas ==
    ASSUME NEW b \in Mcu, NEW n \in Nat, n # 0, NEW t, t = SendPending(b)
    PROVE  /\ Has(b, n) => Has(t, n)
           /\ b.kb_rpt.id = n => Has(t, n)
    <1>1. /\ t.queue = b.queue /\ t.head = b.head /\ t.tail = b.tail
          /\ t.kb_rpt = b.kb_rpt /\ t.retry = b.retry
          /\ b.kb_rpt \in Report => t.tx = Append(b.tx, b.kb_rpt)
          /\ b.kb_rpt \notin Report => t.tx = b.tx /\ b.kb_rpt.id = 0
      BY SendPendingEffect
    <1>2. b.tx \in Commands
      BY DEF Mcu
    <1>3. OnWire(b.tx, n) => OnWire(t.tx, n)
      BY <1>1, <1>2, AppendWire
    <1>4. b.kb_rpt.id = n => OnWire(t.tx, n)
      BY <1>1, <1>2, AppendWire
    <1>5. InRing(b, n) => InRing(t, n)
      BY <1>1 DEF InRing, Occupied
    <1> QED
      BY <1>1, <1>3, <1>4, <1>5 DEF Has

\* A round of the buffer keeps every report, because it does not take one from
\* the ring in the first milliseconds of the clock: the interval is not over.
LEMMA TaskHas ==
    ASSUME NEW b \in Mcu, NEW connected \in BOOLEAN, NEW n \in Nat, n # 0,
           b.sinceReport <= b.now, Has(b, n)
    PROVE  Has(report_buffer_task(b, connected), n)
    <1> DEFINE d == report_buffer_dequeue(b)
               d1 == [d EXCEPT !.retry = RetryCount]
               b1 == [b EXCEPT !.retry = @ - 1]
               t == report_buffer_task(b, connected)
    <1>1. report_buffer_next_inverval(b) => b.now > SettleTime
      BY TimeAssumption DEF report_buffer_next_inverval, Mcu, Intervals, Times
    <1>2. b.retry \in Nat
      BY RetryAssumption DEF Mcu, Retries
    <1>3. \/ t = b
          \/ ~report_buffer_is_empty(b) /\ b.retry = 0 /\ t = SendPending(d1)
          \/ b.retry # 0 /\ t = SendPending(b1)
      BY <1>1, <1>2 DEF report_buffer_task
    <1>4. ASSUME ~report_buffer_is_empty(b), b.retry = 0, t = SendPending(d1)
          PROVE  Has(t, n)
      <2>1. /\ b.tail \in Occupied(b)
            /\ Occupied(d) = Occupied(b) \ {b.tail}
            /\ d.kb_rpt = b.queue[b.tail] /\ d.queue = b.queue /\ d.tx = b.tx
        BY <1>4, DequeueSlots
      <2>2. d \in Mcu /\ d1 \in Mcu
        BY DequeueType, FieldFacts DEF Mcu
      <2>3. /\ d1.kb_rpt = d.kb_rpt /\ d1.queue = d.queue /\ d1.tx = d.tx
            /\ d1.head = d.head /\ d1.tail = d.tail
        BY <2>2 DEF Mcu
      <2> HIDE DEF d, d1, t
      <2>4. Occupied(d1) = Occupied(d)
        BY <2>3 DEF Occupied
      <2>5. InRing(b, n) => InRing(d1, n) \/ d1.kb_rpt.id = n
        BY <2>1, <2>3, <2>4 DEF InRing
      <2>6. Has(d1, n) \/ d1.kb_rpt.id = n
        BY <1>4, <2>1, <2>3, <2>5 DEF Has
      <2> QED
        BY <1>4, <2>2, <2>6, SendPendingHas
    <1>5. ASSUME b.retry # 0, t = SendPending(b1)
          PROVE  Has(t, n)
      <2>1. b1 \in Mcu
        BY <1>5, RetryAssumption DEF Mcu, Retries
      <2>2. /\ b1.kb_rpt = b.kb_rpt /\ b1.queue = b.queue /\ b1.tx = b.tx
            /\ b1.head = b.head /\ b1.tail = b.tail
        BY DEF Mcu
      <2> HIDE DEF b1, t
      <2>3. InRing(b, n) => InRing(b1, n)
        BY <2>2 DEF InRing, Occupied
      <2>4. Has(b1, n) \/ b1.kb_rpt.id = n
        BY <2>2, <2>3 DEF Has
      <2> QED
        BY <1>5, <2>1, <2>4, SendPendingHas
    <1> HIDE DEF t, d1, b1
    <1>6. Has(t, n)
      BY <1>3, <1>4, <1>5
    <1> QED
      BY <1>6 DEF t

LEMMA SendNkroHas ==
    ASSUME NEW b \in Mcu, NEW r \in Report, r.type = "NKRO", NEW n \in Nat, n # 0,
           b.sinceReport <= b.now
    PROVE  /\ Has(b, n) => Has(bluetooth_send(b, r), n)
           /\ ~report_buffer_is_full(b) /\ n = r.id => Has(bluetooth_send(b, r), n)
    <1> DEFINE e == report_buffer_enqueue(b, r)
               q == report_buffer_set_retry(e, 0)
               u == report_buffer_task(q, TRUE)
               t == bluetooth_send(b, r)
    <1>1. e \in Mcu /\ q \in Mcu
      BY EnqueueType, FieldFacts DEF report_buffer_set_retry, Mcu
    <1>2. /\ Has(b, n) => Has(e, n)
          /\ ~report_buffer_is_full(b) => Has(e, r.id)
      BY EnqueueHas
    <1>3. /\ e.sinceReport = b.sinceReport /\ e.now = b.now /\ e.retry = b.retry
          /\ q.kb_rpt = e.kb_rpt /\ q.queue = e.queue /\ q.tx = e.tx /\ q.retry = 0
          /\ q.head = e.head /\ q.tail = e.tail /\ q.sinceReport = e.sinceReport /\ q.now = e.now
      BY <1>1 DEF report_buffer_enqueue, report_buffer_set_retry, Mcu
    <1>4. t = e \/ (t = u /\ b.retry = 0)
      BY DEF bluetooth_send, send_nkro
    <1> HIDE DEF e, q, t
    <1>5. b.retry = 0 /\ Has(e, n) => Has(q, n)
      <2>1. InRing(e, n) => InRing(q, n)
        BY <1>3 DEF InRing, Occupied
      <2> QED
        BY <1>3, <2>1 DEF Has
    <1>6. Has(q, n) => Has(u, n)
      BY <1>1, <1>3, TaskHas
    <1> HIDE DEF u
    <1>7. /\ Has(b, n) => Has(t, n)
          /\ ~report_buffer_is_full(b) /\ n = r.id => Has(t, n)
      BY <1>2, <1>4, <1>5, <1>6
    <1> QED
      BY <1>7 DEF t

\* When the low power timer has run out, a connected round either sends or has
\* nothing to send.
LEMMA SleepsIdle ==
    ASSUME NEW b \in Mcu, b.sinceReport <= b.now, b.sinceRetry + b.awake >= AwakeTime,
           b.sinceReport + b.awake >= AwakeTime, report_buffer_task(b, TRUE).awake = 0
    PROVE  report_buffer_task(b, TRUE) = b /\ b.head = b.tail /\ b.retry = 0
    <1> DEFINE d == report_buffer_dequeue(b)
               d1 == [d EXCEPT !.retry = RetryCount]
               b1 == [b EXCEPT !.retry = @ - 1]
               t == report_buffer_task(b, TRUE)
    <1>1. d \in Mcu /\ d1 \in Mcu /\ (b.retry # 0 => b1 \in Mcu)
      BY DequeueType, FieldFacts, RetryAssumption DEF Mcu, Retries
    <1>2. t # SendPending(d1) /\ (b.retry # 0 => t # SendPending(b1))
      <2>1. \A c \in Mcu : SendPending(c).awake = AwakeTime
        BY SendPendingEffect
      <2>2. AwakeTime # 0
        BY TimeAssumption
      <2>3. t.awake = 0
        OBVIOUS
      <2> HIDE DEF d, d1, b1, t
      <2> QED
        BY <1>1, <2>1, <2>2, <2>3
    <1>3. d.awake = b.awake
      BY DEF report_buffer_dequeue, Mcu
    <1>4. t = b \/ t = d
      BY <1>2 DEF report_buffer_task
    <1>5. b.awake = 0
      BY <1>3, <1>4
    <1>6. b.sinceReport >= AwakeTime /\ b.sinceRetry >= AwakeTime
      BY <1>5, TimerTypes, TimeAssumption
    <1>7. report_buffer_next_inverval(b) /\ b.now > SettleTime /\ b.sinceRetry > RetryGap
      BY <1>6, TimerTypes, TimeAssumption DEF report_buffer_next_inverval, Mcu, Intervals
    <1>8. b.retry \in Nat
      BY RetryAssumption DEF Mcu, Retries
    <1>9. report_buffer_is_empty(b) /\ b.retry = 0
      BY <1>2, <1>7, <1>8 DEF report_buffer_task
    <1> QED
      BY <1>8, <1>9 DEF report_buffer_task, report_buffer_is_empty

\* At most one report is written to the UART, and it is the one being sent.
One(b) ==
    \A i \in DOMAIN b.tx : b.tx[i] # Connect =>
        /\ b.tx[i] = b.kb_rpt /\ b.retry > 0
        /\ \A j \in DOMAIN b.tx : b.tx[j] # Connect => j = i

\* The last try of a report is still unanswered.
Again(b) == b.retry = 1 /\ b.kb_rpt \in Report => ~NoReports(b.tx)

\* A report that may be sent again was answered.
Ready(b) == b.retry > 0 /\ b.sinceRetry > RetryGap => NoReports(b.tx)

Aligned(b) == b.retry > 0 => b.sinceRetry = b.sinceReport

Exchange ==
    /\ bt_state # "CONNECTED" => mcu.head = mcu.tail /\ mcu.retry = 0
    /\ Aligned(mcu)
    /\ \A i \in DOMAIN rx : rx[i] \in Ack =>
          /\ i = 1 /\ mcu.retry > 0 /\ NoReports(mcu.tx)
          /\ rx[i] # "FULL" => Passed(mcu.kb_rpt.id)
    /\ linked => One(mcu) /\ (rx = <<>> => Again(mcu))

LEMMA AppendReport ==
    ASSUME NEW tx \in Commands, NoReports(tx), NEW r \in Report, NEW s, s = Append(tx, r)
    PROVE  /\ ~NoReports(s)
           /\ \A i \in DOMAIN s : s[i] # Connect => /\ s[i] = r
                                                  /\ \A j \in DOMAIN s : s[j] # Connect => j = i
    <1>1. /\ DOMAIN tx = 1 .. Len(tx) /\ Len(tx) \in Nat
          /\ DOMAIN s = 1 .. Len(tx) + 1
          /\ \A i \in 1 .. Len(tx) : s[i] = tx[i]
          /\ s[Len(tx) + 1] = r
      BY DEF Commands
    <1>2. r # Connect
      BY DEF Report, Connect
    <1>3. \A i \in DOMAIN s : s[i] # Connect <=> i = Len(tx) + 1
      BY <1>1, <1>2 DEF NoReports
    <1> QED
      BY <1>1, <1>2, <1>3 DEF NoReports

\* An answered buffer whose retry counter is not at its last sends one report.
LEMMA SendPendingOne ==
    ASSUME NEW b \in Mcu, NoReports(b.tx), b.retry > 0 \/ b.kb_rpt \notin Report,
           NEW t, t = SendPending(b)
    PROVE  One(t) /\ Again(t) /\ Ready(t)
    <1>1. /\ t.kb_rpt = b.kb_rpt /\ t.retry = b.retry /\ t.sinceRetry = 0
          /\ b.kb_rpt \in Report => t.tx = Append(b.tx, b.kb_rpt)
          /\ b.kb_rpt \notin Report => t.tx = b.tx
      BY SendPendingEffect
    <1>2. b.tx \in Commands
      BY DEF Mcu
    <1>3. Ready(t)
      BY <1>1, TimeAssumption DEF Ready
    <1>4. CASE b.kb_rpt \in Report
      BY <1>1, <1>2, <1>3, <1>4, AppendReport DEF One, Again
    <1>5. CASE b.kb_rpt \notin Report
      BY <1>1, <1>3, <1>5 DEF One, Again, NoReports
    <1> QED
      BY <1>4, <1>5

LEMMA TaskOne ==
    ASSUME NEW b \in Mcu, NEW connected \in BOOLEAN, b.sinceReport <= b.now,
           One(b), Again(b), Ready(b), NEW t, t = report_buffer_task(b, connected)
    PROVE  One(t) /\ Again(t) /\ Ready(t)
    <1> DEFINE d == report_buffer_dequeue(b)
               d1 == [d EXCEPT !.retry = RetryCount]
               b1 == [b EXCEPT !.retry = @ - 1]
    <1>1. report_buffer_next_inverval(b) => b.now > SettleTime
      BY TimeAssumption DEF report_buffer_next_inverval, Mcu, Intervals, Times
    <1>2. b.retry \in Nat
      BY RetryAssumption DEF Mcu, Retries
    <1>3. \/ t = b
          \/ b.retry = 0 /\ t = SendPending(d1)
          \/ b.retry # 0 /\ b.sinceRetry > RetryGap /\ t = SendPending(b1)
      BY <1>1, <1>2 DEF report_buffer_task
    <1>4. ASSUME b.retry = 0, t = SendPending(d1)
          PROVE  One(t) /\ Again(t) /\ Ready(t)
      <2>1. d1 \in Mcu /\ d1.tx = b.tx /\ d1.retry > 0
        <3>1. d \in Mcu /\ d.tx = b.tx
          BY DequeueType DEF report_buffer_dequeue, Mcu
        <3> HIDE DEF d
        <3> QED
          BY <3>1, FieldFacts, RetryAssumption DEF Mcu
      <2>2. NoReports(b.tx)
        BY <1>4 DEF One, NoReports
      <2> HIDE DEF d1
      <2> QED
        BY <1>4, <2>1, <2>2, SendPendingOne
    <1>5. ASSUME b.retry # 0, b.sinceRetry > RetryGap, t = SendPending(b1)
          PROVE  One(t) /\ Again(t) /\ Ready(t)
      <2>1. b1 \in Mcu /\ b1.tx = b.tx /\ b1.retry = b.retry - 1 /\ b1.kb_rpt = b.kb_rpt
        BY <1>5, RetryAssumption DEF Mcu, Retries
      <2>2. NoReports(b.tx)
        BY <1>2, <1>5 DEF Ready
      <2>3. b.retry > 1 \/ b.kb_rpt \notin Report
        BY <1>2, <1>5, <2>2 DEF Again
      <2> HIDE DEF b1
      <2>4. b1.retry > 0 \/ b1.kb_rpt \notin Report
        BY <1>2, <2>1, <2>3
      <2> QED
        BY <1>5, <2>1, <2>2, <2>4, SendPendingOne
    <1> HIDE DEF d1, b1
    <1> QED
      BY <1>3, <1>4, <1>5

LEMMA TaskAligned ==
    ASSUME NEW b \in Mcu, NEW connected \in BOOLEAN, Aligned(b), b.sinceReport <= b.now,
           NEW t, t = report_buffer_task(b, connected)
    PROVE  Aligned(t)
    <1> DEFINE d == report_buffer_dequeue(b)
               d1 == [d EXCEPT !.retry = RetryCount]
               b1 == [b EXCEPT !.retry = @ - 1]
    <1>1. report_buffer_next_inverval(b) => b.now > SettleTime
      BY TimeAssumption DEF report_buffer_next_inverval, Mcu, Intervals, Times
    <1>2. t = b \/ t = SendPending(d1) \/ (b.retry # 0 /\ t = SendPending(b1))
      BY <1>1 DEF report_buffer_task
    <1>3. d \in Mcu /\ d1 \in Mcu /\ (b.retry # 0 => b1 \in Mcu)
      BY DequeueType, FieldFacts, RetryAssumption DEF Mcu, Retries
    <1>4. \A c \in Mcu : SendPending(c).sinceReport = 0 /\ SendPending(c).sinceRetry = 0
      BY SendPendingEffect
    <1> HIDE DEF d, d1, b1
    <1> QED
      BY <1>2, <1>3, <1>4 DEF Aligned

LEMMA SendNkroOne ==
    ASSUME NEW b \in Mcu, NEW r \in Report, r.type = "NKRO", b.sinceReport <= b.now,
           NEW t, t = bluetooth_send(b, r)
    PROVE  /\ Aligned(b) => Aligned(t)
           /\ One(b) /\ Again(b) /\ Ready(b) => One(t) /\ Again(t) /\ Ready(t)
           /\ One(b) => One(t)
           /\ One(b) /\ Again(b) => Again(t)
           /\ b.retry > 0 => t.retry = b.retry /\ t.kb_rpt = b.kb_rpt /\ t.tx = b.tx
    <1> DEFINE e == report_buffer_enqueue(b, r)
               q == report_buffer_set_retry(e, 0)
               u == report_buffer_task(q, TRUE)
    <1>1. e \in Mcu /\ q \in Mcu
      BY EnqueueType, FieldFacts DEF report_buffer_set_retry, Mcu
    <1>2. /\ e.sinceReport = b.sinceReport /\ e.sinceRetry = b.sinceRetry /\ e.now = b.now
          /\ e.retry = b.retry /\ e.kb_rpt = b.kb_rpt /\ e.tx = b.tx
      BY DEF report_buffer_enqueue, Mcu
    <1>3. /\ q.sinceReport = b.sinceReport /\ q.now = b.now
          /\ q.retry = 0 /\ q.kb_rpt = b.kb_rpt /\ q.tx = b.tx
      BY <1>1, <1>2 DEF report_buffer_set_retry, Mcu
    <1>4. t = e \/ (t = u /\ b.retry = 0)
      BY DEF bluetooth_send, send_nkro
    <1> HIDE DEF e, q
    <1>5. Aligned(q) /\ Again(q) /\ Ready(q)
      BY <1>3 DEF Aligned, Again, Ready
    <1>6. b.retry = 0 /\ One(b) => One(q)
      BY <1>3 DEF One
    <1>7. Aligned(u) /\ (One(q) => One(u) /\ Again(u) /\ Ready(u))
      BY <1>1, <1>3, <1>5, TaskAligned, TaskOne
    <1>8. /\ Aligned(b) => Aligned(e)
          /\ One(b) => One(e)
          /\ Again(b) => Again(e)
          /\ Ready(b) => Ready(e)
      BY <1>2 DEF Aligned, Again, Ready, One
    <1> HIDE DEF u
    <1>9. b.retry > 0 => b.retry # 0
      BY RetryAssumption DEF Mcu, Retries
    <1> QED
      BY <1>2, <1>4, <1>6, <1>7, <1>8, <1>9

\* A whole round with a connection, sleeping at its end included.
LEMMA EndRoundConnected ==
    ASSUME NEW b \in Mcu, EndRound(b, TRUE), b.sinceReport <= b.now,
           b.sinceRetry + b.awake >= AwakeTime, b.sinceReport + b.awake >= AwakeTime
    PROVE  /\ \A n \in Nat : n # 0 /\ Has(b, n) => Has(mcu', n)
           /\ Aligned(b) => Aligned(mcu')
           /\ One(b) /\ Again(b) /\ Ready(b) => One(mcu') /\ Again(mcu')
    <1> DEFINE m == report_buffer_task(b, TRUE)
    <1>1. /\ \A n \in Nat : n # 0 /\ Has(b, n) => Has(m, n)
          /\ Aligned(b) => Aligned(m)
          /\ One(b) /\ Again(b) /\ Ready(b) => One(m) /\ Again(m)
      BY TaskHas, TaskAligned, TaskOne
    <1>2. \/ mcu' = m
          \/ m.awake = 0 /\ \E stale \in {0, MaxTime} : mcu' = enter_power_mode(m, stale)
      BY DEF EndRound
    <1>3. m.awake = 0 => m = b /\ b.head = b.tail /\ b.retry = 0
      BY SleepsIdle
    <1> HIDE DEF m
    <1>4. ASSUME NEW stale \in {0, MaxTime}, m.awake = 0, mcu' = enter_power_mode(m, stale)
          PROVE  /\ \A n \in Nat : n # 0 /\ Has(b, n) => Has(mcu', n)
                 /\ Aligned(mcu')
                 /\ One(b) => One(mcu') /\ Again(mcu')
      <2>1. mcu'.retry = 0 /\ mcu'.tx = b.tx
        BY <1>3, <1>4 DEF enter_power_mode, report_buffer_init, lpm_timer_reset, Mcu
      <2>2. ~ \E i \in Occupied(b) : TRUE
        BY <1>3, <1>4, SizeAssumption DEF Occupied, Mcu, Slots
      <2>3. \A n \in Nat : Has(b, n) => OnWire(b.tx, n)
        BY <1>3, <1>4, <2>2 DEF Has, InRing
      <2>4. One(b) => NoReports(b.tx)
        BY <1>3, <1>4 DEF One, NoReports
      <2> QED
        BY <2>1, <2>3, <2>4 DEF Has, Aligned, One, Again, NoReports
    <1> QED
      BY <1>1, <1>2, <1>4

\* A whole round without one.
LEMMA EndRoundIdle ==
    ASSUME NEW b \in Mcu, EndRound(b, FALSE), b.head = b.tail, b.retry = 0
    PROVE  /\ mcu'.head = mcu'.tail /\ mcu'.retry = 0 /\ mcu'.tx = b.tx
           /\ \A n \in Nat : n # 0 /\ Has(b, n) => Has(mcu', n)
    <1>1. report_buffer_task(b, FALSE) = b
      BY DEF report_buffer_task
    <1>2. mcu'.head = mcu'.tail /\ mcu'.retry = 0 /\ mcu'.tx = b.tx
      <2>1. mcu' = b \/ \E stale \in {0, MaxTime} : mcu' = enter_power_mode(b, stale)
        BY <1>1 DEF EndRound
      <2>2. ASSUME NEW stale \in {0, MaxTime}, mcu' = enter_power_mode(b, stale)
            PROVE  mcu'.head = mcu'.tail /\ mcu'.retry = 0 /\ mcu'.tx = b.tx
        BY <2>2 DEF enter_power_mode, report_buffer_init, lpm_timer_reset, Mcu
      <2> QED
        BY <2>1, <2>2
    <1>3. ~ \E i \in Occupied(b) : TRUE
      BY SizeAssumption DEF Occupied, Mcu, Slots
    <1>4. \A n \in Nat : Has(b, n) => OnWire(b.tx, n)
      BY <1>3 DEF Has, InRing
    <1> QED
      BY <1>2, <1>4 DEF Has

LEMMA QuietExchange ==
    ASSUME AckBound <= RetryGap, TypeOK, Linkage, Pace, Exchange, AllHeld, RoundQuiet
    PROVE  Exchange' /\ AllHeld'
    <1>1. /\ mcu \in Mcu /\ rx = <<>> /\ rx' = <<>> /\ bt_state' = bt_state /\ linked' = linked
          /\ gen \in Nat /\ gen' = gen /\ got' = got /\ excused' = excused /\ fifo' = fifo
          /\ linked \in BOOLEAN
      BY LinkAssumption DEF RoundQuiet, Outside, TypeOK
    <1>2. \A n \in Nat : Passed(n) => Passed(n)'
      BY <1>1 DEF Passed
    <1>3. ASSUME \A n \in Nat : n # 0 /\ Has(mcu, n) => Has(mcu', n)
          PROVE  AllHeld'
      BY <1>1, <1>2, <1>3 DEF AllHeld
    <1>4. CASE bt_state = "CONNECTED"
      <2>1. EndRound(mcu, TRUE)
        BY <1>4 DEF RoundQuiet
      <2>2. /\ linked /\ One(mcu) /\ Again(mcu) /\ Aligned(mcu)
        BY <1>1, <1>4 DEF Linkage, Exchange
      <2>3. Ready(mcu)
        <3>1. SUFFICES ASSUME mcu.retry > 0, mcu.sinceRetry > RetryGap
                       PROVE  NoReports(mcu.tx)
          BY DEF Ready
        <3>2. ~(mcu.sinceReport <= AckBound)
          BY <1>1, <2>2, <3>1, TimerTypes, TimeAssumption, LinkAssumption DEF Aligned
        <3> QED
          BY <3>2, OutstandingFacts DEF Pace
      <2>4. /\ \A n \in Nat : n # 0 /\ Has(mcu, n) => Has(mcu', n)
            /\ Aligned(mcu') /\ One(mcu') /\ Again(mcu')
        BY <1>1, <1>4, <2>1, <2>2, <2>3, EndRoundConnected DEF Pace
      <2>5. Exchange'
        BY <1>1, <1>4, <2>4 DEF Exchange
      <2> QED
        BY <1>3, <2>4, <2>5
    <1>5. CASE bt_state # "CONNECTED"
      <2>1. EndRound(mcu, FALSE)
        BY <1>5 DEF RoundQuiet
      <2>2. mcu.head = mcu.tail /\ mcu.retry = 0 /\ (linked => NoReports(mcu.tx))
        BY <1>5 DEF Exchange, Linkage
      <2>3. /\ mcu'.head = mcu'.tail /\ mcu'.retry = 0 /\ mcu'.tx = mcu.tx
            /\ \A n \in Nat : n # 0 /\ Has(mcu, n) => Has(mcu', n)
        BY <1>1, <2>1, <2>2, EndRoundIdle
      <2>4. Aligned(mcu') /\ Again(mcu') /\ (linked => One(mcu'))
        BY <2>2, <2>3 DEF Aligned, Again, One, NoReports
      <2>5. Exchange'
        BY <1>1, <1>5, <2>3, <2>4 DEF Exchange
      <2> QED
        BY <1>3, <2>3, <2>5
    <1> QED
      BY <1>4, <1>5

LEMMA AckExchange ==
    ASSUME ~Noise, TypeOK, Linkage, Pace, Exchange, AllHeld, RoundAck
    PROVE  Exchange' /\ AllHeld'
    <1>1. /\ mcu \in Mcu /\ rx # <<>> /\ rx' = Tail(rx) /\ bt_state' = bt_state /\ linked' = linked
          /\ gen \in Nat /\ gen' = gen /\ got' = got /\ excused' = excused /\ fifo' = fifo
          /\ linked \in BOOLEAN /\ Head(rx) \in Ack
      BY LinkAssumption DEF RoundAck, Outside, TypeOK
    <1>2. /\ Head(rx) = rx[1] /\ 1 \in DOMAIN rx
          /\ \A i \in DOMAIN rx' : i \in Nat /\ i + 1 # 1 /\ i + 1 \in DOMAIN rx /\ rx'[i] = rx[i + 1]
      BY <1>1, TailOfRx
    <1>3. bt_state = "CONNECTED"
      BY <1>1, <1>2 DEF Linkage, NoAcks
    <1>4. /\ mcu.retry > 0 /\ NoReports(mcu.tx) /\ Aligned(mcu)
          /\ Head(rx) # "FULL" => Passed(mcu.kb_rpt.id)
          /\ \A i \in DOMAIN rx' : rx'[i] \notin Ack
      BY <1>1, <1>2 DEF Exchange
    <1> DEFINE a == ack_handler(mcu, Head(rx))
    <1>5. a \in Mcu
      BY <1>1, AckType
    <1>6. /\ a.tx = mcu.tx /\ a.now = mcu.now /\ a.awake = mcu.awake
          /\ a.sinceReport = mcu.sinceReport /\ a.sinceRetry = mcu.sinceRetry
          /\ a.queue = mcu.queue /\ a.head = mcu.head /\ a.tail = mcu.tail /\ a.kb_rpt = mcu.kb_rpt
          /\ Head(rx) = "FULL" => a.retry = FullRetry
          /\ Head(rx) # "FULL" => a.retry = 0
      <2>1. Head(rx) \in {"SUCCESS", "HALF", "FULL"}
        BY <1>1 DEF Ack
      <2> QED
        BY <1>1, <2>1 DEF ack_handler, report_buffer_set_retry, report_buffer_set_inverval, Mcu
    <1>7. EndRound(a, TRUE)
      BY <1>3 DEF RoundAck
    <1> HIDE DEF a
    <1>8. /\ a.sinceReport <= a.now /\ a.sinceRetry + a.awake >= AwakeTime
          /\ a.sinceReport + a.awake >= AwakeTime
      BY <1>3, <1>6 DEF Pace
    <1>9. Aligned(a) /\ One(a) /\ Again(a) /\ Ready(a)
      BY <1>4, <1>6, RetryAssumption DEF Aligned, One, Again, Ready, NoReports
    <1>10. /\ \A n \in Nat : n # 0 /\ Has(a, n) => Has(mcu', n)
           /\ Aligned(mcu') /\ One(mcu') /\ Again(mcu')
      BY <1>5, <1>7, <1>8, <1>9, EndRoundConnected
    <1>11. \A n \in Nat : Has(mcu, n) => Has(a, n) \/ Passed(n)
      <2> SUFFICES ASSUME NEW n \in Nat, Has(mcu, n)
                   PROVE  Has(a, n) \/ Passed(n)
        OBVIOUS
      <2>1. InRing(mcu, n) => InRing(a, n)
        BY <1>6 DEF InRing, Occupied
      <2>2. mcu.kb_rpt.id = n => (a.retry > 0 /\ a.kb_rpt.id = n) \/ Passed(n)
        BY <1>4, <1>6, RetryAssumption
      <2> QED
        BY <1>6, <2>1, <2>2 DEF Has
    <1>12. \A n \in Nat : Passed(n) => Passed(n)'
      BY <1>1 DEF Passed
    <1>13. AllHeld'
      BY <1>1, <1>10, <1>11, <1>12 DEF AllHeld
    <1>14. Exchange'
      BY <1>1, <1>3, <1>4, <1>10 DEF Exchange
    <1> QED
      BY <1>13, <1>14

LEMMA ConnectedExchange ==
    ASSUME Nkro, ~Consumer, TypeOK, Linkage, Pace, Exchange, AllHeld, RoundConnected
    PROVE  Exchange' /\ AllHeld'
    <1>1. /\ mcu \in Mcu /\ rx # <<>> /\ Head(rx) = "CONNECTED" /\ rx' = Tail(rx)
          /\ bt_state' = "CONNECTED" /\ linked' = linked
          /\ gen \in 0 .. MaxReports /\ got' = got /\ excused' = excused /\ fifo' = fifo
          /\ linked \in BOOLEAN
      BY DEF RoundConnected, Outside, TypeOK
    <1>2. Kinds = {"NKRO"} /\ KbType = "NKRO" /\ "CONSUMER" \notin held
      BY NkroKinds DEF TypeOK
    <1>3. /\ Head(rx) = rx[1] /\ 1 \in DOMAIN rx
          /\ \A i \in DOMAIN rx' : i + 1 \in DOMAIN rx /\ rx'[i] = rx[i + 1]
      BY <1>1, TailOfRx
    <1>4. bt_state # "CONNECTED" /\ NoAcks(rx) /\ NoReports(mcu.tx)
      BY <1>1, <1>3 DEF Linkage
    <1>5. mcu.head = mcu.tail /\ mcu.retry = 0
      BY <1>4 DEF Exchange
    <1>6. NoAcks(rx')
      BY <1>3, <1>4 DEF NoAcks
    <1> DEFINE m == lpm_timer_reset(mcu)
               r == [type |-> KbType, id |-> gen + 1, down |-> FALSE]
               c == IF KbType \in held THEN bluetooth_send(m, r) ELSE m
    <1>7. /\ EndRound(c, TRUE)
          /\ gen' = IF KbType \in held THEN gen + 1 ELSE gen
          /\ gen' <= MaxReports
      BY <1>2 DEF RoundConnected
    <1>8. m \in Mcu
      BY <1>1, ResetType
    <1>9. /\ m.tx = mcu.tx /\ m.now = mcu.now /\ m.awake = AwakeTime
          /\ m.sinceReport = mcu.sinceReport /\ m.sinceRetry = mcu.sinceRetry
          /\ m.queue = mcu.queue /\ m.head = mcu.head /\ m.tail = mcu.tail
          /\ m.kb_rpt = mcu.kb_rpt /\ m.retry = 0
      BY <1>1, <1>5 DEF lpm_timer_reset, Mcu
    <1>10. KbType \in held => r \in Report /\ r.type = "NKRO" /\ r.id = gen + 1
      BY <1>1, <1>2, <1>7, LinkAssumption DEF Report
    <1>11. KbType \notin held => c = m
      OBVIOUS
    <1>12. KbType \in held => c = bluetooth_send(m, r)
      OBVIOUS
    <1> HIDE DEF m, r, c
    <1>13. /\ m.sinceReport <= m.now /\ m.sinceRetry + m.awake >= AwakeTime
           /\ m.sinceReport + m.awake >= AwakeTime
      BY <1>1, <1>9, TimerTypes, TimeAssumption DEF Pace
    <1>14. Aligned(m) /\ One(m) /\ Again(m) /\ Ready(m)
      BY <1>4, <1>9 DEF Aligned, One, Again, Ready, NoReports
    <1>15. c \in Mcu /\ Paces(m, c)
      BY <1>8, <1>9, <1>10, <1>11, <1>12, SendType, SendPaces DEF Paces
    <1>16. /\ c.sinceReport <= c.now /\ c.sinceRetry + c.awake >= AwakeTime
           /\ c.sinceReport + c.awake >= AwakeTime
      BY <1>8, <1>13, <1>15, PacesPace
    <1>17. Aligned(c) /\ One(c) /\ Again(c) /\ Ready(c)
      BY <1>8, <1>10, <1>11, <1>12, <1>13, <1>14, SendNkroOne
    <1>18. ~report_buffer_is_full(m)
      <2>1. Waiting(m) = 0
        BY <1>5, <1>8, <1>9, SizeAssumption DEF Waiting, Mcu, Slots
      <2> QED
        BY <1>8, <2>1, WaitingBounds, SizeAssumption
    <1>19. \A n \in Nat : n # 0 /\ Has(m, n) => Has(c, n)
      BY <1>8, <1>10, <1>11, <1>12, <1>13, SendNkroHas
    <1>20. KbType \in held => Has(c, gen + 1)
      BY <1>1, <1>8, <1>10, <1>12, <1>13, <1>18, SendNkroHas
    <1>21. /\ \A n \in Nat : n # 0 /\ Has(c, n) => Has(mcu', n)
           /\ Aligned(mcu') /\ One(mcu') /\ Again(mcu')
      BY <1>7, <1>15, <1>16, <1>17, EndRoundConnected
    <1>22. \A n \in Nat : Has(mcu, n) => Has(m, n)
      BY <1>5, <1>9 DEF Has, InRing, Occupied
    <1>23. \A n \in Nat : Passed(n) => Passed(n)'
      BY <1>1 DEF Passed
    <1>24. AllHeld'
      <2> SUFFICES ASSUME NEW n \in 1 .. gen'
                   PROVE  Passed(n)' \/ Has(mcu', n)
        BY DEF AllHeld
      <2>1. n \in Nat /\ n # 0 /\ (n \in 1 .. gen \/ (KbType \in held /\ n = gen + 1))
        BY <1>1, <1>7
      <2> QED
        BY <1>19, <1>20, <1>21, <1>22, <1>23, <2>1 DEF AllHeld
    <1>25. Exchange'
      BY <1>1, <1>6, <1>21 DEF Exchange, NoAcks
    <1> QED
      BY <1>24, <1>25

LEMMA DisconnectedExchange ==
    ASSUME TypeOK, Linkage, Pace, Exchange, AllHeld, RoundDisconnected
    PROVE  Exchange' /\ AllHeld'
    <1>1. /\ mcu \in Mcu /\ rx # <<>> /\ Head(rx) = "DISCONNECTED" /\ rx' = Tail(rx)
          /\ bt_state' = "DISCONNECTED" /\ linked' = linked
          /\ gen \in Nat /\ gen' = gen /\ got' = got /\ excused' = excused \union Pending(mcu)
          /\ fifo' = fifo /\ linked \in BOOLEAN
      BY LinkAssumption DEF RoundDisconnected, Outside, TypeOK
    <1>2. rx' = <<>> /\ ~linked'
      BY <1>1, TailLinkage
    <1> DEFINE m == IF bt_state = "CONNECTED" THEN lpm_timer_reset(mcu) ELSE mcu
               i == report_buffer_init(m)
    <1>3. EndRound(i, FALSE)
      BY DEF RoundDisconnected
    <1>4. m \in Mcu /\ m.tx = mcu.tx
      BY <1>1, ResetType DEF lpm_timer_reset, Mcu
    <1>5. i \in Mcu /\ i.head = i.tail /\ i.retry = 0 /\ i.tx = mcu.tx
      BY <1>4, InitType DEF report_buffer_init, Mcu
    <1> HIDE DEF m, i
    <1>6. /\ mcu'.head = mcu'.tail /\ mcu'.retry = 0 /\ mcu'.tx = mcu.tx
      BY <1>3, <1>5, EndRoundIdle
    <1>7. \A n \in Nat : n # 0 /\ Has(mcu, n) => n \in Pending(mcu) \/ OnWire(mcu.tx, n)
      BY <1>1, PendingMeans
    <1>8. \A n \in Nat : n # 0 /\ Has(mcu, n) => Passed(n)' \/ Has(mcu', n)
      BY <1>1, <1>6, <1>7 DEF Passed, Has
    <1>9. \A n \in Nat : Passed(n) => Passed(n)'
      BY <1>1 DEF Passed
    <1>10. AllHeld'
      BY <1>1, <1>8, <1>9 DEF AllHeld
    <1>11. Exchange'
      BY <1>1, <1>2, <1>6 DEF Exchange, Aligned
    <1> QED
      BY <1>10, <1>11

LEMMA KeyExchange ==
    ASSUME Nkro, ~Consumer, TypeOK, Linkage, Pace, Exchange, AllHeld,
           NEW kind \in Kinds, NEW down \in BOOLEAN, Key(kind, down)
    PROVE  Exchange' /\ AllHeld'
    <1> DEFINE r == [type |-> kind, id |-> gen + 1, down |-> down]
               m == lpm_timer_reset(mcu)
    <1>1. /\ mcu \in Mcu /\ rx' = rx /\ linked' = linked /\ linked \in BOOLEAN
          /\ gen \in Nat /\ gen' = gen + 1 /\ gen + 1 <= MaxReports /\ got' = got /\ fifo' = fifo
      BY LinkAssumption DEF Key, TypeOK
    <1>2. kind = "NKRO"
      BY NkroKinds
    <1>3. r \in Report /\ r.type = "NKRO" /\ r.id = gen + 1
      BY <1>1, <1>2, LinkAssumption DEF Report
    <1>4. m \in Mcu
      BY <1>1, ResetType
    <1>5. /\ m.tx = mcu.tx /\ m.now = mcu.now /\ m.awake = AwakeTime
          /\ m.sinceReport = mcu.sinceReport /\ m.sinceRetry = mcu.sinceRetry
          /\ m.queue = mcu.queue /\ m.head = mcu.head /\ m.tail = mcu.tail
          /\ m.kb_rpt = mcu.kb_rpt /\ m.retry = mcu.retry
      BY <1>1 DEF lpm_timer_reset, Mcu
    <1>6. \A n \in Nat : Has(mcu, n) => Has(m, n)
      BY <1>5 DEF Has, InRing, Occupied
    <1>7. CASE bt_state = "CONNECTED"
      <2>1. /\ bt_state' = "CONNECTED" /\ mcu' = bluetooth_send(m, r)
            /\ excused' = IF Drops(m, r) THEN excused \union {gen + 1} ELSE excused
        BY <1>7 DEF Key
      <2>2. Drops(m, r) <=> report_buffer_is_full(m)
        BY <1>3 DEF Drops
      <2>3. \A n \in Nat : Passed(n) => Passed(n)'
        BY <1>1, <2>1 DEF Passed
      <2> HIDE DEF m, r
      <2>4. m.sinceReport <= m.now
        BY <1>5 DEF Pace
      <2>5. \A n \in Nat : n # 0 /\ Has(m, n) => Has(mcu', n)
        BY <1>3, <1>4, <2>1, <2>4, SendNkroHas
      <2>6. gen + 1 \in excused' \/ Has(mcu', gen + 1)
        <3>1. gen + 1 \in Nat /\ gen + 1 # 0
          BY <1>1
        <3> QED
          BY <1>3, <1>4, <2>1, <2>2, <2>4, <3>1, SendNkroHas
      <2>7. AllHeld'
        <3> SUFFICES ASSUME NEW n \in 1 .. gen'
                     PROVE  Passed(n)' \/ Has(mcu', n)
          BY DEF AllHeld
        <3>1. n \in Nat /\ n # 0 /\ (n \in 1 .. gen \/ n = gen + 1)
          BY <1>1
        <3>2. n = gen + 1 => Passed(n)' \/ Has(mcu', n)
          BY <2>6 DEF Passed
        <3> QED
          BY <1>6, <2>3, <2>5, <3>1, <3>2 DEF AllHeld
      <2>8. /\ Aligned(mcu') /\ (One(m) => One(mcu')) /\ (One(m) /\ Again(m) => Again(mcu'))
            /\ m.retry > 0 => mcu'.retry = m.retry /\ mcu'.kb_rpt = m.kb_rpt /\ mcu'.tx = m.tx
        <3>1. Aligned(m)
          BY <1>5 DEF Aligned, Exchange
        <3> QED
          BY <1>3, <1>4, <2>1, <2>4, <3>1, SendNkroOne
      <2>9. linked => One(m) /\ (rx = <<>> => Again(m))
        BY <1>5 DEF Exchange, One, Again
      <2>10. \A i \in DOMAIN rx' : rx'[i] \in Ack =>
                /\ i = 1 /\ mcu'.retry > 0 /\ NoReports(mcu'.tx)
                /\ rx'[i] # "FULL" => Passed(mcu.kb_rpt.id) /\ mcu'.kb_rpt = mcu.kb_rpt
        BY <1>1, <1>5, <2>8 DEF Exchange
      <2>11. \A i \in DOMAIN rx' : rx'[i] \in Ack /\ rx'[i] # "FULL" => Passed(mcu.kb_rpt.id)'
        BY <1>1, <2>1, <2>10 DEF Passed
      <2> QED
        BY <1>1, <2>1, <2>7, <2>8, <2>9, <2>10, <2>11 DEF Exchange
    <1>8. CASE bt_state # "CONNECTED"
      <2>1. /\ bt_state' # "CONNECTED" /\ excused' = excused \union {gen + 1}
            /\ mcu'.queue = m.queue /\ mcu'.head = m.head /\ mcu'.tail = m.tail
            /\ mcu'.kb_rpt = m.kb_rpt /\ mcu'.retry = m.retry
            /\ mcu'.tx = m.tx \/ mcu'.tx = Append(m.tx, Connect)
        BY <1>4, <1>8 DEF Key, Mcu
      <2>2. mcu.tx \in Commands
        BY <1>1 DEF Mcu
      <2>3. \A n \in Nat : OnWire(mcu.tx, n) => OnWire(mcu'.tx, n)
        BY <1>5, <2>1, <2>2, AppendWire
      <2>4. NoReports(mcu.tx) => NoReports(mcu'.tx)
        BY <1>5, <2>1, <2>2 DEF NoReports, Commands
      <2> HIDE DEF m
      <2>5. \A n \in Nat : Has(mcu, n) => Has(mcu', n)
        BY <1>5, <2>1, <2>3 DEF Has, InRing, Occupied
      <2>6. \A n \in Nat : Passed(n) => Passed(n)'
        BY <1>1, <2>1 DEF Passed
      <2>7. AllHeld'
        <3> SUFFICES ASSUME NEW n \in 1 .. gen'
                     PROVE  Passed(n)' \/ Has(mcu', n)
          BY DEF AllHeld
        <3>1. n \in Nat /\ (n \in 1 .. gen \/ n = gen + 1)
          BY <1>1
        <3>2. n = gen + 1 => Passed(n)'
          BY <2>1 DEF Passed
        <3> QED
          BY <2>5, <2>6, <3>1, <3>2 DEF AllHeld
      <2>8. mcu'.head = mcu'.tail /\ mcu'.retry = 0 /\ NoAcks(rx) /\ (linked => NoReports(mcu'.tx))
        BY <1>5, <1>8, <2>1, <2>4 DEF Exchange, Linkage
      <2>9. Exchange'
        BY <1>1, <2>1, <2>8 DEF Exchange, Aligned, One, Again, NoReports, NoAcks
      <2> QED
        BY <2>7, <2>9
    <1> QED
      BY <1>7, <1>8

\* The report the module reads next is the one being sent, and the only unanswered one.
LEMMA AnswerFacts ==
    ASSUME TypeOK, Linkage, Exchange, linked, mcu.tx # <<>>, Head(mcu.tx) # Connect
    PROVE  /\ Head(mcu.tx) = mcu.kb_rpt /\ mcu.retry > 0 /\ rx = <<>> /\ ~NoReports(mcu.tx)
           /\ \A j \in DOMAIN mcu.tx : mcu.tx[j] # Connect => j = 1
    <1>1. mcu.tx \in Commands
      BY DEF TypeOK, Mcu
    <1>2. 1 \in DOMAIN mcu.tx /\ Head(mcu.tx) = mcu.tx[1]
      BY <1>1 DEF Commands
    <1>3. One(mcu)
      BY DEF Exchange
    <1>4. /\ Head(mcu.tx) = mcu.kb_rpt /\ mcu.retry > 0 /\ ~NoReports(mcu.tx)
          /\ \A j \in DOMAIN mcu.tx : mcu.tx[j] # Connect => j = 1
      BY <1>2, <1>3 DEF One, NoReports
    <1>5. ASSUME rx # <<>>
          PROVE  FALSE
      <2>1. rx \in Seq(Packets)
        BY DEF TypeOK, Packets
      <2>2. 1 \in DOMAIN rx /\ rx[1] \in Packets
        BY <1>5, <2>1
      <2>3. rx[1] \notin Ack
        BY <1>4, <2>2 DEF Exchange
      <2>4. rx[1] # "CONNECTED" /\ rx[1] # "DISCONNECTED"
        BY <1>4, <2>2 DEF Linkage
      <2> QED
        BY <2>2, <2>3, <2>4 DEF Packets
    <1> QED
      BY <1>4, <1>5

\* The module answers the one report that is unanswered.
LEMMA AnswerExchange ==
    ASSUME ~Noise, TypeOK, Linkage, Exchange, AllHeld, ModuleAccept \/ ModuleRefuse
    PROVE  Exchange' /\ AllHeld'
    <1>1. /\ mcu \in Mcu /\ mcu.tx # <<>> /\ Head(mcu.tx) # Connect /\ linked /\ linked'
          /\ bt_state' = bt_state /\ gen \in Nat /\ gen' = gen /\ got' = got /\ excused' = excused
          /\ TakeCommand /\ fifo \in Seq(Report)
      BY LinkAssumption DEF ModuleAccept, ModuleRefuse, Outside, TypeOK
    <1>2. mcu.tx \in Commands
      BY <1>1 DEF Mcu
    <1>3. /\ mcu'.queue = mcu.queue /\ mcu'.head = mcu.head /\ mcu'.tail = mcu.tail
          /\ mcu'.kb_rpt = mcu.kb_rpt /\ mcu'.retry = mcu.retry
          /\ mcu'.sinceReport = mcu.sinceReport /\ mcu'.sinceRetry = mcu.sinceRetry
          /\ mcu'.tx = Tail(mcu.tx)
      BY <1>1 DEF TakeCommand, Mcu
    <1>4. /\ 1 \in DOMAIN mcu.tx /\ Head(mcu.tx) = mcu.tx[1]
          /\ \A i \in DOMAIN mcu'.tx : i \in Nat /\ i + 1 # 1 /\ i + 1 \in DOMAIN mcu.tx
                                       /\ mcu'.tx[i] = mcu.tx[i + 1]
          /\ \A i \in DOMAIN mcu.tx : i # 1 => i - 1 \in DOMAIN mcu'.tx /\ mcu'.tx[i - 1] = mcu.tx[i]
      BY <1>1, <1>2, <1>3 DEF Commands
    <1>5. /\ Head(mcu.tx) = mcu.kb_rpt /\ mcu.retry > 0 /\ ~NoReports(mcu.tx)
          /\ NoReports(mcu'.tx)
      BY <1>1, <1>4, AnswerFacts DEF NoReports
    <1>6. rx = <<>>
      BY <1>1, AnswerFacts
    <1>7. PICK a \in Ack : /\ rx' = Append(rx, a)
                           /\ \/ fifo' = fifo /\ a = "FULL"
                              \/ fifo' = Append(fifo, mcu.kb_rpt)
      BY <1>5 DEF ModuleAccept, ModuleRefuse, Outside, Ack
    <1>8. rx' = <<a>>
      BY <1>6, <1>7
    <1>9. DOMAIN rx' = {1} /\ rx'[1] = a /\ rx' # <<>>
      BY <1>8
    <1>10. \A n \in Nat : OnWire(fifo, n) => OnWire(fifo', n)
      <2>1. \A i \in DOMAIN fifo : i \in DOMAIN fifo' /\ fifo'[i] = fifo[i]
        BY <1>1, <1>7
      <2> QED
        BY <2>1 DEF OnWire
    <1>11. a # "FULL" => OnWire(fifo', mcu.kb_rpt.id)
      <2>1. fifo' = Append(fifo, mcu.kb_rpt) => /\ Len(fifo) + 1 \in DOMAIN fifo'
                                               /\ fifo'[Len(fifo) + 1] = mcu.kb_rpt
        BY <1>1
      <2> QED
        BY <1>7, <2>1 DEF OnWire
    <1>12. \A n \in Nat : Passed(n) => Passed(n)'
      BY <1>1, <1>10 DEF Passed
    <1>13. \A n \in Nat : Has(mcu, n) => Has(mcu', n)
      <2> SUFFICES ASSUME NEW n \in Nat, Has(mcu, n)
                   PROVE  Has(mcu', n)
        OBVIOUS
      <2>1. OnWire(mcu.tx, n) => mcu.kb_rpt.id = n \/ OnWire(mcu'.tx, n)
        BY <1>4, <1>5 DEF OnWire
      <2> QED
        BY <1>3, <1>5, <2>1 DEF Has, InRing, Occupied
    <1>14. AllHeld'
      BY <1>1, <1>12, <1>13 DEF AllHeld
    <1>15. Aligned(mcu') /\ One(mcu')
      BY <1>3, <1>5 DEF Aligned, One, NoReports, Exchange
    <1>16. bt_state' # "CONNECTED" => mcu'.head = mcu'.tail /\ mcu'.retry = 0
      BY <1>1, <1>3 DEF Exchange
    <1>17. Exchange'
      BY <1>1, <1>3, <1>5, <1>9, <1>11, <1>15, <1>16 DEF Exchange, Passed
    <1> QED
      BY <1>14, <1>17

LEMMA DiscardExchange ==
    ASSUME TypeOK, Linkage, Exchange, AllHeld, ModuleDiscard
    PROVE  Exchange' /\ AllHeld'
    <1>1. /\ mcu \in Mcu /\ mcu.tx # <<>> /\ linked' = linked /\ linked \in BOOLEAN
          /\ Head(mcu.tx) # Connect => ~linked
          /\ bt_state' = bt_state /\ gen \in Nat /\ gen' = gen /\ got' = got /\ fifo' = fifo
          /\ excused' = excused \union Ids({Head(mcu.tx)}) /\ rx' = rx /\ TakeCommand
      BY LinkAssumption DEF ModuleDiscard, Outside, TypeOK
    <1>2. mcu.tx \in Commands
      BY <1>1 DEF Mcu
    <1>3. /\ mcu'.queue = mcu.queue /\ mcu'.head = mcu.head /\ mcu'.tail = mcu.tail
          /\ mcu'.kb_rpt = mcu.kb_rpt /\ mcu'.retry = mcu.retry
          /\ mcu'.sinceReport = mcu.sinceReport /\ mcu'.sinceRetry = mcu.sinceRetry
          /\ mcu'.tx = Tail(mcu.tx)
      BY <1>1 DEF TakeCommand, Mcu
    <1>4. /\ Head(mcu.tx) = mcu.tx[1]
          /\ \A i \in DOMAIN mcu'.tx : i \in Nat /\ i + 1 \in DOMAIN mcu.tx
                                       /\ mcu'.tx[i] = mcu.tx[i + 1]
          /\ \A i \in DOMAIN mcu.tx : i # 1 => i - 1 \in DOMAIN mcu'.tx /\ mcu'.tx[i - 1] = mcu.tx[i]
      BY <1>1, <1>2, <1>3 DEF Commands
    <1>5. \A n \in Nat : n # 0 /\ Has(mcu, n) => Passed(n)' \/ Has(mcu', n)
      <2> SUFFICES ASSUME NEW n \in Nat, n # 0, Has(mcu, n)
                   PROVE  Passed(n)' \/ Has(mcu', n)
        OBVIOUS
      <2>1. OnWire(mcu.tx, n) => Head(mcu.tx).id = n \/ OnWire(mcu'.tx, n)
        BY <1>4 DEF OnWire
      <2>2. Head(mcu.tx).id = n => n \in excused'
        BY <1>1 DEF Ids
      <2> QED
        BY <1>3, <2>1, <2>2 DEF Has, InRing, Occupied, Passed
    <1>6. \A n \in Nat : Passed(n) => Passed(n)'
      BY <1>1 DEF Passed
    <1>7. AllHeld'
      BY <1>1, <1>5, <1>6 DEF AllHeld
    <1>8. NoReports(mcu.tx) => NoReports(mcu'.tx)
      BY <1>4 DEF NoReports
    <1>9. linked => One(mcu') /\ (rx = <<>> => Again(mcu'))
      <2> SUFFICES ASSUME linked
                   PROVE  One(mcu') /\ (rx = <<>> => Again(mcu'))
        OBVIOUS
      <2>1. mcu.tx[1] = Connect
        BY <1>1, <1>4
      <2>2. One(mcu) /\ (rx = <<>> => Again(mcu))
        BY DEF Exchange
      <2>3. NoReports(mcu'.tx) => NoReports(mcu.tx)
        BY <1>4, <2>1 DEF NoReports
      <2>4. One(mcu')
        <3> SUFFICES ASSUME NEW i \in DOMAIN mcu'.tx, mcu'.tx[i] # Connect
                     PROVE  /\ mcu'.tx[i] = mcu'.kb_rpt /\ mcu'.retry > 0
                            /\ \A j \in DOMAIN mcu'.tx : mcu'.tx[j] # Connect => j = i
          BY DEF One
        <3>1. i \in Nat /\ i + 1 \in DOMAIN mcu.tx /\ mcu'.tx[i] = mcu.tx[i + 1]
          BY <1>4
        <3>2. \A j \in DOMAIN mcu.tx : mcu.tx[j] # Connect => j = i + 1
          BY <2>2, <3>1 DEF One
        <3>3. \A j \in DOMAIN mcu'.tx : mcu'.tx[j] # Connect => j = i
          BY <1>4, <3>1, <3>2
        <3> QED
          BY <1>3, <2>2, <3>1, <3>3 DEF One
      <2> QED
        BY <1>3, <2>2, <2>3, <2>4 DEF Again
    <1>10. \A i \in DOMAIN rx : rx[i] \in Ack =>
              /\ i = 1 /\ mcu'.retry > 0 /\ NoReports(mcu'.tx)
              /\ rx[i] # "FULL" => Passed(mcu.kb_rpt.id)
      BY <1>3, <1>8 DEF Exchange
    <1>11. Exchange'
      BY <1>1, <1>3, <1>9, <1>10 DEF Exchange, Aligned, Passed
    <1> QED
      BY <1>7, <1>11

LEMMA LinkResultExchange ==
    ASSUME TypeOK, Linkage, Exchange, AllHeld,
           NEW event \in {"CONNECTED", "DISCONNECTED"}, ModuleLinkResult(event)
    PROVE  Exchange' /\ AllHeld'
    <1>1. /\ mcu \in Mcu /\ rx = <<>> /\ ~linked /\ rx' = <<event>>
          /\ bt_state' = bt_state /\ gen \in Nat /\ gen' = gen /\ got' = got /\ fifo' = fifo
          /\ excused' = excused /\ linked' \in BOOLEAN
      BY LinkAssumption DEF ModuleLinkResult, TypeOK
    <1>2. bt_state # "CONNECTED"
      BY <1>1 DEF Linkage
    <1>3. /\ mcu'.queue = mcu.queue /\ mcu'.head = mcu.head /\ mcu'.tail = mcu.tail
          /\ mcu'.kb_rpt = mcu.kb_rpt /\ mcu'.retry = mcu.retry
      BY <1>1 DEF ModuleLinkResult, TakeCommand, Mcu
    <1>4. NoReports(mcu'.tx)
      <2>1. CASE mcu.tx = <<Connect>> /\ TakeCommand
        <3>1. mcu'.tx = Tail(<<Connect>>)
          BY <1>1, <2>1 DEF TakeCommand, Mcu
        <3> QED
          BY <3>1 DEF NoReports
      <2>2. CASE mcu.tx = <<>> /\ UNCHANGED mcu
        BY <2>2 DEF NoReports
      <2> QED
        BY <2>1, <2>2 DEF ModuleLinkResult
    <1>5. \A n \in Nat : n # 0 => ~OnWire(mcu.tx, n)
      <2>1. mcu.tx = <<Connect>> \/ mcu.tx = <<>>
        BY DEF ModuleLinkResult
      <2>2. \A i \in DOMAIN mcu.tx : mcu.tx[i].id = 0
        BY <2>1 DEF Connect
      <2> QED
        BY <2>2 DEF OnWire
    <1>6. mcu.head = mcu.tail /\ mcu.retry = 0
      BY <1>2 DEF Exchange
    <1>7. \A n \in Nat : n # 0 /\ Has(mcu, n) => Has(mcu', n)
      BY <1>3, <1>5 DEF Has, InRing, Occupied
    <1>8. \A n \in Nat : Passed(n) => Passed(n)'
      BY <1>1 DEF Passed
    <1>9. AllHeld'
      BY <1>1, <1>7, <1>8 DEF AllHeld
    <1>10. DOMAIN rx' = {1} /\ rx'[1] \notin Ack
      BY <1>1 DEF Ack
    <1>11. Exchange'
      BY <1>3, <1>4, <1>6, <1>10 DEF Exchange, Aligned, One, Again, NoReports
    <1> QED
      BY <1>9, <1>11

LEMMA LinkLostExchange ==
    ASSUME TypeOK, Linkage, Exchange, AllHeld, ModuleLinkLost
    PROVE  Exchange' /\ AllHeld'
    <1>1. /\ mcu' = mcu /\ rx' = Append(rx, "DISCONNECTED") /\ ~linked' /\ bt_state' = bt_state
          /\ gen \in Nat /\ gen' = gen /\ got' = got /\ excused' = excused \union SeqIds(fifo)
          /\ rx \in Seq(Packets) /\ fifo \in Seq(Report)
      BY LinkAssumption DEF ModuleLinkLost, TypeOK, Packets
    <1>2. \A n \in Nat : Passed(n) => n \in got' \/ n \in excused'
      <2>1. \A i \in DOMAIN fifo : fifo[i] \in Report
        BY <1>1
      <2>2. \A i \in DOMAIN fifo : fifo[i].id # 0
        BY <2>1 DEF Report
      <2>3. \A n \in Nat : OnWire(fifo, n) => n \in SeqIds(fifo)
        BY <2>2 DEF OnWire, SeqIds, Ids
      <2> QED
        BY <1>1, <2>3 DEF Passed
    <1>3. AllHeld'
      BY <1>1, <1>2 DEF AllHeld, Passed
    <1>4. \A i \in DOMAIN rx' : rx'[i] \in Ack => i \in DOMAIN rx /\ rx'[i] = rx[i]
      <2>1. "DISCONNECTED" \notin Ack
        BY DEF Ack
      <2> QED
        BY <1>1, <2>1
    <1>5. mcu.kb_rpt.id \in Nat
      BY LinkAssumption DEF TypeOK, Mcu, Entries, Report, NoReport
    <1>6. Exchange'
      BY <1>1, <1>2, <1>4, <1>5 DEF Exchange, Passed
    <1> QED
      BY <1>3, <1>6

LEMMA ReceiveExchange ==
    ASSUME TypeOK, Exchange, AllHeld, HostReceive
    PROVE  Exchange' /\ AllHeld'
    <1>1. /\ mcu' = mcu /\ rx' = rx /\ linked' = linked /\ bt_state' = bt_state
          /\ gen \in Nat /\ gen' = gen /\ got' = got \union {Head(fifo).id} /\ excused' = excused
          /\ fifo \in Seq(Report) /\ fifo # <<>> /\ fifo' = Tail(fifo)
      BY LinkAssumption DEF HostReceive, TypeOK
    <1>2. \A i \in DOMAIN fifo : i # 1 => i - 1 \in DOMAIN fifo' /\ fifo'[i - 1] = fifo[i]
      BY <1>1
    <1>3. Head(fifo) = fifo[1]
      BY <1>1
    <1>4. \A n : Passed(n) => Passed(n)'
      BY <1>1, <1>2, <1>3 DEF Passed, OnWire
    <1>5. AllHeld'
      BY <1>1, <1>4 DEF AllHeld
    <1>6. Passed(mcu.kb_rpt.id) => Passed(mcu.kb_rpt.id)'
      BY <1>1, <1>2, <1>3 DEF Passed, OnWire
    <1>7. Exchange'
      BY <1>1, <1>6 DEF Exchange
    <1> QED
      BY <1>5, <1>7

LEMMA NextExchange ==
    ASSUME Nkro, ~Consumer, ~Noise, AckBound <= RetryGap,
           TypeOK, Linkage, Pace, Exchange, AllHeld, [Next]_vars
    PROVE  Exchange' /\ AllHeld'
    <1>1. ASSUME NEW kind \in Kinds, NEW down \in BOOLEAN, Key(kind, down)
          PROVE  Exchange' /\ AllHeld'
      BY <1>1, KeyExchange
    <1>2. CASE Round
      BY <1>2, QuietExchange, AckExchange, ConnectedExchange, DisconnectedExchange DEF Round
    <1>3. CASE Tick
      <2>1. /\ mcu \in Mcu /\ rx' = rx /\ linked' = linked /\ bt_state' = bt_state
            /\ gen' = gen /\ got' = got /\ excused' = excused /\ fifo' = fifo
        BY <1>3 DEF Tick, Outside, TypeOK
      <2>2. /\ mcu'.queue = mcu.queue /\ mcu'.head = mcu.head /\ mcu'.tail = mcu.tail
            /\ mcu'.kb_rpt = mcu.kb_rpt /\ mcu'.retry = mcu.retry /\ mcu'.tx = mcu.tx
            /\ mcu'.sinceReport = Later(mcu.sinceReport) /\ mcu'.sinceRetry = Later(mcu.sinceRetry)
        BY <1>3, <2>1 DEF Tick, TimerTick, Mcu
      <2>3. \A n : Has(mcu, n) => Has(mcu', n)
        BY <2>2 DEF Has, InRing, Occupied
      <2>4. AllHeld'
        BY <2>1, <2>3 DEF AllHeld, Passed
      <2>5. Exchange'
        BY <2>1, <2>2 DEF Exchange, Aligned, One, Again, Passed
      <2> QED
        BY <2>4, <2>5
    <1>4. CASE Module
      BY <1>4, AnswerExchange, DiscardExchange DEF Module
    <1>5. ASSUME NEW event \in {"CONNECTED", "DISCONNECTED"}, ModuleLinkResult(event)
          PROVE  Exchange' /\ AllHeld'
      BY <1>5, LinkResultExchange
    <1>6. CASE ModuleLinkLost
      BY <1>6, LinkLostExchange
    <1>7. CASE HostReceive
      BY <1>7, ReceiveExchange
    <1>8. CASE UNCHANGED vars
      BY <1>8 DEF vars, Exchange, AllHeld, Passed
    <1> QED
      BY <1>1, <1>2, <1>3, <1>4, <1>5, <1>6, <1>7, <1>8 DEF Next

\* On the NKRO path no report disappears, for every ring size, retry count, FIFO
\* size and number of reports, through full FIFOs, lost links and sleep, as long
\* as the module answers every report within RetryGap, the 7 milliseconds after
\* which report_buffer_task sends it again, and never with ACK_CHECKSUM_ERROR.
\* Neither condition can be left out (TLC shows both): a late answer to a repeated
\* report would be taken for the answer to the next one, and enough errors use up
\* the retry counter.
THEOREM NkroNothingLost ==
    ASSUME Nkro, ~Consumer, ~Noise, AckBound <= RetryGap
    PROVE  Spec => []NothingLost
    <1> DEFINE Held == Exchange /\ AllHeld
    <1>1. Init => Held
      <2> SUFFICES ASSUME Init
                   PROVE  Exchange /\ AllHeld
        OBVIOUS
      <2>1. mcu.head = mcu.tail /\ mcu.retry = 0 /\ rx = <<>> /\ ~linked /\ gen = 0
        BY DEF Init
      <2>2. AllHeld
        BY <2>1 DEF AllHeld
      <2> QED
        BY <2>1, <2>2 DEF Exchange, Aligned
    <1>2. TypeOK /\ Linkage /\ Pace /\ Held /\ [Next]_vars => Held'
      BY NextExchange
    <1>3. TypeOK /\ Held => NothingLost
      BY AllHeldMeans
    <1> QED
      BY <1>1, <1>2, <1>3, LinkageAndPace, PTL DEF Spec

(***************************************************************************)
(* No stuck key.  The invariant follows the newest report: as long as it   *)
(* did not find the ring full, the last report in the ring, or else the    *)
(* one being sent, or else the last one in the module, or else the host    *)
(* itself, says what the keyboard holds (Final).  A host without a link    *)
(* has released every key, and clear_keyboard makes the keyboard agree     *)
(* with it at the next connection.                                         *)
(***************************************************************************)

Newest(b) == IF b.head = 0 THEN QueueSize - 1 ELSE b.head - 1

\* The module and the host, with FIFO f and key state h, end up at v.
Shown(f, h, v) == IF f = <<>> THEN h = v ELSE f[Len(f)].down = v

Final(b, f, h, v) ==
    IF b.head # b.tail THEN b.queue[Newest(b)].down = v
    ELSE IF b.retry > 0 THEN b.kb_rpt.down = v
    ELSE Shown(f, h, v)

\* What is in the ring, or being sent, is a report.
Stored(b) ==
    /\ b.retry > 0 => b.kb_rpt \in Report
    /\ \A i \in Occupied(b) : b.queue[i] \in Report

Told ==
    /\ Stored(mcu)
    /\ ~linked \/ bt_state # "CONNECTED" => fifo = <<>> /\ hostDown = FALSE
    /\ linked /\ rx # <<>> /\ rx[1] \in Ack /\ rx[1] # "FULL" =>
          Shown(fifo, hostDown, mcu.kb_rpt.down)
    /\ linked /\ bt_state = "CONNECTED" /\ dropped # gen =>
          Final(mcu, fifo, hostDown, KbType \in held)

LEMMA EnqueueTold ==
    ASSUME NEW b \in Mcu, NEW r \in Report, NEW e, e = report_buffer_enqueue(b, r), Stored(b)
    PROVE  /\ Stored(e)
           /\ ~report_buffer_is_full(b) => e.head # e.tail /\ e.queue[Newest(e)].down = r.down
    <1>1. CASE report_buffer_is_full(b)
      <2>1. e = b
        BY <1>1 DEF report_buffer_enqueue
      <2> QED
        BY <1>1, <2>1
    <1>2. CASE ~report_buffer_is_full(b)
      <2>1. /\ Occupied(e) = Occupied(b) \union {b.head}
            /\ b.head \notin Occupied(b)
            /\ e.queue = [b.queue EXCEPT ![b.head] = r]
            /\ e.kb_rpt = b.kb_rpt /\ e.retry = b.retry
        BY <1>2, EnqueueSlots
      <2>2. b.head \in Slots /\ b.tail \in Slots /\ b.queue \in Rings /\ Occupied(b) \subseteq Slots
        BY SizeAssumption DEF Mcu, Occupied, Slots
      <2>3. e.queue[b.head] = r /\ \A i \in Occupied(b) : e.queue[i] = b.queue[i]
        BY <2>1, <2>2 DEF Rings
      <2>4. Stored(e)
        BY <2>1, <2>3 DEF Stored
      <2>5. e.head = Next1(b.head) /\ e.tail = b.tail /\ Next1(b.head) # b.tail
        BY <1>2 DEF report_buffer_enqueue, report_buffer_is_full, Mcu
      <2>6. Next1(b.head) = IF b.head + 1 = QueueSize THEN 0 ELSE b.head + 1
        BY <2>2, NextSlot
      <2>7. Newest(e) = b.head
        BY <2>2, <2>5, <2>6, SizeAssumption DEF Newest, Slots
      <2> QED
        BY <2>3, <2>4, <2>5, <2>7
    <1> QED
      BY <1>1, <1>2

LEMMA TaskTold ==
    ASSUME NEW b \in Mcu, NEW connected \in BOOLEAN, b.sinceReport <= b.now, Stored(b),
           NEW t, t = report_buffer_task(b, connected)
    PROVE  /\ Stored(t)
           /\ \A f, h, v : Again(b) /\ Ready(b) /\ Final(b, f, h, v) => Final(t, f, h, v)
    <1> DEFINE d == report_buffer_dequeue(b)
               d1 == [d EXCEPT !.retry = RetryCount]
               b1 == [b EXCEPT !.retry = @ - 1]
    <1>1. report_buffer_next_inverval(b) => b.now > SettleTime
      BY TimeAssumption DEF report_buffer_next_inverval, Mcu, Intervals, Times
    <1>2. b.retry \in Nat
      BY RetryAssumption DEF Mcu, Retries
    <1>3. \/ t = b
          \/ ~report_buffer_is_empty(b) /\ b.retry = 0 /\ t = SendPending(d1)
          \/ b.retry # 0 /\ b.sinceRetry > RetryGap /\ t = SendPending(b1)
      BY <1>1, <1>2 DEF report_buffer_task
    <1>4. ASSUME ~report_buffer_is_empty(b), b.retry = 0, t = SendPending(d1)
          PROVE  /\ Stored(t)
                 /\ \A f, h, v : Final(b, f, h, v) => Final(t, f, h, v)
      <2>1. /\ b.tail \in Occupied(b)
            /\ Occupied(d) = Occupied(b) \ {b.tail}
            /\ d.kb_rpt = b.queue[b.tail] /\ d.queue = b.queue
        BY <1>4, DequeueSlots
      <2>2. d \in Mcu /\ d.head = b.head /\ d.tail = Next1(b.tail)
        BY DequeueType DEF report_buffer_dequeue, Mcu
      <2> HIDE DEF d
      <2>3. /\ d1 \in Mcu /\ d1.kb_rpt = d.kb_rpt /\ d1.queue = d.queue
            /\ d1.head = d.head /\ d1.tail = d.tail /\ d1.retry = RetryCount
        BY <2>2, FieldFacts DEF Mcu
      <2> HIDE DEF d1
      <2>4. /\ t.queue = b.queue /\ t.head = b.head /\ t.tail = Next1(b.tail)
            /\ t.kb_rpt = b.queue[b.tail] /\ t.retry > 0
        BY <1>4, <2>1, <2>2, <2>3, SendPendingEffect, RetryAssumption
      <2>5. Occupied(t) = Occupied(d)
        BY <2>2, <2>4 DEF Occupied
      <2>6. Stored(t)
        BY <2>1, <2>4, <2>5 DEF Stored
      <2>7. b.head \in Slots /\ b.tail \in Slots /\ b.head # b.tail
        BY <1>4 DEF report_buffer_is_empty, Mcu
      <2>8. Next1(b.tail) = b.head => b.tail = Newest(b)
        <3>1. Next1(b.tail) = IF b.tail + 1 = QueueSize THEN 0 ELSE b.tail + 1
          BY <2>7, NextSlot
        <3> QED
          BY <2>7, <3>1, SizeAssumption DEF Newest, Slots
      <2>9. Newest(t) = Newest(b)
        BY <2>4 DEF Newest
      <2> QED
        BY <2>4, <2>6, <2>7, <2>8, <2>9 DEF Final
    <1>5. ASSUME b.retry # 0, b.sinceRetry > RetryGap, t = SendPending(b1)
          PROVE  /\ Stored(t)
                 /\ \A f, h, v : Again(b) /\ Ready(b) /\ Final(b, f, h, v) => Final(t, f, h, v)
      <2>1. /\ b1 \in Mcu /\ b1.retry = b.retry - 1 /\ b1.kb_rpt = b.kb_rpt
            /\ b1.queue = b.queue /\ b1.head = b.head /\ b1.tail = b.tail
        BY <1>5, RetryAssumption DEF Mcu, Retries
      <2> HIDE DEF b1
      <2>2. /\ t.queue = b.queue /\ t.head = b.head /\ t.tail = b.tail
            /\ t.kb_rpt = b.kb_rpt /\ t.retry = b.retry - 1
        BY <1>5, <2>1, SendPendingEffect
      <2>3. Stored(t)
        BY <1>2, <1>5, <2>2 DEF Stored, Occupied
      <2>4. Again(b) /\ Ready(b) => b.retry # 1
        BY <1>2, <1>5 DEF Again, Ready, Stored
      <2>5. Newest(t) = Newest(b)
        BY <2>2 DEF Newest
      <2> QED
        BY <1>2, <1>5, <2>2, <2>3, <2>4, <2>5 DEF Final
    <1> HIDE DEF d, d1, b1
    <1> QED
      BY <1>3, <1>4, <1>5

LEMMA SendNkroTold ==
    ASSUME NEW b \in Mcu, NEW r \in Report, r.type = "NKRO", b.sinceReport <= b.now, Stored(b),
           NEW t, t = bluetooth_send(b, r)
    PROVE  /\ Stored(t)
           /\ ~report_buffer_is_full(b) => \A f, h : Final(t, f, h, r.down)
    <1> DEFINE e == report_buffer_enqueue(b, r)
               q == report_buffer_set_retry(e, 0)
               u == report_buffer_task(q, TRUE)
    <1>1. e \in Mcu /\ q \in Mcu
      BY EnqueueType, FieldFacts DEF report_buffer_set_retry, Mcu
    <1>2. /\ Stored(e)
          /\ ~report_buffer_is_full(b) => e.head # e.tail /\ e.queue[Newest(e)].down = r.down
      BY EnqueueTold
    <1>3. /\ q.sinceReport = b.sinceReport /\ q.now = b.now /\ q.retry = 0
          /\ q.queue = e.queue /\ q.head = e.head /\ q.tail = e.tail
      BY <1>1 DEF report_buffer_enqueue, report_buffer_set_retry, Mcu
    <1>4. t = e \/ t = u
      BY DEF bluetooth_send, send_nkro
    <1> HIDE DEF e, q
    <1>5. Stored(q) /\ Again(q) /\ Ready(q)
      BY <1>2, <1>3 DEF Stored, Occupied, Again, Ready
    <1>6. Newest(q) = Newest(e)
      BY <1>3 DEF Newest
    <1>7. ~report_buffer_is_full(b) => \A f, h : Final(e, f, h, r.down) /\ Final(q, f, h, r.down)
      BY <1>2, <1>3, <1>6 DEF Final
    <1>8. Stored(u) /\ \A f, h, v : Final(q, f, h, v) => Final(u, f, h, v)
      BY <1>1, <1>3, <1>5, TaskTold
    <1> HIDE DEF u
    <1> QED
      BY <1>2, <1>4, <1>7, <1>8

LEMMA EndRoundTold ==
    ASSUME NEW b \in Mcu, EndRound(b, TRUE), b.sinceReport <= b.now, Stored(b),
           b.sinceRetry + b.awake >= AwakeTime, b.sinceReport + b.awake >= AwakeTime
    PROVE  /\ Stored(mcu')
           /\ \A f, h, v : Again(b) /\ Ready(b) /\ Final(b, f, h, v) => Final(mcu', f, h, v)
    <1> DEFINE m == report_buffer_task(b, TRUE)
    <1>1. /\ Stored(m)
          /\ \A f, h, v : Again(b) /\ Ready(b) /\ Final(b, f, h, v) => Final(m, f, h, v)
      BY TaskTold
    <1>2. \/ mcu' = m
          \/ m.awake = 0 /\ \E stale \in {0, MaxTime} : mcu' = enter_power_mode(m, stale)
      BY DEF EndRound
    <1>3. m.awake = 0 => m = b /\ b.head = b.tail /\ b.retry = 0
      BY SleepsIdle
    <1> HIDE DEF m
    <1>4. ASSUME NEW stale \in {0, MaxTime}, m.awake = 0, mcu' = enter_power_mode(m, stale)
          PROVE  /\ Stored(mcu')
                 /\ \A f, h, v : Final(b, f, h, v) => Final(mcu', f, h, v)
      <2>1. mcu'.retry = 0 /\ mcu'.head = 0 /\ mcu'.tail = 0
        BY <1>3, <1>4 DEF enter_power_mode, report_buffer_init, lpm_timer_reset, Mcu
      <2>2. ~ \E i \in Occupied(mcu') : TRUE
        BY <2>1 DEF Occupied
      <2> QED
        BY <1>3, <1>4, <2>1, <2>2 DEF Stored, Final
    <1> QED
      BY <1>1, <1>2, <1>4

LEMMA EndRoundIdleStored ==
    ASSUME NEW b \in Mcu, EndRound(b, FALSE), b.head = b.tail, b.retry = 0
    PROVE  Stored(mcu')
    <1>1. mcu' \in Mcu
      BY EndRoundType
    <1>2. mcu'.head = mcu'.tail /\ mcu'.retry = 0
      BY EndRoundIdle
    <1>3. ~ \E i \in Occupied(mcu') : TRUE
      BY <1>1, <1>2, SizeAssumption DEF Occupied, Mcu, Slots
    <1> QED
      BY <1>2, <1>3 DEF Stored

LEMMA QuietTold ==
    ASSUME AckBound <= RetryGap, TypeOK, Linkage, Pace, Exchange, Told, RoundQuiet
    PROVE  Told'
    <1> DEFINE v == KbType \in held
    <1>1. /\ mcu \in Mcu /\ rx = <<>> /\ rx' = <<>> /\ bt_state' = bt_state /\ linked' = linked
          /\ gen' = gen /\ dropped' = dropped /\ held' = held /\ fifo' = fifo /\ hostDown' = hostDown
          /\ linked \in BOOLEAN /\ Stored(mcu)
      BY DEF RoundQuiet, Outside, TypeOK, Told
    <1>2. CASE bt_state = "CONNECTED"
      <2>1. EndRound(mcu, TRUE)
        BY <1>2 DEF RoundQuiet
      <2>2. linked /\ Again(mcu) /\ Aligned(mcu)
        BY <1>1, <1>2 DEF Linkage, Exchange
      <2>3. Ready(mcu)
        <3>1. SUFFICES ASSUME mcu.retry > 0, mcu.sinceRetry > RetryGap
                       PROVE  NoReports(mcu.tx)
          BY DEF Ready
        <3>2. ~(mcu.sinceReport <= AckBound)
          BY <1>1, <2>2, <3>1, TimerTypes, TimeAssumption, LinkAssumption DEF Aligned
        <3> QED
          BY <3>2, OutstandingFacts DEF Pace
      <2>4. /\ Stored(mcu')
            /\ \A f, h, w : Again(mcu) /\ Ready(mcu) /\ Final(mcu, f, h, w) => Final(mcu', f, h, w)
        BY <1>1, <1>2, <2>1, EndRoundTold DEF Pace
      <2>5. dropped # gen => Final(mcu, fifo, hostDown, v)
        BY <1>2, <2>2 DEF Told
      <2> HIDE DEF v
      <2>6. dropped # gen => Final(mcu', fifo, hostDown, v)
        BY <2>2, <2>3, <2>4, <2>5
      <2>7. v' = v
        BY <1>1 DEF v
      <2>8. dropped' # gen' => Final(mcu', fifo', hostDown', v')
        BY <1>1, <2>6, <2>7
      <2> QED
        BY <1>1, <1>2, <2>2, <2>4, <2>8 DEF Told, v
    <1>3. CASE bt_state # "CONNECTED"
      <2>1. EndRound(mcu, FALSE)
        BY <1>3 DEF RoundQuiet
      <2>2. mcu.head = mcu.tail /\ mcu.retry = 0
        BY <1>3 DEF Exchange
      <2>3. Stored(mcu')
        BY <1>1, <2>1, <2>2, EndRoundIdleStored
      <2> QED
        BY <1>1, <1>3, <2>3 DEF Told
    <1> QED
      BY <1>2, <1>3

LEMMA AckTold ==
    ASSUME ~Noise, TypeOK, Linkage, Pace, Exchange, Told, RoundAck
    PROVE  Told'
    <1> DEFINE v == KbType \in held
    <1>1. /\ mcu \in Mcu /\ rx # <<>> /\ rx' = Tail(rx) /\ bt_state' = bt_state /\ linked' = linked
          /\ gen' = gen /\ dropped' = dropped /\ held' = held /\ fifo' = fifo /\ hostDown' = hostDown
          /\ linked \in BOOLEAN /\ Head(rx) \in Ack /\ Stored(mcu)
      BY DEF RoundAck, Outside, TypeOK, Told
    <1>2. /\ Head(rx) = rx[1] /\ 1 \in DOMAIN rx
          /\ \A i \in DOMAIN rx' : i \in Nat /\ i + 1 # 1 /\ i + 1 \in DOMAIN rx /\ rx'[i] = rx[i + 1]
          /\ rx' # <<>> => 1 \in DOMAIN rx'
      BY <1>1, TailOfRx
    <1>3. bt_state = "CONNECTED"
      BY <1>1, <1>2 DEF Linkage, NoAcks
    <1>4. /\ mcu.retry > 0 /\ NoReports(mcu.tx)
          /\ \A i \in DOMAIN rx' : rx'[i] \notin Ack
      BY <1>1, <1>2 DEF Exchange
    <1> DEFINE a == ack_handler(mcu, Head(rx))
    <1>5. a \in Mcu
      BY <1>1, AckType
    <1>6. /\ a.tx = mcu.tx /\ a.now = mcu.now /\ a.awake = mcu.awake
          /\ a.sinceReport = mcu.sinceReport /\ a.sinceRetry = mcu.sinceRetry
          /\ a.queue = mcu.queue /\ a.head = mcu.head /\ a.tail = mcu.tail /\ a.kb_rpt = mcu.kb_rpt
          /\ Head(rx) = "FULL" => a.retry = FullRetry
          /\ Head(rx) # "FULL" => a.retry = 0
      <2>1. Head(rx) \in {"SUCCESS", "HALF", "FULL"}
        BY <1>1 DEF Ack
      <2> QED
        BY <1>1, <2>1 DEF ack_handler, report_buffer_set_retry, report_buffer_set_inverval, Mcu
    <1>7. EndRound(a, TRUE)
      BY <1>3 DEF RoundAck
    <1> HIDE DEF a
    <1>8. /\ a.sinceReport <= a.now /\ a.sinceRetry + a.awake >= AwakeTime
          /\ a.sinceReport + a.awake >= AwakeTime
      BY <1>3, <1>6 DEF Pace
    <1>9. Again(a) /\ Ready(a) /\ Stored(a)
      BY <1>1, <1>4, <1>6, RetryAssumption DEF Again, Ready, Stored, Occupied
    <1>10. Stored(mcu') /\ \A f, h, w : Final(a, f, h, w) => Final(mcu', f, h, w)
      BY <1>5, <1>7, <1>8, <1>9, EndRoundTold
    <1>11. linked /\ Head(rx) # "FULL" => Shown(fifo, hostDown, mcu.kb_rpt.down)
      BY <1>1, <1>2 DEF Told
    <1>12. linked /\ dropped # gen => Final(mcu, fifo, hostDown, v)
      BY <1>3 DEF Told
    <1> HIDE DEF v
    <1>13. linked /\ dropped # gen => Final(a, fifo, hostDown, v)
      <2> SUFFICES ASSUME linked, dropped # gen
                   PROVE  Final(a, fifo, hostDown, v)
        OBVIOUS
      <2>1. Newest(a) = Newest(mcu)
        BY <1>6 DEF Newest
      <2>2. CASE mcu.head # mcu.tail
        BY <1>6, <1>12, <2>1, <2>2 DEF Final
      <2>3. CASE mcu.head = mcu.tail
        <3>1. mcu.kb_rpt.down = v
          BY <1>4, <1>12, <2>3 DEF Final
        <3>2. Head(rx) # "FULL" => Shown(fifo, hostDown, v)
          BY <1>11, <3>1
        <3> QED
          BY <1>6, <2>3, <3>1, <3>2, RetryAssumption DEF Final
      <2> QED
        BY <2>2, <2>3
    <1>14. v' = v
      BY <1>1 DEF v
    <1>15. linked' /\ dropped' # gen' => Final(mcu', fifo', hostDown', v')
      BY <1>1, <1>10, <1>13, <1>14
    <1>16. ~linked' \/ bt_state' # "CONNECTED" => fifo' = <<>> /\ hostDown' = FALSE
      BY <1>1 DEF Told
    <1> QED
      BY <1>2, <1>4, <1>10, <1>15, <1>16 DEF Told, v

LEMMA ConnectedTold ==
    ASSUME Nkro, ~Consumer, TypeOK, Linkage, Pace, Exchange, Told, RoundConnected
    PROVE  Told'
    <1>1. /\ mcu \in Mcu /\ rx # <<>> /\ Head(rx) = "CONNECTED" /\ rx' = Tail(rx)
          /\ bt_state' = "CONNECTED" /\ linked' = linked /\ held' = {}
          /\ gen \in 0 .. MaxReports /\ fifo' = fifo /\ hostDown' = hostDown
          /\ linked \in BOOLEAN /\ Stored(mcu)
      BY DEF RoundConnected, Outside, TypeOK, Told
    <1>2. Kinds = {"NKRO"} /\ KbType = "NKRO" /\ "CONSUMER" \notin held
      BY NkroKinds DEF TypeOK
    <1>3. /\ Head(rx) = rx[1] /\ 1 \in DOMAIN rx
          /\ \A i \in DOMAIN rx' : i + 1 \in DOMAIN rx /\ rx'[i] = rx[i + 1]
          /\ rx' # <<>> => 1 \in DOMAIN rx'
      BY <1>1, TailOfRx
    <1>4. bt_state # "CONNECTED" /\ NoAcks(rx) /\ NoReports(mcu.tx)
      BY <1>1, <1>3 DEF Linkage
    <1>5. mcu.head = mcu.tail /\ mcu.retry = 0 /\ fifo = <<>> /\ hostDown = FALSE
      BY <1>4 DEF Exchange, Told
    <1>6. rx' # <<>> => rx'[1] \notin Ack
      BY <1>3, <1>4 DEF NoAcks
    <1> DEFINE m == lpm_timer_reset(mcu)
               r == [type |-> KbType, id |-> gen + 1, down |-> FALSE]
               c == IF KbType \in held THEN bluetooth_send(m, r) ELSE m
    <1>7. /\ EndRound(c, TRUE)
          /\ gen' = IF KbType \in held THEN gen + 1 ELSE gen
          /\ gen' <= MaxReports
      BY <1>2 DEF RoundConnected
    <1>8. m \in Mcu
      BY <1>1, ResetType
    <1>9. /\ m.tx = mcu.tx /\ m.now = mcu.now /\ m.awake = AwakeTime
          /\ m.sinceReport = mcu.sinceReport /\ m.sinceRetry = mcu.sinceRetry
          /\ m.queue = mcu.queue /\ m.head = m.tail /\ m.head = mcu.head /\ m.tail = mcu.tail
          /\ m.kb_rpt = mcu.kb_rpt /\ m.retry = 0
      BY <1>1, <1>5 DEF lpm_timer_reset, Mcu
    <1>10. KbType \in held => r \in Report /\ r.type = "NKRO"
      BY <1>1, <1>2, <1>7, LinkAssumption DEF Report
    <1>11. KbType \notin held => c = m
      OBVIOUS
    <1>12. KbType \in held => c = bluetooth_send(m, r)
      OBVIOUS
    <1> DEFINE v == r.down
    <1>13. v = FALSE /\ hostDown = v /\ (KbType \in held') = v
      <2>1. v = FALSE
        OBVIOUS
      <2>2. hostDown = FALSE
        BY <1>5
      <2>3. (KbType \in held') = FALSE
        BY <1>1, SMT
      <2> HIDE DEF v
      <2> QED
        BY <2>1, <2>2, <2>3, Zenon
    <1> HIDE DEF m, r, c, v
    <1>14. /\ m.sinceReport <= m.now /\ m.sinceRetry + m.awake >= AwakeTime
           /\ m.sinceReport + m.awake >= AwakeTime
      BY <1>1, <1>9, TimerTypes, TimeAssumption DEF Pace
    <1>15. Aligned(m) /\ One(m) /\ Again(m) /\ Ready(m) /\ Stored(m)
      <2>1. Aligned(m) /\ One(m) /\ Again(m) /\ Ready(m)
        BY <1>4, <1>9 DEF Aligned, One, Again, Ready, NoReports
      <2>2. Occupied(m) = Occupied(mcu)
        BY <1>9 DEF Occupied
      <2>3. Stored(m)
        BY <1>1, <1>9, <2>2 DEF Stored
      <2> QED
        BY <2>1, <2>3
    <1>16. c \in Mcu /\ Paces(m, c)
      BY <1>8, <1>9, <1>10, <1>11, <1>12, SendType, SendPaces DEF Paces
    <1>17. /\ c.sinceReport <= c.now /\ c.sinceRetry + c.awake >= AwakeTime
           /\ c.sinceReport + c.awake >= AwakeTime
      BY <1>8, <1>14, <1>16, PacesPace
    <1>18. Again(c) /\ Ready(c)
      BY <1>8, <1>10, <1>11, <1>12, <1>14, <1>15, SendNkroOne
    <1>19. ~report_buffer_is_full(m)
      <2>1. Waiting(m) = 0
        BY <1>8, <1>9, SizeAssumption DEF Waiting, Mcu, Slots
      <2> QED
        BY <1>8, <2>1, WaitingBounds, SizeAssumption
    <1>20. Final(m, fifo, hostDown, v)
      BY <1>5, <1>9, <1>13 DEF Final, Shown
    <1>21. Stored(c) /\ Final(c, fifo, hostDown, v)
      <2>1. KbType \in held => Stored(c) /\ \A f, h : Final(c, f, h, r.down)
        BY <1>8, <1>10, <1>12, <1>14, <1>15, <1>19, SendNkroTold
      <2> QED
        BY <1>11, <1>15, <1>20, <2>1 DEF v
    <1>22. Stored(mcu') /\ Final(mcu', fifo, hostDown, v)
      BY <1>7, <1>16, <1>17, <1>18, <1>21, EndRoundTold
    <1>23. Final(mcu', fifo', hostDown', KbType \in held')
      BY <1>1, <1>13, <1>22
    <1> QED
      BY <1>1, <1>5, <1>6, <1>22, <1>23 DEF Told

LEMMA DisconnectedTold ==
    ASSUME TypeOK, Linkage, Exchange, Told, RoundDisconnected
    PROVE  Told'
    <1>1. /\ mcu \in Mcu /\ rx # <<>> /\ Head(rx) = "DISCONNECTED" /\ rx' = Tail(rx)
          /\ bt_state' = "DISCONNECTED" /\ linked' = linked
          /\ fifo' = fifo /\ hostDown' = hostDown
      BY DEF RoundDisconnected, Outside, TypeOK
    <1>2. rx' = <<>> /\ ~linked
      BY <1>1, TailLinkage
    <1> DEFINE m == IF bt_state = "CONNECTED" THEN lpm_timer_reset(mcu) ELSE mcu
               i == report_buffer_init(m)
    <1>3. EndRound(i, FALSE)
      BY DEF RoundDisconnected
    <1>4. m \in Mcu
      BY <1>1, ResetType
    <1>5. i \in Mcu /\ i.head = i.tail /\ i.retry = 0
      BY <1>4, InitType DEF report_buffer_init, Mcu
    <1> HIDE DEF m, i
    <1>6. Stored(mcu')
      BY <1>3, <1>5, EndRoundIdleStored
    <1> QED
      BY <1>1, <1>2, <1>6 DEF Told

LEMMA KeyTold ==
    ASSUME Nkro, ~Consumer, TypeOK, Linkage, Pace, Exchange, Told,
           NEW kind \in Kinds, NEW down \in BOOLEAN, Key(kind, down)
    PROVE  Told'
    <1> DEFINE r == [type |-> kind, id |-> gen + 1, down |-> down]
               m == lpm_timer_reset(mcu)
    <1>1. /\ mcu \in Mcu /\ rx' = rx /\ linked' = linked /\ linked \in BOOLEAN
          /\ gen \in Nat /\ gen' = gen + 1 /\ gen + 1 <= MaxReports
          /\ fifo' = fifo /\ hostDown' = hostDown /\ Stored(mcu)
      BY LinkAssumption DEF Key, TypeOK, Told
    <1>2. kind = "NKRO" /\ KbType = "NKRO"
      BY NkroKinds
    <1>3. r \in Report /\ r.type = "NKRO" /\ r.down = down
      BY <1>1, <1>2, LinkAssumption DEF Report
    <1>4. m \in Mcu
      BY <1>1, ResetType
    <1>5. /\ m.now = mcu.now /\ m.sinceReport = mcu.sinceReport
          /\ m.queue = mcu.queue /\ m.head = mcu.head /\ m.tail = mcu.tail
          /\ m.kb_rpt = mcu.kb_rpt /\ m.retry = mcu.retry
      BY <1>1 DEF lpm_timer_reset, Mcu
    <1>6. Stored(m)
      BY <1>1, <1>5 DEF Stored, Occupied
    <1>7. CASE bt_state = "CONNECTED"
      <2>1. /\ bt_state' = "CONNECTED" /\ mcu' = bluetooth_send(m, r)
            /\ dropped' = IF Drops(m, r) THEN gen + 1 ELSE dropped
        BY <1>7 DEF Key
      <2>2. Drops(m, r) <=> report_buffer_is_full(m)
        BY <1>3 DEF Drops
      <2>3. (KbType \in held') = down
        <3>1. held' = IF down THEN held \union {KbType} ELSE held \ {KbType}
          BY <1>2 DEF Key
        <3> QED
          BY <3>1, SMT
      <2> HIDE DEF m, r
      <2>4. m.sinceReport <= m.now
        BY <1>5 DEF Pace
      <2>5. /\ Stored(mcu')
            /\ ~report_buffer_is_full(m) => \A f, h : Final(mcu', f, h, r.down)
        BY <1>3, <1>4, <1>6, <2>1, <2>4, SendNkroTold
      <2>6. m.retry > 0 => mcu'.kb_rpt = m.kb_rpt
        BY <1>3, <1>4, <2>1, <2>4, SendNkroOne
      <2>7. dropped' # gen' => \A f, h : Final(mcu', f, h, down)
        BY <1>1, <1>3, <2>1, <2>2, <2>5
      <2>8. dropped' # gen' => Final(mcu', fifo', hostDown', KbType \in held')
        BY <2>3, <2>7
      <2>9. rx # <<>> /\ rx[1] \in Ack => mcu'.kb_rpt = mcu.kb_rpt
        <3>1. rx # <<>> => 1 \in DOMAIN rx
          BY DEF TypeOK
        <3> QED
          BY <1>5, <2>6, <3>1 DEF Exchange
      <2>10. linked' /\ rx' # <<>> /\ rx'[1] \in Ack /\ rx'[1] # "FULL" =>
                Shown(fifo', hostDown', mcu'.kb_rpt.down)
        BY <1>1, <2>9 DEF Told
      <2>11. ~linked' \/ bt_state' # "CONNECTED" => fifo' = <<>> /\ hostDown' = FALSE
        BY <1>1, <2>1 DEF Told
      <2> QED
        BY <2>5, <2>8, <2>10, <2>11 DEF Told
    <1>8. CASE bt_state # "CONNECTED"
      <2>1. /\ bt_state' # "CONNECTED"
            /\ mcu'.queue = m.queue /\ mcu'.head = m.head /\ mcu'.tail = m.tail
            /\ mcu'.kb_rpt = m.kb_rpt /\ mcu'.retry = m.retry
        BY <1>4, <1>8 DEF Key, Mcu
      <2> HIDE DEF m
      <2>2. Stored(mcu')
        BY <1>6, <2>1 DEF Stored, Occupied
      <2> QED
        BY <1>1, <1>5, <1>8, <2>1, <2>2 DEF Told
    <1> QED
      BY <1>7, <1>8

\* A step of the clock or the module that changes neither the buffer nor the host.
LEMMA ToldKept ==
    ASSUME Told, mcu'.queue = mcu.queue, mcu'.head = mcu.head, mcu'.tail = mcu.tail,
           mcu'.kb_rpt = mcu.kb_rpt, mcu'.retry = mcu.retry,
           UNCHANGED <<bt_state, held, linked, fifo, hostDown, gen, dropped>>
    PROVE  /\ Stored(mcu')
           /\ ~linked' \/ bt_state' # "CONNECTED" => fifo' = <<>> /\ hostDown' = FALSE
           /\ linked' /\ bt_state' = "CONNECTED" /\ dropped' # gen' =>
                 Final(mcu', fifo', hostDown', KbType \in held')
           /\ rx' = rx => Told'
    <1>1. Stored(mcu')
      BY DEF Told, Stored, Occupied
    <1>2. Newest(mcu') = Newest(mcu)
      BY DEF Newest
    <1>3. \A f, h, v : Final(mcu, f, h, v) => Final(mcu', f, h, v)
      BY <1>2 DEF Final
    <1> DEFINE v == KbType \in held
    <1>4. v' = v
      OBVIOUS
    <1>5. linked /\ bt_state = "CONNECTED" /\ dropped # gen => Final(mcu, fifo, hostDown, v)
      BY DEF Told
    <1> HIDE DEF v
    <1>6. linked' /\ bt_state' = "CONNECTED" /\ dropped' # gen' => Final(mcu', fifo', hostDown', v')
      BY <1>3, <1>4, <1>5
    <1>7. ~linked' \/ bt_state' # "CONNECTED" => fifo' = <<>> /\ hostDown' = FALSE
      BY DEF Told
    <1>8. rx' = rx => (linked' /\ rx' # <<>> /\ rx'[1] \in Ack /\ rx'[1] # "FULL" =>
                         Shown(fifo', hostDown', mcu'.kb_rpt.down))
      BY DEF Told
    <1> QED
      BY <1>1, <1>6, <1>7, <1>8 DEF Told, v

LEMMA AnswerTold ==
    ASSUME ~Noise, TypeOK, Linkage, Exchange, Told, ModuleAccept \/ ModuleRefuse
    PROVE  Told'
    <1>1. /\ mcu \in Mcu /\ mcu.tx # <<>> /\ Head(mcu.tx) # Connect /\ linked /\ linked' = linked
          /\ bt_state' = bt_state /\ gen' = gen /\ dropped' = dropped /\ held' = held
          /\ hostDown' = hostDown /\ TakeCommand /\ fifo \in Seq(Report)
      BY DEF ModuleAccept, ModuleRefuse, Outside, TypeOK
    <1>2. Head(mcu.tx) = mcu.kb_rpt /\ mcu.retry > 0 /\ rx = <<>>
      BY <1>1, AnswerFacts
    <1>3. bt_state = "CONNECTED"
      BY <1>2 DEF Exchange
    <1>4. /\ mcu'.queue = mcu.queue /\ mcu'.head = mcu.head /\ mcu'.tail = mcu.tail
          /\ mcu'.kb_rpt = mcu.kb_rpt /\ mcu'.retry = mcu.retry
      BY <1>1 DEF TakeCommand, Mcu
    <1>5. PICK a : /\ rx' = Append(rx, a)
                   /\ \/ fifo' = fifo /\ a = "FULL"
                      \/ fifo' = Append(fifo, mcu.kb_rpt)
      BY <1>2 DEF ModuleAccept, ModuleRefuse, Outside
    <1>6. rx'[1] = a
      BY <1>2, <1>5
    <1>7. a # "FULL" => Shown(fifo', hostDown', mcu.kb_rpt.down)
      <2>1. fifo' = Append(fifo, mcu.kb_rpt) => fifo' # <<>> /\ fifo'[Len(fifo')] = mcu.kb_rpt
        BY <1>1
      <2> QED
        BY <1>5, <2>1 DEF Shown
    <1>8. Stored(mcu') /\ Newest(mcu') = Newest(mcu)
      BY <1>4 DEF Told, Stored, Occupied, Newest
    <1> DEFINE v == KbType \in held
    <1>9. v' = v
      BY <1>1
    <1>10. dropped # gen => Final(mcu, fifo, hostDown, v)
      BY <1>1, <1>3 DEF Told
    <1> HIDE DEF v
    <1>11. dropped' # gen' => Final(mcu', fifo', hostDown', v')
      BY <1>1, <1>2, <1>4, <1>8, <1>9, <1>10 DEF Final
    <1> QED
      BY <1>1, <1>3, <1>4, <1>6, <1>7, <1>8, <1>11 DEF Told, v

LEMMA LinkResultTold ==
    ASSUME TypeOK, Linkage, Exchange, Told,
           NEW event \in {"CONNECTED", "DISCONNECTED"}, ModuleLinkResult(event)
    PROVE  Told'
    <1>1. /\ mcu \in Mcu /\ rx = <<>> /\ ~linked /\ rx' = <<event>>
          /\ bt_state' = bt_state /\ fifo' = fifo /\ hostDown' = hostDown
      BY DEF ModuleLinkResult, TypeOK
    <1>2. bt_state # "CONNECTED"
      BY <1>1 DEF Linkage
    <1>3. /\ mcu'.queue = mcu.queue /\ mcu'.head = mcu.head /\ mcu'.tail = mcu.tail
          /\ mcu'.kb_rpt = mcu.kb_rpt /\ mcu'.retry = mcu.retry
      BY <1>1 DEF ModuleLinkResult, TakeCommand, Mcu
    <1>4. Stored(mcu')
      BY <1>3 DEF Told, Stored, Occupied
    <1>5. rx'[1] \notin Ack
      BY <1>1 DEF Ack
    <1> QED
      BY <1>1, <1>2, <1>4, <1>5 DEF Told

LEMMA ReceiveTold ==
    ASSUME Nkro, ~Consumer, TypeOK, Told, HostReceive
    PROVE  Told'
    <1>1. /\ mcu' = mcu /\ rx' = rx /\ linked' = linked /\ bt_state' = bt_state /\ held' = held
          /\ gen' = gen /\ dropped' = dropped /\ fifo \in Seq(Report) /\ fifo # <<>>
          /\ fifo' = Tail(fifo)
          /\ hostDown' = IF Head(fifo).type = "CONSUMER" THEN hostDown ELSE Head(fifo).down
      BY DEF HostReceive, TypeOK
    <1>2. hostDown' = fifo[1].down
      <2>1. Head(fifo) \in Report /\ Head(fifo) = fifo[1]
        BY <1>1
      <2>2. Head(fifo).type = "NKRO"
        BY <2>1, NkroKinds DEF Report
      <2> QED
        BY <1>1, <2>1, <2>2
    <1>3. /\ fifo' = <<>> => Len(fifo) = 1
          /\ fifo' # <<>> => fifo'[Len(fifo')] = fifo[Len(fifo)]
      <2>1. /\ fifo' \in Seq(Report) /\ Len(fifo) \in Nat \ {0} /\ Len(fifo') = Len(fifo) - 1
            /\ \A i \in 1 .. Len(fifo) - 1 : fifo'[i] = fifo[i + 1]
        BY <1>1
      <2>2. fifo' # <<>> => Len(fifo') # 0
        BY <2>1
      <2>3. fifo' = <<>> => Len(fifo') = 0
        OBVIOUS
      <2> QED
        BY <2>1, <2>2, <2>3
    <1>4. \A v : Shown(fifo, hostDown, v) => Shown(fifo', hostDown', v)
      BY <1>1, <1>2, <1>3 DEF Shown
    <1>5. \A v : Final(mcu, fifo, hostDown, v) => Final(mcu', fifo', hostDown', v)
      BY <1>1, <1>4 DEF Final
    <1>6. linked /\ bt_state = "CONNECTED"
      BY <1>1 DEF Told, TypeOK
    <1> DEFINE v == KbType \in held
    <1>7. v' = v
      BY <1>1
    <1>8. dropped # gen => Final(mcu, fifo, hostDown, v)
      BY <1>6 DEF Told
    <1> HIDE DEF v
    <1>9. dropped' # gen' => Final(mcu', fifo', hostDown', v')
      BY <1>1, <1>5, <1>7, <1>8
    <1>10. linked' /\ rx' # <<>> /\ rx'[1] \in Ack /\ rx'[1] # "FULL" =>
              Shown(fifo', hostDown', mcu'.kb_rpt.down)
      BY <1>1, <1>4 DEF Told
    <1> QED
      BY <1>1, <1>6, <1>9, <1>10 DEF Told, v

LEMMA NextTold ==
    ASSUME Nkro, ~Consumer, ~Noise, AckBound <= RetryGap,
           TypeOK, Linkage, Pace, Exchange, Told, [Next]_vars
    PROVE  Told'
    <1>1. ASSUME NEW kind \in Kinds, NEW down \in BOOLEAN, Key(kind, down)
          PROVE  Told'
      BY <1>1, KeyTold
    <1>2. CASE Round
      BY <1>2, QuietTold, AckTold, ConnectedTold, DisconnectedTold DEF Round
    <1>3. CASE Tick
      <2>1. /\ mcu \in Mcu /\ rx' = rx
            /\ UNCHANGED <<bt_state, held, linked, fifo, hostDown, gen, dropped>>
        BY <1>3 DEF Tick, Outside, TypeOK
      <2>2. /\ mcu'.queue = mcu.queue /\ mcu'.head = mcu.head /\ mcu'.tail = mcu.tail
            /\ mcu'.kb_rpt = mcu.kb_rpt /\ mcu'.retry = mcu.retry
        BY <1>3, <2>1 DEF Tick, TimerTick, Mcu
      <2> QED
        BY <2>1, <2>2, ToldKept
    <1>4. CASE ModuleAccept \/ ModuleRefuse
      BY <1>4, AnswerTold
    <1>5. CASE ModuleDiscard
      <2>1. /\ mcu \in Mcu /\ rx' = rx /\ TakeCommand
            /\ UNCHANGED <<bt_state, held, linked, fifo, hostDown, gen, dropped>>
        BY <1>5 DEF ModuleDiscard, Outside, TypeOK
      <2>2. /\ mcu'.queue = mcu.queue /\ mcu'.head = mcu.head /\ mcu'.tail = mcu.tail
            /\ mcu'.kb_rpt = mcu.kb_rpt /\ mcu'.retry = mcu.retry
        BY <2>1 DEF TakeCommand, Mcu
      <2> QED
        BY <2>1, <2>2, ToldKept
    <1>6. ASSUME NEW event \in {"CONNECTED", "DISCONNECTED"}, ModuleLinkResult(event)
          PROVE  Told'
      BY <1>6, LinkResultTold
    <1>7. CASE ModuleLinkLost
      BY <1>7 DEF ModuleLinkLost, Told
    <1>8. CASE HostReceive
      BY <1>8, ReceiveTold
    <1>9. CASE UNCHANGED vars
      BY <1>9, ToldKept DEF vars
    <1> QED
      BY <1>1, <1>2, <1>3, <1>4, <1>5, <1>6, <1>7, <1>8, <1>9 DEF Next, Module

\* On the NKRO path no key is stuck: when nothing is on its way the host agrees
\* with the keyboard on whether a key is pressed, for every ring size, retry
\* count, FIFO size and number of reports, through full FIFOs, lost links,
\* reconnections and sleep, unless the newest report found the ring full.  The
\* conditions on the module are those of NkroNothingLost.
THEOREM NkroNoStuckKey ==
    ASSUME Nkro, ~Consumer, ~Noise, AckBound <= RetryGap
    PROVE  Spec => []NoStuckKey
    <1> DEFINE Safe == Exchange /\ AllHeld /\ Told
    <1>1. Init => Safe
      <2> SUFFICES ASSUME Init
                   PROVE  Exchange /\ AllHeld /\ Told
        OBVIOUS
      <2>1. /\ mcu.head = 0 /\ mcu.tail = 0 /\ mcu.retry = 0 /\ rx = <<>> /\ ~linked /\ gen = 0
            /\ fifo = <<>> /\ hostDown = FALSE
        BY DEF Init
      <2>2. ~ \E i \in Occupied(mcu) : TRUE
        BY <2>1 DEF Occupied
      <2>3. AllHeld
        BY <2>1 DEF AllHeld
      <2>4. Exchange
        BY <2>1 DEF Exchange, Aligned
      <2> QED
        BY <2>1, <2>2, <2>3, <2>4 DEF Told, Stored
    <1>2. TypeOK /\ Linkage /\ Pace /\ Safe /\ [Next]_vars => Safe'
      BY NextExchange, NextTold
    <1>3. Safe => NoStuckKey
      <2> SUFFICES ASSUME Told, Settled, dropped # gen
                   PROVE  hostDown = (KbType \in held)
        BY DEF NoStuckKey
      <2> DEFINE v == KbType \in held
      <2>1. Final(mcu, fifo, hostDown, v)
        BY DEF Told, Settled
      <2> HIDE DEF v
      <2>2. hostDown = v
        BY <2>1 DEF Final, Shown, Settled, report_buffer_is_empty
      <2> QED
        BY <2>2 DEF v
    <1> QED
      BY <1>1, <1>2, <1>3, LinkageAndPace, PTL DEF Spec
=============================================================================
