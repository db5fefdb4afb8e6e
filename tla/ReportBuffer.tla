---------------------------- MODULE ReportBuffer ----------------------------
(***************************************************************************)
(* keyboards/keychron/bluetooth/report_buffer.c: the ring of HID reports   *)
(* between the key processing code and the Bluetooth module, and the timer *)
(* and retry counter that pace it.                                         *)
(*                                                                         *)
(* Every function of the file is an operator from one MCU state to the     *)
(* next, so that a handler that calls several of them is their             *)
(* composition.  An MCU state is a record with                             *)
(*   queue, head, tail   report_buffer_queue and its two indices           *)
(*   kb_rpt, retry       the report last dequeued and its retry counter    *)
(*   interval            report_interval, in milliseconds                  *)
(*   sinceReport         sync_timer_elapsed32(report_timer_buffer)         *)
(*   sinceRetry          sync_timer_elapsed32(retry_time_buffer)           *)
(*   now                 sync_timer_read32()                               *)
(*   awake               milliseconds before lpm_task may sleep            *)
(*   tx                  the commands written to the UART, not yet taken   *)
(*                       by the module                                     *)
(* Times saturate at MaxTime, which is beyond every threshold of the code. *)
(***************************************************************************)
EXTENDS Integers, Sequences

CONSTANTS
    QueueSize,        \* REPORT_BUFFER_QUEUE_SIZE (512); the ring holds one less
    RetryCount,       \* RETPORT_RETRY_COUNT (30): sends of an unanswered report
    FullRetry,        \* retry counter set by ACK_FIFO_FULL_ERROR (10)
    RetryGap,         \* a report is sent again after more than this (7 ms)
    DefaultInterval,  \* DEFAULT_REPORT_INVERVAL_MS (3)
    HalfExtra,        \* added to the interval by ACK_FIFO_HALF_WARNING (5)
    SettleTime,       \* nothing is sent before this uptime has passed (2)
    AwakeTime,        \* RUN_MODE_PROCESS_TIME (1000)
    MaxTime           \* bound: elapsed times saturate here

ASSUME SizeAssumption == QueueSize \in Nat /\ QueueSize > 1

ASSUME RetryAssumption ==
    RetryCount \in Nat /\ FullRetry \in Nat /\ RetryCount > 1 /\ FullRetry > 1

ASSUME TimeAssumption ==
    /\ RetryGap \in Nat /\ DefaultInterval \in Nat /\ HalfExtra \in Nat
    /\ SettleTime \in Nat /\ AwakeTime \in Nat /\ MaxTime \in Nat
    /\ SettleTime <= DefaultInterval
    /\ DefaultInterval + HalfExtra < AwakeTime
    /\ RetryGap < AwakeTime
    /\ AwakeTime <= MaxTime

\* report_buffer_t: the kind of the report, a serial number that stands for its
\* contents, and whether it reports something pressed.
NoReport == [type |-> "NONE", id |-> 0, down |-> FALSE]

ReportType == {"NKRO", "KB", "CONSUMER"}

Slots == 0 .. QueueSize - 1

Next1(i) == (i + 1) % QueueSize

Occupied(b) == IF b.tail <= b.head THEN b.tail .. b.head - 1
                                   ELSE (b.tail .. QueueSize - 1) \union (0 .. b.head - 1)

\* How many reports are taken from the ring before the one in slot i.
Ahead(b, i) == IF i >= b.tail THEN i - b.tail ELSE i + QueueSize - b.tail

Queued(b) == {b.queue[i] : i \in Occupied(b)}

\* Seeded fault: the ring is emptied, the retry counter is not.
report_buffer_init_keeps_retry(b) ==
    [b EXCEPT !.queue = [i \in Slots |-> NoReport], !.head = 0, !.tail = 0, !.sinceReport = 0]

report_buffer_init(b) ==
    [b EXCEPT !.queue = [i \in Slots |-> NoReport], !.head = 0, !.tail = 0,
              !.retry = 0, !.sinceReport = 0]

\* Seeded fault: the last free slot is not used.
report_buffer_is_full_early(b) == Next1(b.head) = b.tail \/ Next1(Next1(b.head)) = b.tail

report_buffer_is_full(b) == Next1(b.head) = b.tail

\* The callers ignore the result: a report that finds the ring full is dropped.
report_buffer_enqueue(b, r) ==
    IF report_buffer_is_full(b)
    THEN b
    ELSE [b EXCEPT !.queue[b.head] = r, !.head = Next1(b.head)]

\* Seeded fault: the read index does not wrap.
report_buffer_dequeue_no_wrap(b) ==
    [b EXCEPT !.kb_rpt = b.queue[b.tail], !.tail = b.tail + 1]

report_buffer_dequeue(b) ==
    [b EXCEPT !.kb_rpt = b.queue[b.tail], !.tail = Next1(b.tail)]

report_buffer_is_empty(b) == b.head = b.tail

report_buffer_update_timer(b) == [b EXCEPT !.sinceReport = 0]

report_buffer_next_inverval(b) == b.sinceReport > b.interval

report_buffer_set_inverval(b, interval) == [b EXCEPT !.interval = interval]

report_buffer_set_retry(b, times) == [b EXCEPT !.retry = times]

lpm_timer_reset(b) == [b EXCEPT !.awake = AwakeTime]

\* bluetooth_transport.send_nkro, send_keyboard, send_consumer: a report without
\* a type has no command.
transport_send(b, r) ==
    IF r.type \in ReportType THEN [b EXCEPT !.tx = Append(@, r)] ELSE b

\* Seeded fault: sending does not put off low power mode.
SendPending_sleepy(b) ==
    [transport_send(b, b.kb_rpt) EXCEPT !.sinceRetry = 0, !.sinceReport = 0]

\* The block "if (pending_data)" of report_buffer_task, with retry_time_buffer.
SendPending(b) ==
    lpm_timer_reset([transport_send(b, b.kb_rpt) EXCEPT !.sinceRetry = 0, !.sinceReport = 0])

\* Seeded fault: a round that finds the interval not over starts it, and the low
\* power timer, again.
report_buffer_task_restarts(b, connected) ==
    LET d == report_buffer_dequeue(b)
    IN IF ~(connected /\ (~report_buffer_is_empty(b) \/ b.retry > 0))
       THEN b
       ELSE IF ~report_buffer_next_inverval(b)
       THEN lpm_timer_reset(report_buffer_update_timer(b))
       ELSE IF b.retry = 0
       THEN IF b.now > SettleTime
            THEN SendPending([d EXCEPT !.retry = RetryCount])
            ELSE d
       ELSE IF b.sinceRetry > RetryGap
       THEN SendPending([b EXCEPT !.retry = @ - 1])
       ELSE b

report_buffer_task(b, connected) ==
    LET d == report_buffer_dequeue(b)
    IN IF ~ /\ connected
            /\ ~report_buffer_is_empty(b) \/ b.retry > 0
            /\ report_buffer_next_inverval(b)
       THEN b
       ELSE IF b.retry = 0
       THEN IF b.now > SettleTime
            THEN SendPending([d EXCEPT !.retry = RetryCount])
            ELSE d
       ELSE IF b.sinceRetry > RetryGap
       THEN SendPending([b EXCEPT !.retry = @ - 1])
       ELSE b

\* One millisecond of the system timer.
Later(t) == IF t < MaxTime THEN t + 1 ELSE t

TimerTick(b) ==
    [b EXCEPT !.now = Later(@), !.sinceReport = Later(@), !.sinceRetry = Later(@),
              !.awake = IF @ > 0 THEN @ - 1 ELSE 0]

\* timer_init, lpm_timer_reset and report_buffer_init after a low power period:
\* the clock starts again at 0, so the difference to the old retry_time_buffer
\* wraps to a huge value (or is 0 if that was never set).
enter_power_mode(b, stale) ==
    report_buffer_init(lpm_timer_reset([b EXCEPT !.now = 0, !.sinceRetry = stale]))
=============================================================================
