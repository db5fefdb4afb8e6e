------------------------------ MODULE Tapping ------------------------------
(***************************************************************************)
(* action_tapping.c: dual-role keys (mod-tap and layer-tap).  While it is  *)
(* undecided whether such a key, the tapping key, is tapped or held, the   *)
(* events of other keys wait in a ring; every event and every tick of the  *)
(* clock goes through process_tapping, and after it the waiting events are *)
(* tried again until one has to go on waiting.                             *)
(*                                                                         *)
(* process_record is modelled by what it registers with the host: a pair   *)
(* <<key, role>>, the role of a dual-role key being its tap or its hold    *)
(* action.  A key has the same action on all layers.  Times are kept as    *)
(* ages, in clock ticks.                                                   *)
(***************************************************************************)
EXTENDS Integers, Sequences, FiniteSets

CONSTANTS
    PlainKeys,      \* keys with a plain keycode
    ModKeys,        \* plain modifier keys
    ModTapKeys,     \* mod-tap keys
    LayerTapKeys,   \* layer-tap keys
    TAPPING_TERM, QUICK_TAP_TERM,
    WAITING_BUFFER_SIZE,
    MaxTapCount,    \* 15: where tap.count saturates
    Builds,         \* sets of the options that a firmware is built with
    Crowded         \* builds in which two keys may change with no quiet scan between

TapKeys == ModTapKeys \cup LayerTapKeys
Keys == PlainKeys \cup ModKeys \cup TapKeys
None == "none"
TickKey == "tick"

ASSUME TermAssumption ==
    /\ TAPPING_TERM \in Nat \ {0} /\ QUICK_TAP_TERM \in 0..TAPPING_TERM
    /\ WAITING_BUFFER_SIZE \in Nat \ {0, 1} /\ MaxTapCount \in Nat \ {0}
    /\ Builds \subseteq SUBSET {"PERMISSIVE_HOLD", "HOLD_ON_OTHER_KEY_PRESS",
                               "IGNORE_MOD_TAP_INTERRUPT"}

\* Ages beyond this one are alike.
MaxAge == 2 * TAPPING_TERM

VARIABLES
    options,        \* the options that are defined in this build
    tapping_key,    \* record of the tapping key; its key is None when there is none
    waiting,        \* the waiting ring, oldest first
    registered,     \* what the host has been told is down
    pc,             \* "idle", "scan" (a tick or an event is due), "drain"
    down,           \* the keys that are physically down
    fresh,          \* the keys that have changed since the last tick
    owed            \* history: keys pressed whose press is not processed, in order

vars == <<options, tapping_key, waiting, registered, pc, down, fresh, owed>>

\* due is a history flag: the press has not been processed yet.
Record(k, p) ==
    [key |-> k, pressed |-> p, age |-> 0, count |-> 0, interrupted |-> FALSE, due |-> p]
NoKey == Record(None, FALSE)
-----------------------------------------------------------------------------
(***************************************************************************)
(* process_record, down to process_action.                                 *)
(***************************************************************************)
\* A press that an interrupted mod-tap turns into its hold action, although it was
\* tapped; process_action then also clears the tap count of the record.
Cancelled(r) ==
    /\ r.key \in ModTapKeys /\ r.pressed /\ r.count > 0
    /\ r.interrupted /\ "IGNORE_MOD_TAP_INTERRUPT" \notin options

AfterProcess(r) == [r EXCEPT !.count = IF Cancelled(r) THEN 0 ELSE @, !.due = FALSE]

Role(r) ==
    IF r.key \notin TapKeys THEN "plain"
    ELSE IF r.count > 0 /\ ~Cancelled(r) THEN "tap" ELSE "hold"

\* The effect of processing the records rs on the set of registered roles.
RECURSIVE Register(_, _)
Register(reg, rs) ==
    IF rs = <<>> THEN reg
    ELSE LET r == Head(rs)
             it == {<<r.key, Role(r)>>}
         IN  Register(IF r.key = TickKey THEN reg
                      ELSE IF r.pressed THEN reg \cup it ELSE reg \ it,
                      Tail(rs))
-----------------------------------------------------------------------------
(***************************************************************************)
(* process_tapping.                                                        *)
(***************************************************************************)
IsTapping == tapping_key.key # None
IsTappingRecord(r) == IsTapping /\ r.key = tapping_key.key
Elapsed(r) == tapping_key.age - r.age

Within(r, term) == Elapsed(r) < term

IsTapPress(r) == r.key \in TapKeys /\ r.pressed
IsRelease(r) == r.key # TickKey /\ ~r.pressed

waiting_buffer_typed(r) ==
    \E i \in DOMAIN waiting : waiting[i].key = r.key /\ waiting[i].pressed # r.pressed

\* Release of a modifier or a layer, which has to wait for the end of the tapping.
Retained(r) ==
    \/ r.key \in ModKeys \cup LayerTapKeys
    \/ r.key \in ModTapKeys /\ r.count = 0

\* What a call of process_tapping does: its result, the record as it leaves it, the
\* tapping key, the records it processes, and the waiting release that it marks as
\* the end of a tap (0: none).
Outcome(ok, r, tk, calls, mark) ==
    [ok |-> ok, record |-> r, tapping_key |-> tk, calls |-> calls, mark |-> mark]

\* waiting_buffer_scan_tap, with r becoming the tapping key: its release may already
\* be waiting.
StartTapping(r, calls) ==
    LET ends == {i \in DOMAIN waiting : /\ waiting[i].key = r.key
                                        /\ ~waiting[i].pressed
                                        /\ r.age - waiting[i].age < TAPPING_TERM}
        tapped == [r EXCEPT !.count = 1]
    IN  IF r.count > 0 \/ ends = {}
        THEN Outcome(TRUE, r, r, calls, 0)
        ELSE Outcome(TRUE, r, AfterProcess(tapped), Append(calls, tapped),
                     CHOOSE i \in ends : \A j \in ends : i <= j)

\* Mutant of Undecided: presses of other keys do not wait.
UndecidedEager(r) ==
    CASE IsTappingRecord(r) /\ ~r.pressed ->
            LET tapped == [tapping_key EXCEPT !.count = 1]
                settled == AfterProcess(tapped)
            IN  Outcome(FALSE, [r EXCEPT !.count = settled.count], settled, <<tapped>>, 0)
      [] r.key # TickKey /\ ~IsTappingRecord(r) -> Outcome(TRUE, r, tapping_key, <<r>>, 0)
      [] OTHER -> Outcome(FALSE, r, tapping_key, <<>>, 0)

\* The tapping key is held down and undecided.
Undecided(r) ==
    LET tapped == [tapping_key EXCEPT !.count = 1]
        settled == AfterProcess(tapped)
    IN  CASE IsTappingRecord(r) /\ ~r.pressed ->
                Outcome(FALSE,
                        [r EXCEPT !.count = settled.count, !.interrupted = settled.interrupted],
                        settled, <<tapped>>, 0)
          [] ~(IsTappingRecord(r) /\ ~r.pressed) /\ IsRelease(r)
                /\ waiting_buffer_typed(r) /\ "PERMISSIVE_HOLD" \in options ->
                Outcome(FALSE, r, NoKey, <<tapping_key>>, 0)
          [] ~IsTappingRecord(r) /\ IsRelease(r) /\ ~waiting_buffer_typed(r) ->
                IF Retained(r) THEN Outcome(FALSE, r, tapping_key, <<>>, 0)
                               ELSE Outcome(TRUE, r, tapping_key, <<r>>, 0)
          [] OTHER ->
                IF r.pressed /\ "HOLD_ON_OTHER_KEY_PRESS" \in options
                THEN Outcome(FALSE, r, NoKey,
                             <<[tapping_key EXCEPT !.interrupted = TRUE]>>, 0)
                ELSE Outcome(FALSE, r,
                             [tapping_key EXCEPT !.interrupted = @ \/ r.pressed], <<>>, 0)

\* Mutant of Tapped: the release of the tapping key does not take over its tap state.
TappedForgets(r, released) ==
    IF IsTapPress(r) THEN StartTapping(r, <<>>)
    ELSE Outcome(TRUE, r, IF IsTappingRecord(r) THEN released ELSE tapping_key, <<r>>, 0)

\* The tapping key is down and was tapped before.
Tapped(r, released) ==
    LET asTap == [r EXCEPT !.count = tapping_key.count,
                           !.interrupted = tapping_key.interrupted]
        \* the registered tap is released on behalf of the tapping key
        unregister == [tapping_key EXCEPT !.pressed = FALSE, !.age = r.age]
    IN  CASE IsTappingRecord(r) /\ ~r.pressed -> Outcome(TRUE, asTap, released, <<asTap>>, 0)
          [] IsTapPress(r) ->
                StartTapping(r, IF tapping_key.count > 1 THEN <<unregister>> ELSE <<>>)
          [] OTHER -> Outcome(TRUE, r, tapping_key, <<r>>, 0)

NextCount(c) == IF c < MaxTapCount THEN c + 1 ELSE c

\* The tapping key was released less than a tapping term ago.
JustReleased(r) ==
    LET again == [r EXCEPT !.interrupted = tapping_key.interrupted,
                           !.count = NextCount(tapping_key.count)]
    IN  CASE r.pressed /\ IsTappingRecord(r) ->
                IF /\ Within(r, QUICK_TAP_TERM)
                   /\ ~tapping_key.interrupted /\ tapping_key.count > 0
                THEN Outcome(TRUE, again, AfterProcess(again), <<again>>, 0)
                ELSE Outcome(TRUE, r, r, <<>>, 0)
          [] IsTapPress(r) /\ ~IsTappingRecord(r) -> StartTapping(r, <<>>)
          [] r.pressed /\ ~IsTapPress(r) ->
                Outcome(TRUE, r, [tapping_key EXCEPT !.interrupted = TRUE], <<r>>, 0)
          [] OTHER -> Outcome(TRUE, r, tapping_key, <<r>>, 0)

process_tapping(r) ==
    CASE ~IsTapping ->
            IF IsTapPress(r) THEN StartTapping(r, <<>>)
                             ELSE Outcome(TRUE, r, NoKey, <<r>>, 0)
      [] IsTapping /\ tapping_key.pressed /\ tapping_key.count = 0 ->
            IF Within(r, TAPPING_TERM) THEN Undecided(r)
                                       ELSE Outcome(FALSE, r, NoKey, <<tapping_key>>, 0)
      [] IsTapping /\ tapping_key.pressed /\ tapping_key.count > 0 ->
            Tapped(r, IF Within(r, TAPPING_TERM)
                      THEN [r EXCEPT !.count = tapping_key.count,
                                     !.interrupted = tapping_key.interrupted]
                      ELSE NoKey)
      [] IsTapping /\ ~tapping_key.pressed ->
            IF Within(r, TAPPING_TERM) THEN JustReleased(r)
                                       ELSE Outcome(FALSE, r, NoKey, <<>>, 0)
-----------------------------------------------------------------------------
(***************************************************************************)
(* action_tapping_process.                                                 *)
(***************************************************************************)
Marked(w, o) == IF o.mark = 0 THEN w ELSE [w EXCEPT ![o.mark].count = 1]

\* The list q of presses owed without those that o processes for the first time.
RECURSIVE Paid(_, _)
Paid(rs, q) ==
    IF rs = <<>> THEN q
    ELSE LET i == CHOOSE j \in DOMAIN q : /\ q[j] = Head(rs).key
                                          /\ \A h \in 1..(j - 1) : q[h] # q[j]
         IN  Paid(Tail(rs), IF Head(rs).due
                            THEN SubSeq(q, 1, i - 1) \o SubSeq(q, i + 1, Len(q))
                            ELSE q)

\* The call with record r and the list of presses owed after it has come in.
Enter(r, q) ==
    LET o == process_tapping(r)
        overflow == /\ ~o.ok /\ r.key # TickKey
                    /\ Len(waiting) + 1 = WAITING_BUFFER_SIZE
    IN  /\ pc' = "drain" /\ UNCHANGED options
        /\ IF overflow
           THEN \* clear_keyboard releases keys and modifiers, and leaves the layers
                /\ registered' = {x \in Register(registered, o.calls) :
                                    x[1] \in LayerTapKeys /\ x[2] = "hold"}
                /\ waiting' = <<>>
                /\ tapping_key' = NoKey
                /\ owed' = <<>>
           ELSE /\ registered' = Register(registered, o.calls)
                /\ waiting' = IF o.ok \/ r.key = TickKey THEN Marked(waiting, o)
                              ELSE Append(Marked(waiting, o), o.record)
                /\ tapping_key' = o.tapping_key
                /\ owed' = Paid(o.calls, q)

\* One round of the loop over the waiting events.
Drain ==
    /\ pc = "drain"
    /\ IF waiting = <<>>
       THEN pc' = "idle" /\ UNCHANGED <<tapping_key, waiting, registered, owed>>
       ELSE LET o == process_tapping(Head(waiting))
                marked == Marked(waiting, o)
            IN  /\ tapping_key' = o.tapping_key
                /\ registered' = Register(registered, o.calls)
                /\ owed' = Paid(o.calls, owed)
                /\ IF o.ok
                   THEN waiting' = Tail(marked) /\ UNCHANGED pc
                   ELSE waiting' = [marked EXCEPT ![1] = o.record] /\ pc' = "idle"
    /\ UNCHANGED <<down, fresh, options>>

\* matrix_task: a key has changed, or there is a tick.  Debouncing keeps a key's
\* state for several milliseconds, so that a scan without changes comes between two
\* changes of one key.
MayChange(k) ==
    /\ pc \in {"idle", "scan"}
    /\ k \notin fresh /\ (options \in Crowded \/ fresh = {})
    /\ fresh' = fresh \cup {k}

Press(k) ==
    /\ MayChange(k) /\ k \notin down
    /\ down' = down \cup {k}
    /\ Enter(Record(k, TRUE), Append(owed, k))

Release(k) ==
    /\ MayChange(k) /\ k \in down
    /\ down' = down \ {k}
    /\ Enter(Record(k, FALSE), owed)

\* Mutant of generate_tick_event: a tick is dropped as no event.
TickDropped ==
    /\ pc = "scan" /\ pc' = "idle" /\ fresh' = {}
    /\ UNCHANGED <<tapping_key, waiting, registered, down, owed, options>>

generate_tick_event ==
    /\ pc = "scan"
    /\ Enter(Record(TickKey, FALSE), owed)
    /\ fresh' = {}
    /\ UNCHANGED down

\* A millisecond passes.
Older(r) == [r EXCEPT !.age = IF @ < MaxAge THEN @ + 1 ELSE @]
Clock ==
    /\ pc = "idle"
    /\ pc' = "scan"
    /\ tapping_key' = IF IsTapping THEN Older(tapping_key) ELSE tapping_key
    /\ waiting' = [i \in DOMAIN waiting |-> Older(waiting[i])]
    /\ UNCHANGED <<registered, down, fresh, owed, options>>

Init ==
    /\ options \in Builds
    /\ tapping_key = NoKey /\ waiting = <<>> /\ registered = {}
    /\ pc = "idle" /\ down = {} /\ fresh = {} /\ owed = <<>>

Next ==
    \/ \E k \in Keys : Press(k) \/ Release(k)
    \/ generate_tick_event
    \/ Clock
    \/ Drain

Spec == Init /\ [][Next]_vars
-----------------------------------------------------------------------------
(***************************************************************************)
(* Properties.                                                             *)
(***************************************************************************)
RecordType ==
    [key : Keys \cup {None}, pressed : BOOLEAN, age : 0..MaxAge,
     count : 0..MaxTapCount, interrupted : BOOLEAN, due : BOOLEAN]

\* The types of the variables; the ring keeps one slot free.
TypeOK ==
    /\ tapping_key \in RecordType
    /\ Len(waiting) < WAITING_BUFFER_SIZE
    /\ \A i \in DOMAIN waiting : waiting[i] \in RecordType
    /\ registered \subseteq Keys \X {"plain", "tap", "hold"}
    /\ pc \in {"idle", "scan", "drain"}
    /\ down \subseteq Keys /\ fresh \subseteq Keys /\ options \in Builds

\* Nothing is left over: when no key is down and no event waits, no keycode,
\* modifier or layer is registered.  The release of a dual-role key is processed
\* with the role that its press was given.
NothingStuck ==
    down = {} /\ waiting = <<>> /\ pc = "idle" /\ ~tapping_key.pressed => registered = {}

\* An event waits for a tapping term, and a tick for every further dual-role key
\* that became the tapping key only after its own term was over; whatever is typed
\* meanwhile does not put the decision off.
NoEventLate ==
    pc = "idle" => \A i \in DOMAIN waiting :
                        waiting[i].age < TAPPING_TERM + Cardinality(TapKeys) - 1

\* Presses reach the host in the order in which they were made: what a step
\* processes of the presses owed are the oldest ones, so that a key struck while a
\* dual-role key is undecided never overtakes it.
PressesInOrder ==
    [][\E n \in 0..Len(owed) + 1 :
        LET q == IF down \subseteq down' /\ down # down'
                 THEN Append(owed, CHOOSE k \in down' : k \notin down) ELSE owed
        IN  owed' = SubSeq(q, n + 1, Len(q))]_vars
=============================================================================
