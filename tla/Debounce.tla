------------------------------ MODULE Debounce ------------------------------
(***************************************************************************)
(* The debounce algorithms of quantum/debounce, run by matrix_scan after   *)
(* every scan of the raw matrix.  A scan sees a new raw matrix, some time  *)
(* after the last one.  Timestamps are kept as ages: idle is the time      *)
(* since last_time (debouncing_time in sym_defer_g).                       *)
(***************************************************************************)
EXTENDS Integers, FiniteSets

CONSTANTS
    ALGORITHMS, \* the algorithms under study, named as for DEBOUNCE_TYPE
    Keys,       \* the keys, as pairs <<row, column>>
    DEBOUNCE,   \* milliseconds
    UINT8_MAX,  \* where a counter saturates
    MaxStep     \* longest time between two scans

Algorithms ==
    {"none", "sym_defer_g", "sym_defer_pk", "sym_defer_pr", "sym_eager_pk",
     "sym_eager_pr", "asym_eager_defer_pk"}

ASSUME DebounceAssumption ==
    /\ ALGORITHMS \subseteq Algorithms
    /\ UINT8_MAX \in Nat /\ DEBOUNCE \in 1..UINT8_MAX
    /\ MaxStep \in Nat \ {0}

RowKeys(k) == {x \in Keys : x[1] = k[1]}

VARIABLES
    algorithm,              \* the one that the firmware was built with
    raw, cooked,            \* the matrices: [Keys -> BOOLEAN]
    counters,               \* debounce_counters; those of a row are all the same
    pressed,                \* direction that a counter was started for (asym_*)
    idle,                   \* age of last_time
    counters_need_update,   \* debouncing, in sym_defer_g
    matrix_need_update,
    returned,               \* what debounce() returned
    since,                  \* history: since[k] is the age of the last change of raw[k]
    quiet,                  \* history: quiet[k] is the age of the last change of cooked[k]
    gap                     \* history: the shortest time between two reports of a key

vars == <<algorithm, raw, cooked, counters, pressed, idle, counters_need_update,
          matrix_need_update, returned, since, quiet, gap>>

\* The keys whose changes restart, or are locked by, the timer of key k.
Unit(k) ==
    CASE algorithm = "sym_defer_g" -> Keys
      [] algorithm \in {"sym_defer_pr", "sym_eager_pr"} -> RowKeys(k)
      [] OTHER -> {k}

Least(a, b) == IF a <= b THEN a ELSE b
Cap(t) == Least(t, UINT8_MAX)
Changed(new) == new # raw
-----------------------------------------------------------------------------
none(new, d) ==
    /\ cooked' = new
    /\ returned' = (new # cooked)
    /\ UNCHANGED <<counters, pressed, idle, counters_need_update, matrix_need_update>>

sym_defer_g(new, d) ==
    LET debouncing == Changed(new) \/ counters_need_update
        age == IF Changed(new) THEN 0 ELSE idle + d
        push == debouncing /\ age >= DEBOUNCE
    IN  /\ cooked' = IF push THEN new ELSE cooked
        /\ returned' = (push /\ new # cooked)
        /\ counters_need_update' = (debouncing /\ ~push)
        /\ idle' = Cap(age)
        /\ UNCHANGED <<counters, pressed, matrix_need_update>>

sym_defer_pr(new, d) ==
    LET restart(k) == \E x \in RowKeys(k) : new[x] # raw[x]
        push(k) == ~restart(k) /\ counters[k] \in 1..Cap(d)
    IN  /\ cooked' = [k \in Keys |-> IF push(k) THEN new[k] ELSE cooked[k]]
        /\ returned' = (cooked' # cooked)
        /\ counters' = [k \in Keys |-> IF restart(k) THEN DEBOUNCE
                                       ELSE IF push(k) THEN 0
                                       ELSE counters[k] - Least(counters[k], Cap(d))]
        /\ UNCHANGED <<pressed, idle, counters_need_update, matrix_need_update>>
-----------------------------------------------------------------------------
(***************************************************************************)
(* The other algorithms first let the running counters expire and then     *)
(* look at the keys whose raw state differs from the cooked one.           *)
(***************************************************************************)
\* Mutant of Updating: a millisecond is too little to count.
UpdatingCoarse(d) == counters_need_update /\ Cap(idle + d) > 1

Updating(d) == counters_need_update /\ Cap(idle + d) > 0

Expired(k, d) == Updating(d) /\ counters[k] \in 1..Cap(idle + d)

Counted(k, d) ==
    IF Updating(d) THEN counters[k] - Least(counters[k], Cap(idle + d)) ELSE counters[k]

\* The end of a counter: of an eager key, it makes matrix_need_update true; deferred, it
\* copies the raw state.
update_debounce_counters(new, d, eager) ==
    [cooked |-> [k \in Keys |-> IF Expired(k, d) /\ k \notin eager THEN new[k] ELSE cooked[k]],
     need |-> IF Updating(d) THEN \E k \in Keys : Expired(k, d) /\ k \in eager
                             ELSE matrix_need_update]

\* After the counters: the matrix and the counters as the transfer leaves them.
Finish(d, u, transfer, cooked2, counters2, ret) ==
    /\ cooked' = cooked2
    /\ counters' = counters2
    /\ returned' = ret
    /\ matrix_need_update' = u.need
    /\ counters_need_update' =
            \/ ~Updating(d) /\ counters_need_update
            \/ Updating(d) /\ \E k \in Keys : Counted(k, d) # 0
            \/ \E k \in Keys : Counted(k, d) = 0 /\ counters2[k] # 0
    /\ idle' = IF counters_need_update \/ transfer THEN 0 ELSE Cap(idle + d)

\* Mutant of sym_defer_pk: a key that is back in its old state keeps its counter.
DeferWithoutCancel(new, d) ==
    LET u == update_debounce_counters(new, d, {})
        start(k) == new[k] # u.cooked[k] /\ Counted(k, d) = 0
    IN  /\ Finish(d, u, Changed(new), u.cooked,
                  [k \in Keys |-> IF start(k) THEN DEBOUNCE ELSE Counted(k, d)],
                  u.cooked # cooked)
        /\ UNCHANGED pressed

sym_defer_pk(new, d) ==
    LET u == update_debounce_counters(new, d, {})
        start(k) == IF new[k] = u.cooked[k] THEN 0
                    ELSE IF Counted(k, d) = 0 THEN DEBOUNCE ELSE Counted(k, d)
    IN  /\ Finish(d, u, Changed(new), u.cooked,
                  [k \in Keys |-> IF Changed(new) THEN start(k) ELSE Counted(k, d)],
                  u.cooked # cooked)
        /\ UNCHANGED pressed

\* Mutants of sym_eager_pk and sym_eager_pr: a key is not locked by its report; the
\* matrix of the last scan is transferred.
EagerWithoutLock(new, d) ==
    LET u == update_debounce_counters(new, d, Keys)
    IN  /\ Finish(d, u, Changed(new), new, [k \in Keys |-> Counted(k, d)], new # cooked)
        /\ UNCHANGED pressed
EagerStale(new, d) ==
    LET u == update_debounce_counters(new, d, Keys)
        flip(k) == raw[k] # cooked[k] /\ Counted(k, d) = 0
    IN  /\ Finish(d, u, TRUE, [k \in Keys |-> IF flip(k) THEN raw[k] ELSE cooked[k]],
                  [k \in Keys |-> IF flip(k) THEN DEBOUNCE ELSE Counted(k, d)],
                  \E k \in Keys : flip(k))
        /\ UNCHANGED pressed

sym_eager_pk(new, d) ==
    LET u == update_debounce_counters(new, d, Keys)
        transfer == Changed(new) \/ u.need
        flip(k) == transfer /\ new[k] # cooked[k] /\ Counted(k, d) = 0
    IN  /\ Finish(d, u, transfer,
                  [k \in Keys |-> IF flip(k) THEN new[k] ELSE cooked[k]],
                  [k \in Keys |-> IF flip(k) THEN DEBOUNCE ELSE Counted(k, d)],
                  \E k \in Keys : flip(k))
        /\ UNCHANGED pressed

\* cooked_changed compares the row with what has just been copied into it.
sym_eager_pr(new, d) ==
    LET u == update_debounce_counters(new, d, Keys)
        transfer == Changed(new) \/ u.need
        copy(k) == /\ transfer /\ Counted(k, d) = 0
                   /\ \E x \in RowKeys(k) : new[x] # cooked[x]
    IN  /\ Finish(d, u, transfer,
                  [k \in Keys |-> IF copy(k) THEN new[k] ELSE cooked[k]],
                  [k \in Keys |-> IF copy(k) THEN DEBOUNCE ELSE Counted(k, d)],
                  FALSE)
        /\ UNCHANGED pressed

asym_eager_defer_pk(new, d) ==
    LET u == update_debounce_counters(new, d, {k \in Keys : pressed[k]})
        transfer == Changed(new) \/ u.need
        start(k) == transfer /\ new[k] # u.cooked[k] /\ Counted(k, d) = 0
        stop(k) == transfer /\ new[k] = u.cooked[k] /\ ~pressed[k]
    IN  /\ Finish(d, u, transfer,
                  [k \in Keys |-> IF start(k) THEN u.cooked[k] \/ new[k] ELSE u.cooked[k]],
                  [k \in Keys |-> IF start(k) THEN DEBOUNCE
                                  ELSE IF stop(k) THEN 0 ELSE Counted(k, d)],
                  u.cooked # cooked \/ \E k \in Keys : start(k) /\ new[k])
        /\ pressed' = [k \in Keys |-> IF start(k) THEN new[k] ELSE pressed[k]]

-----------------------------------------------------------------------------
debounce(new, d) ==
    \/ algorithm = "none" /\ none(new, d)
    \/ algorithm = "sym_defer_g" /\ sym_defer_g(new, d)
    \/ algorithm = "sym_defer_pr" /\ sym_defer_pr(new, d)
    \/ algorithm = "sym_defer_pk" /\ sym_defer_pk(new, d)
    \/ algorithm = "sym_eager_pk" /\ sym_eager_pk(new, d)
    \/ algorithm = "sym_eager_pr" /\ sym_eager_pr(new, d)
    \/ algorithm = "asym_eager_defer_pk" /\ asym_eager_defer_pk(new, d)

\* The longest time from the last change of a raw key to the cooked key following
\* it; older changes are alike.  A release that falls into the lock of an eager press
\* is deferred only once a scan has found the lock expired.
Latency ==
    IF algorithm = "asym_eager_defer_pk" THEN 2 * DEBOUNCE + MaxStep - 1 ELSE DEBOUNCE

\* A scan, d milliseconds after the last one, that reads the raw matrix new.
matrix_scan(new, d) ==
    /\ debounce(new, d)
    /\ raw' = new
    /\ UNCHANGED algorithm
    /\ since' = [k \in Keys |-> IF new[k] # raw[k] THEN 0
                                ELSE Least(since[k] + d, Latency)]
    /\ quiet' = [k \in Keys |-> IF cooked'[k] # cooked[k] THEN 0
                                ELSE Least(quiet[k] + d, DEBOUNCE)]
    /\ gap' = LET soon == {k \in Keys : /\ cooked'[k] # cooked[k]
                                        /\ algorithm # "none"
                                        /\ ~cooked'[k] \/ algorithm # "asym_eager_defer_pk"
                                        /\ quiet[k] + d < gap}
              IN  IF soon = {} THEN gap ELSE quiet[CHOOSE k \in soon : TRUE] + d

Init ==
    /\ algorithm \in ALGORITHMS
    /\ raw = [k \in Keys |-> FALSE] /\ cooked = [k \in Keys |-> FALSE]
    /\ counters = [k \in Keys |-> 0] /\ pressed = [k \in Keys |-> FALSE]
    /\ idle = 0 /\ counters_need_update = FALSE /\ matrix_need_update = FALSE
    /\ returned = FALSE
    /\ since = [k \in Keys |-> Latency] /\ quiet = [k \in Keys |-> DEBOUNCE]
    /\ gap = DEBOUNCE

Next == \E new \in [Keys -> BOOLEAN], d \in 0..MaxStep : matrix_scan(new, d)

Spec == Init /\ [][Next]_vars
-----------------------------------------------------------------------------
(***************************************************************************)
(* Properties.                                                             *)
(***************************************************************************)
\* The types of the variables.
TypeOK ==
    /\ algorithm \in ALGORITHMS
    /\ raw \in [Keys -> BOOLEAN] /\ cooked \in [Keys -> BOOLEAN]
    /\ counters \in [Keys -> 0..DEBOUNCE] /\ pressed \in [Keys -> BOOLEAN]
    /\ idle \in 0..UINT8_MAX
    /\ {counters_need_update, matrix_need_update, returned} \subseteq BOOLEAN
    /\ since \in [Keys -> 0..Latency] /\ quiet \in [Keys -> 0..DEBOUNCE]
    /\ gap \in 0..DEBOUNCE

\* No change is lost: a key that has settled, with the keys it shares a timer with,
\* is reported as it is, however the bounces and the scans fell.
Settles ==
    \A k \in Keys : (\A x \in Unit(k) : since[x] >= Latency) => cooked[k] = raw[k]

\* Deferred reports, of a press and of a release.
Deferred(p) ==
    \/ algorithm \in {"sym_defer_g", "sym_defer_pk", "sym_defer_pr"}
    \/ algorithm = "asym_eager_defer_pk" /\ ~p

Eager(p) ==
    \/ algorithm \in {"sym_eager_pk", "sym_eager_pr"}
    \/ algorithm = "asym_eager_defer_pk" /\ p

\* No chatter: two reports of one key are a debounce time apart (with "none", there
\* is no debounce time).  (After a deferred
\* release, an eager press may follow at once: see gap.)
NoChatter == gap = DEBOUNCE

\* Noise is not reported: a deferred report is of a state that every scan of the
\* debounce time before it has seen.
NoiseResistant ==
    [][\A k \in Keys :
        cooked'[k] # cooked[k] /\ Deferred(cooked'[k]) => since'[k] >= DEBOUNCE]_vars

\* An eager algorithm reports at once: a key that is not reported as it is now has
\* to wait for a report, less than a debounce time old, of a key on its timer.
Prompt ==
    \A k \in Keys : raw[k] # cooked[k] /\ Eager(raw[k]) =>
        \E x \in Unit(k) : quiet[x] < DEBOUNCE

\* "@return true Cooked has new keychanges after debouncing" (debounce.h): true when,
\* and only when, the cooked matrix has changed.  sym_eager_pr compares the rows after
\* it has copied them, and never returns true.
ReturnsChange == [][returned' = (cooked' # cooked)]_vars
=============================================================================
