--------------------------- MODULE DebounceProofs ---------------------------
(***************************************************************************)
(* Proofs about Debounce, for every set of keys, every debounce time that  *)
(* fits a counter and every pace of the scans.                             *)
(*                                                                         *)
(* Each algorithm has an inductive invariant of its own, which relates a   *)
(* key's counter to the ages of its last raw change (since) and of its     *)
(* last report (quiet).  Ticking says that the counters of the per-key     *)
(* and per-row algorithms run exactly as long as they are updated.         *)
(***************************************************************************)
EXTENDS Debounce, TLAPS

Counting == {"sym_defer_pk", "sym_eager_pk", "sym_eager_pr", "asym_eager_defer_pk"}

\* A running counter is updated at every scan.
Ticking ==
    algorithm \in Counting =>
        /\ counters_need_update => idle = 0
        /\ \A k \in Keys : counters[k] # 0 => counters_need_update

NoneInv == algorithm = "none" => \A k \in Keys : raw[k] = cooked[k]

\* While it debounces, all keys have been stable and silent for the time counted, and
\* one key changed exactly then.
DeferGInv ==
    algorithm = "sym_defer_g" =>
        /\ ~counters_need_update => \A k \in Keys : raw[k] = cooked[k]
        /\ counters_need_update =>
              /\ idle < DEBOUNCE
              /\ \A k \in Keys : since[k] >= idle /\ quiet[k] >= idle
              /\ \E k \in Keys : since[k] = idle

\* A row's counter was started by its last raw change, after its last report.
DeferPrInv ==
    algorithm = "sym_defer_pr" =>
        \A k \in Keys :
            /\ \A x \in RowKeys(k) : counters[x] = counters[k]
            /\ raw[k] # cooked[k] => counters[k] # 0
            /\ counters[k] # 0 =>
                  /\ since[k] + counters[k] >= DEBOUNCE
                  /\ quiet[k] + counters[k] >= DEBOUNCE
                  /\ \E x \in RowKeys(k) : since[x] + counters[k] = DEBOUNCE

\* A key's counter runs exactly while the key differs from its report.
DeferPkInv ==
    algorithm = "sym_defer_pk" =>
        \A k \in Keys :
            /\ raw[k] # cooked[k] => counters[k] # 0
            /\ counters[k] # 0 =>
                  /\ raw[k] # cooked[k]
                  /\ since[k] + counters[k] = DEBOUNCE
                  /\ quiet[k] + counters[k] >= DEBOUNCE

\* A counter was started by a report on its timer, and a key that differs from its
\* report has changed after that.
EagerInv ==
    algorithm \in {"sym_eager_pk", "sym_eager_pr"} =>
        \A k \in Keys :
            /\ algorithm = "sym_eager_pr" => \A x \in RowKeys(k) : counters[x] = counters[k]
            /\ raw[k] # cooked[k] => counters[k] # 0 /\ since[k] + counters[k] =< DEBOUNCE
            /\ quiet[k] + counters[k] >= DEBOUNCE
            /\ counters[k] # 0 => \E x \in Unit(k) : quiet[x] + counters[k] = DEBOUNCE

\* A counter runs for a key reported as pressed: after its press (pressed), or until
\* its release is reported (~pressed).
AsymInv ==
    algorithm = "asym_eager_defer_pk" =>
        \A k \in Keys :
            /\ raw[k] # cooked[k] =>
                  /\ counters[k] # 0
                  /\ pressed[k] => since[k] + counters[k] =< DEBOUNCE
                  /\ ~pressed[k] => since[k] + counters[k] =< Latency
            /\ counters[k] # 0 => cooked[k]
            /\ counters[k] # 0 /\ ~pressed[k] =>
                  /\ ~raw[k]
                  /\ since[k] + counters[k] >= DEBOUNCE
                  /\ quiet[k] + counters[k] >= DEBOUNCE

IInv ==
    /\ TypeOK /\ Ticking /\ NoneInv /\ DeferGInv /\ DeferPrInv /\ DeferPkInv
    /\ EagerInv /\ AsymInv /\ NoChatter
-----------------------------------------------------------------------------
(***************************************************************************)
(* Arithmetic of counters and ages.                                        *)
(***************************************************************************)
LEMMA LeastFacts ==
    ASSUME NEW a \in Nat, NEW b \in Nat
    PROVE  /\ Least(a, b) \in Nat /\ Least(a, b) =< a /\ Least(a, b) =< b
           /\ Least(a, b) = a \/ Least(a, b) = b
BY DEF Least

LEMMA CapFacts ==
    ASSUME NEW t \in Nat
    PROVE  /\ Cap(t) \in 0..UINT8_MAX /\ Cap(t) =< t
           /\ Cap(t) < DEBOUNCE => Cap(t) = t
           /\ t > 0 => Cap(t) > 0
           /\ t >= DEBOUNCE => Cap(t) >= DEBOUNCE
BY DebounceAssumption DEF Cap, Least

LEMMA LatencyFacts ==
    /\ Latency \in Nat /\ Latency >= DEBOUNCE
    /\ algorithm # "asym_eager_defer_pk" => Latency = DEBOUNCE
    /\ algorithm = "asym_eager_defer_pk" => Latency = 2 * DEBOUNCE + MaxStep - 1
    /\ algorithm' = algorithm => Latency' = Latency
BY DebounceAssumption DEF Latency

\* What a scan does to the history of a key.
AgeRule(new, d, k) ==
    /\ raw'[k] = new[k]
    /\ new[k] # raw[k] => since'[k] = 0
    /\ new[k] = raw[k] => /\ since'[k] \in {since[k] + d, Latency}
                          /\ since'[k] =< since[k] + d /\ since'[k] =< Latency
    /\ cooked'[k] # cooked[k] => quiet'[k] = 0
    /\ cooked'[k] = cooked[k] => /\ quiet'[k] \in {quiet[k] + d, DEBOUNCE}
                                 /\ quiet'[k] =< quiet[k] + d /\ quiet'[k] =< DEBOUNCE

LEMMA Ages ==
    ASSUME TypeOK, NEW new, NEW d \in 0..MaxStep, matrix_scan(new, d), NEW k \in Keys
    PROVE  AgeRule(new, d, k)
<1>1. since[k] + d \in Nat /\ quiet[k] + d \in Nat /\ DEBOUNCE \in Nat /\ Latency \in Nat
  BY DebounceAssumption, LatencyFacts DEF TypeOK
<1>2. /\ raw'[k] = new[k]
      /\ since'[k] = IF new[k] # raw[k] THEN 0 ELSE Least(since[k] + d, Latency)
      /\ quiet'[k] = IF cooked'[k] # cooked[k] THEN 0 ELSE Least(quiet[k] + d, DEBOUNCE)
  BY DEF matrix_scan
<1> QED
  BY <1>1, <1>2, LeastFacts DEF AgeRule

\* A counter under update_debounce_counters: it expires when at least its value has
\* passed, and otherwise counts the time that has.
CountRule(k, d) ==
    /\ Counted(k, d) \in 0..DEBOUNCE
    /\ Expired(k, d) \in BOOLEAN
    /\ Expired(k, d) => counters[k] # 0 /\ Counted(k, d) = 0 /\ counters[k] =< d
    /\ counters[k] # 0 /\ Counted(k, d) = 0 => Expired(k, d)
    /\ Counted(k, d) # 0 => counters[k] # 0 /\ Counted(k, d) = counters[k] - d
    /\ counters[k] = 0 => Counted(k, d) = 0
    /\ Counted(k, d) # 0 => counters_need_update

LEMMA CountedFacts ==
    ASSUME TypeOK, Ticking, algorithm \in Counting, NEW k \in Keys, NEW d \in 0..MaxStep
    PROVE  CountRule(k, d)
<1>1. /\ counters[k] \in 0..DEBOUNCE /\ idle \in Nat /\ d \in Nat /\ DEBOUNCE \in Nat
      /\ DEBOUNCE =< UINT8_MAX /\ UINT8_MAX \in Nat
  BY DebounceAssumption DEF TypeOK
<1>2. counters[k] # 0 => counters_need_update /\ idle = 0
  BY DEF Ticking
<1>3. /\ Cap(idle + d) \in 0..UINT8_MAX /\ Cap(idle + d) =< idle + d
      /\ (Cap(idle + d) < DEBOUNCE => Cap(idle + d) = idle + d)
      /\ (idle + d > 0 => Cap(idle + d) > 0)
  BY <1>1, CapFacts
<1>4. /\ Least(counters[k], Cap(idle + d)) \in Nat
      /\ Least(counters[k], Cap(idle + d)) =< counters[k]
      /\ Least(counters[k], Cap(idle + d)) =
            IF counters[k] =< Cap(idle + d) THEN counters[k] ELSE Cap(idle + d)
  BY <1>1, <1>3 DEF Least
<1>5. Expired(k, d) \in BOOLEAN
  BY DEF Updating, Expired
<1>6. CASE counters[k] = 0
  BY <1>1, <1>3, <1>4, <1>5, <1>6 DEF Counted, Expired, CountRule
<1>7. CASE counters[k] # 0 /\ d = 0
  <2>1. ~Updating(d)
    BY <1>1, <1>2, <1>3, <1>7 DEF Updating
  <2> QED
    BY <1>1, <1>2, <1>5, <1>7, <2>1 DEF Counted, Expired, CountRule
<1>8. CASE counters[k] # 0 /\ d # 0
  <2>1. Updating(d)
    BY <1>1, <1>2, <1>3, <1>8 DEF Updating
  <2> QED
    BY <1>1, <1>2, <1>3, <1>4, <1>5, <1>8, <2>1 DEF Counted, Expired, CountRule
<1> QED
  BY <1>6, <1>7, <1>8

\* What the end of the algorithms with counters leaves.
LEMMA FinishTicking ==
    ASSUME TypeOK, Ticking, algorithm \in Counting, algorithm' = algorithm,
           NEW d \in 0..MaxStep, NEW u, NEW transfer, NEW cooked2, NEW counters2, NEW ret,
           Finish(d, u, transfer, cooked2, counters2, ret),
           \A k \in Keys : counters2[k] # 0 /\ Counted(k, d) = 0 => transfer
    PROVE  /\ Ticking'
           /\ idle' \in 0..UINT8_MAX
           /\ counters_need_update' \in BOOLEAN
<1>1. \A k \in Keys : Counted(k, d) # 0 => counters_need_update
  BY CountedFacts DEF CountRule
<1>2. counters_need_update' => counters_need_update \/ transfer
  BY <1>1 DEF Finish, Updating
<1>3. counters_need_update' => idle' = 0
  BY <1>2 DEF Finish
<1>4. ASSUME NEW k \in Keys, counters'[k] # 0
      PROVE  counters_need_update'
  <2>1. counters2[k] # 0
    BY <1>4 DEF Finish
  <2>2. CASE Counted(k, d) = 0
    BY <2>1, <2>2 DEF Finish
  <2>3. CASE Counted(k, d) # 0
    BY <1>1, <2>3 DEF Finish
  <2> QED
    BY <2>2, <2>3
<1>5. idle + d \in Nat
  BY DEF TypeOK
<1>6. Cap(idle + d) \in 0..UINT8_MAX /\ 0 \in 0..UINT8_MAX
  BY <1>5, CapFacts, DebounceAssumption
<1>7. idle' \in 0..UINT8_MAX
  BY <1>6 DEF Finish
<1>8. counters_need_update' \in BOOLEAN
  BY DEF Finish
<1> QED
  BY <1>3, <1>4, <1>7, <1>8 DEF Ticking
-----------------------------------------------------------------------------
(***************************************************************************)
(* The types.                                                              *)
(***************************************************************************)
\* What debounce() leaves has the right types.
StepTypes ==
    /\ cooked' \in [Keys -> BOOLEAN] /\ pressed' \in [Keys -> BOOLEAN]
    /\ counters' \in [Keys -> 0..DEBOUNCE] /\ idle' \in 0..UINT8_MAX
    /\ counters_need_update' \in BOOLEAN
    /\ matrix_need_update' \in BOOLEAN /\ returned' \in BOOLEAN

LEMMA TypeParts ==
    ASSUME TypeOK
    PROVE  /\ counters_need_update \in BOOLEAN /\ matrix_need_update \in BOOLEAN
           /\ returned \in BOOLEAN
BY DEF TypeOK

LEMMA ScanTypes ==
    ASSUME TypeOK, NEW new \in [Keys -> BOOLEAN], NEW d \in 0..MaxStep,
           matrix_scan(new, d), StepTypes
    PROVE  TypeOK'
<1>0. Latency \in Nat /\ Latency' = Latency /\ DEBOUNCE \in Nat /\ d \in Nat
  BY LatencyFacts, DebounceAssumption DEF matrix_scan
<1>1. algorithm' \in ALGORITHMS /\ raw' \in [Keys -> BOOLEAN]
  BY DEF matrix_scan, TypeOK
<1>2. since' \in [Keys -> 0..Latency]
  <2>1. \A k \in Keys : Least(since[k] + d, Latency) \in 0..Latency
    BY <1>0 DEF TypeOK, Least
  <2> QED
    BY <1>0, <2>1 DEF matrix_scan
<1>3. quiet' \in [Keys -> 0..DEBOUNCE]
  <2>1. \A k \in Keys : Least(quiet[k] + d, DEBOUNCE) \in 0..DEBOUNCE
    BY <1>0 DEF TypeOK, Least
  <2> QED
    BY <1>0, <2>1 DEF matrix_scan
<1>4. gap' \in 0..DEBOUNCE
  <2> DEFINE soon == {k \in Keys : /\ cooked'[k] # cooked[k]
                                   /\ algorithm # "none"
                                   /\ ~cooked'[k] \/ algorithm # "asym_eager_defer_pk"
                                   /\ quiet[k] + d < gap}
  <2>1. gap' = IF soon = {} THEN gap ELSE quiet[CHOOSE k \in soon : TRUE] + d
    BY DEF matrix_scan
  <2>2. gap \in 0..DEBOUNCE
    BY DEF TypeOK
  <2>3. \A k \in soon : quiet[k] + d \in 0..DEBOUNCE
    BY <1>0 DEF TypeOK
  <2> HIDE DEF soon
  <2> QED
    BY <2>1, <2>2, <2>3
<1>5. {counters_need_update', matrix_need_update', returned'} \subseteq BOOLEAN
  BY DEF StepTypes
<1> QED
  BY <1>0, <1>1, <1>2, <1>3, <1>4, <1>5 DEF TypeOK, StepTypes

\* The algorithms without update_debounce_counters.
LEMMA PlainTypes ==
    ASSUME TypeOK, NEW new \in [Keys -> BOOLEAN], NEW d \in 0..MaxStep,
           none(new, d) \/ sym_defer_g(new, d) \/ sym_defer_pr(new, d)
    PROVE  StepTypes
<1>0. d \in Nat /\ idle \in 0..UINT8_MAX /\ pressed \in [Keys -> BOOLEAN]
      /\ counters \in [Keys -> 0..DEBOUNCE] /\ cooked \in [Keys -> BOOLEAN]
  BY DEF TypeOK
<1>1. CASE none(new, d)
  BY <1>0, <1>1, TypeParts DEF none, StepTypes
<1>2. CASE sym_defer_g(new, d)
  <2> DEFINE age == IF Changed(new) THEN 0 ELSE idle + d
  <2>1. age \in Nat
    BY <1>0, DebounceAssumption
  <2>2. idle' = Cap(age)
    BY <1>2 DEF sym_defer_g
  <2> HIDE DEF age
  <2>3. idle' \in 0..UINT8_MAX
    BY <2>1, <2>2, CapFacts
  <2>4. cooked' \in {new, cooked} /\ returned' \in BOOLEAN /\ counters_need_update' \in BOOLEAN
    BY <1>2 DEF sym_defer_g
  <2> QED
    BY <1>0, <1>2, <2>3, <2>4, TypeParts DEF sym_defer_g, StepTypes
<1>3. CASE sym_defer_pr(new, d)
  <2>1. cooked' \in [Keys -> BOOLEAN] /\ returned' \in BOOLEAN
    BY <1>0, <1>3 DEF sym_defer_pr
  <2>2. \A k \in Keys : counters[k] - Least(counters[k], Cap(d)) \in 0..DEBOUNCE
    BY <1>0, CapFacts, DebounceAssumption DEF Least
  <2>3. counters' \in [Keys -> 0..DEBOUNCE]
    BY <1>3, <2>2, DebounceAssumption DEF sym_defer_pr
  <2> QED
    BY <1>0, <1>3, <2>1, <2>3, TypeParts DEF sym_defer_pr, StepTypes
<1> QED
  BY <1>1, <1>2, <1>3

\* Finish, when what it is given has the right types.
LEMMA FinishTypes ==
    ASSUME TypeOK, NEW d \in 0..MaxStep, NEW u, NEW transfer,
           NEW cooked2 \in [Keys -> BOOLEAN], NEW counters2 \in [Keys -> 0..DEBOUNCE],
           NEW ret \in BOOLEAN, u.need \in BOOLEAN, pressed' \in [Keys -> BOOLEAN],
           Finish(d, u, transfer, cooked2, counters2, ret)
    PROVE  StepTypes
<1>1. idle + d \in Nat
  BY DEF TypeOK
<1>2. Cap(idle + d) \in 0..UINT8_MAX /\ 0 \in 0..UINT8_MAX
  BY <1>1, CapFacts, DebounceAssumption
<1>3. idle' \in 0..UINT8_MAX
  BY <1>2 DEF Finish
<1>4. counters_need_update' \in BOOLEAN
  BY DEF Finish
<1> QED
  BY <1>3, <1>4 DEF Finish, StepTypes

LEMMA UpdateTypes ==
    ASSUME TypeOK, NEW new \in [Keys -> BOOLEAN], NEW d \in 0..MaxStep, NEW eager
    PROVE  LET u == update_debounce_counters(new, d, eager)
           IN  /\ u.cooked \in [Keys -> BOOLEAN]
               /\ u.need \in BOOLEAN
               /\ \A k \in Keys : u.cooked[k] = IF Expired(k, d) /\ k \notin eager
                                                THEN new[k] ELSE cooked[k]
               /\ \A k \in Keys : Expired(k, d) /\ k \in eager => u.need
<1> DEFINE u == update_debounce_counters(new, d, eager)
<1>1. u.cooked = [k \in Keys |-> IF Expired(k, d) /\ k \notin eager THEN new[k] ELSE cooked[k]]
  BY DEF update_debounce_counters
<1>2. u.need = IF Updating(d) THEN \E k \in Keys : Expired(k, d) /\ k \in eager
                              ELSE matrix_need_update
  BY DEF update_debounce_counters
<1> HIDE DEF u
<1>3. u.cooked \in [Keys -> BOOLEAN]
  BY <1>1 DEF TypeOK
<1>4. u.need \in BOOLEAN
  BY <1>2, TypeParts
<1>5. \A k \in Keys : Expired(k, d) /\ k \in eager => u.need
  BY <1>2 DEF Expired
<1>6. \A k \in Keys : u.cooked[k] = IF Expired(k, d) /\ k \notin eager THEN new[k] ELSE cooked[k]
  BY <1>1
<1> QED
  BY <1>3, <1>4, <1>5, <1>6 DEF u
-----------------------------------------------------------------------------
(***************************************************************************)
(* One scan of each algorithm: its invariant, the spacing of its reports   *)
(* and the stability of what a deferred report reports.                    *)
(***************************************************************************)
SpacedStep(d) ==
    \A k \in Keys :
        /\ cooked'[k] # cooked[k] /\ algorithm # "none"
        /\ ~cooked'[k] \/ algorithm # "asym_eager_defer_pk"
        => quiet[k] + d >= DEBOUNCE

StableStep ==
    \A k \in Keys : cooked'[k] # cooked[k] /\ Deferred(cooked'[k]) => since'[k] >= DEBOUNCE

LEMMA TwoStates ==
    ASSUME NEW a \in BOOLEAN, NEW b \in BOOLEAN, NEW c \in BOOLEAN
    PROVE  a = b \/ a = c \/ b = c
OBVIOUS

\* The types of what belongs to a key.
KeyRule(k) ==
    /\ raw[k] \in BOOLEAN /\ cooked[k] \in BOOLEAN /\ pressed[k] \in BOOLEAN
    /\ counters[k] \in 0..DEBOUNCE /\ quiet[k] \in 0..DEBOUNCE
    /\ since[k] \in Nat /\ since[k] =< Latency
    /\ DEBOUNCE \in Nat /\ DEBOUNCE > 0 /\ MaxStep \in Nat

LEMMA KeyTypes ==
    ASSUME TypeOK, NEW k \in Keys
    PROVE  KeyRule(k)
BY DebounceAssumption, LatencyFacts DEF TypeOK, KeyRule

LEMMA DeferPkStep ==
    ASSUME TypeOK, Ticking, DeferPkInv, algorithm = "sym_defer_pk",
           NEW new \in [Keys -> BOOLEAN], NEW d \in 0..MaxStep,
           matrix_scan(new, d), sym_defer_pk(new, d)
    PROVE  StepTypes /\ Ticking' /\ DeferPkInv' /\ SpacedStep(d) /\ StableStep
<1> DEFINE u == update_debounce_counters(new, d, {})
           start(k) == IF new[k] = u.cooked[k] THEN 0
                       ELSE IF Counted(k, d) = 0 THEN DEBOUNCE ELSE Counted(k, d)
           counters2 == [k \in Keys |-> IF Changed(new) THEN start(k) ELSE Counted(k, d)]
<1>1. /\ Finish(d, u, Changed(new), u.cooked, counters2, u.cooked # cooked)
      /\ pressed' = pressed
  BY DEF sym_defer_pk
<1>2. /\ u.cooked \in [Keys -> BOOLEAN] /\ u.need \in BOOLEAN
      /\ \A k \in Keys : u.cooked[k] = IF Expired(k, d) THEN new[k] ELSE cooked[k]
  BY UpdateTypes
<1>3. algorithm \in Counting /\ algorithm' = algorithm
  BY DEF Counting, matrix_scan
<1>4. ASSUME NEW k \in Keys
      PROVE  counters2[k] \in 0..DEBOUNCE
  BY <1>3, CountedFacts, DebounceAssumption DEF CountRule
<1> HIDE DEF u
<1>5. counters2 \in [Keys -> 0..DEBOUNCE] /\ (u.cooked # cooked) \in BOOLEAN
  BY <1>4
<1>6. StepTypes
  <2> HIDE DEF counters2
  <2> QED
    BY <1>1, <1>2, <1>5, FinishTypes DEF TypeOK
<1>7. \A k \in Keys : counters2[k] # 0 /\ Counted(k, d) = 0 => Changed(new)
  OBVIOUS
<1>8. Ticking'
  <2> HIDE DEF counters2
  <2> QED
    BY <1>1, <1>3, <1>7, FinishTicking
<1>9. ASSUME NEW k \in Keys
      PROVE  /\ raw'[k] # cooked'[k] => counters'[k] # 0
             /\ counters'[k] # 0 =>
                  /\ raw'[k] # cooked'[k]
                  /\ since'[k] + counters'[k] = DEBOUNCE
                  /\ quiet'[k] + counters'[k] >= DEBOUNCE
             /\ cooked'[k] # cooked[k] => quiet[k] + d >= DEBOUNCE /\ since'[k] >= DEBOUNCE
  <2>1. /\ cooked'[k] = IF Expired(k, d) THEN new[k] ELSE cooked[k]
        /\ counters'[k] = IF Changed(new)
                          THEN IF new[k] = cooked'[k] THEN 0
                               ELSE IF Counted(k, d) = 0 THEN DEBOUNCE ELSE Counted(k, d)
                          ELSE Counted(k, d)
        /\ ~Changed(new) => new[k] = raw[k]
    BY <1>1, <1>2 DEF Finish, Changed
  <2>2. /\ raw[k] # cooked[k] => counters[k] # 0
        /\ counters[k] # 0 => /\ raw[k] # cooked[k]
                              /\ since[k] + counters[k] = DEBOUNCE
                              /\ quiet[k] + counters[k] >= DEBOUNCE
    BY DEF DeferPkInv
  <2>3. new[k] = raw[k] \/ new[k] = cooked[k] \/ raw[k] = cooked[k]
    <3>1. new[k] \in BOOLEAN /\ raw[k] \in BOOLEAN /\ cooked[k] \in BOOLEAN
      BY KeyTypes DEF KeyRule
    <3> QED
      BY <3>1, TwoStates
  <2>4. KeyRule(k) /\ CountRule(k, d) /\ AgeRule(new, d, k) /\ Latency = DEBOUNCE
    BY <1>3, KeyTypes, CountedFacts, Ages, LatencyFacts
  <2>5. CASE Expired(k, d)
    BY <2>1, <2>2, <2>3, <2>4, <2>5 DEF KeyRule, CountRule, AgeRule
  <2>6. CASE ~Expired(k, d)
    BY <2>1, <2>2, <2>3, <2>4, <2>6 DEF KeyRule, CountRule, AgeRule
  <2> QED
    BY <2>5, <2>6
<1> QED
  BY <1>3, <1>6, <1>8, <1>9 DEF DeferPkInv, SpacedStep, StableStep

\* An eager scan in general: the keys Fired are reported and locked.
LEMMA EagerStep ==
    ASSUME TypeOK, Ticking, EagerInv, algorithm \in {"sym_eager_pk", "sym_eager_pr"},
           NEW new \in [Keys -> BOOLEAN], NEW d \in 0..MaxStep, matrix_scan(new, d),
           NEW Fired \in SUBSET Keys, NEW u, u.need \in BOOLEAN, NEW ret \in BOOLEAN,
           \A k \in Keys : Expired(k, d) => u.need,
           NEW cooked2 \in [Keys -> BOOLEAN], NEW counters2 \in [Keys -> 0..DEBOUNCE],
           \A k \in Keys : /\ cooked2[k] = IF k \in Fired THEN new[k] ELSE cooked[k]
                           /\ counters2[k] = IF k \in Fired THEN DEBOUNCE ELSE Counted(k, d),
           NEW transfer, transfer <=> Changed(new) \/ u.need,
           Finish(d, u, transfer, cooked2, counters2, ret), pressed' = pressed,
           \A k \in Fired : Counted(k, d) = 0 /\ transfer,
           \A k \in Keys : new[k] # cooked[k] /\ Counted(k, d) = 0 /\ transfer => k \in Fired,
           \A k \in Fired : \E x \in Unit(k) : x \in Fired /\ new[x] # cooked[x],
           \A k \in Keys : \A x \in Unit(k) :
                /\ x \in Keys /\ counters[x] = counters[k]
                /\ x \in Fired <=> k \in Fired
    PROVE  StepTypes /\ Ticking' /\ EagerInv' /\ SpacedStep(d) /\ StableStep
<1>1. algorithm \in Counting /\ algorithm' = algorithm
  BY DEF Counting, matrix_scan
<1>2. \A k \in Keys : counters2[k] # 0 /\ Counted(k, d) = 0 => transfer
  OBVIOUS
<1>3. \A k \in Keys : /\ cooked'[k] = IF k \in Fired THEN new[k] ELSE cooked[k]
                      /\ counters'[k] = IF k \in Fired THEN DEBOUNCE ELSE Counted(k, d)
  BY DEF Finish
<1>4. StepTypes
  BY FinishTypes DEF TypeOK
<1>5. Ticking'
  BY <1>1, <1>2, FinishTicking
<1>6. \A k \in Keys : /\ KeyRule(k) /\ CountRule(k, d) /\ AgeRule(new, d, k)
                      /\ Latency = DEBOUNCE
  BY <1>1, KeyTypes, CountedFacts, Ages, LatencyFacts
<1>7. ASSUME NEW k \in Keys
       PROVE  /\ raw'[k] # cooked'[k] =>
                    counters'[k] # 0 /\ since'[k] + counters'[k] =< DEBOUNCE
              /\ quiet'[k] + counters'[k] >= DEBOUNCE
              /\ cooked'[k] # cooked[k] => quiet[k] + d >= DEBOUNCE
  <2>1. /\ raw[k] # cooked[k] => counters[k] # 0 /\ since[k] + counters[k] =< DEBOUNCE
        /\ quiet[k] + counters[k] >= DEBOUNCE
    BY DEF EagerInv
  <2>2. ~Changed(new) => new[k] = raw[k]
    BY DEF Changed
  <2>3. CASE k \in Fired
    BY <1>3, <1>6, <2>1, <2>3 DEF KeyRule, CountRule, AgeRule
  <2>4. CASE k \notin Fired
    <3>1. cooked'[k] = cooked[k] /\ counters'[k] = Counted(k, d)
      BY <1>3, <2>4
    <3>2. new[k] # cooked[k] => Counted(k, d) # 0
      <4>1. CASE counters[k] = 0
        BY <2>1, <2>2, <2>4, <4>1
      <4>2. CASE counters[k] # 0
        BY <1>6, <2>4, <4>2 DEF CountRule
      <4> QED
        BY <4>1, <4>2
    <3> QED
      BY <1>6, <2>1, <3>1, <3>2 DEF KeyRule, CountRule, AgeRule
  <2> QED
    BY <2>3, <2>4
<1>8. ASSUME NEW k \in Keys, counters'[k] # 0
       PROVE  \E x \in Unit(k) : quiet'[x] + counters'[k] = DEBOUNCE
  <2>1. CASE k \in Fired
    <3>1. PICK x \in Unit(k) : x \in Fired /\ new[x] # cooked[x]
      BY <2>1
    <3>2. quiet'[x] = 0
      BY <1>3, <1>6, <3>1 DEF AgeRule
    <3> QED
      BY <1>3, <1>6, <2>1, <3>1, <3>2 DEF KeyRule
  <2>2. CASE k \notin Fired
    <3>1. counters'[k] = Counted(k, d) /\ Counted(k, d) # 0
      BY <1>3, <1>8, <2>2
    <3>2. counters[k] # 0 /\ Counted(k, d) = counters[k] - d
      BY <1>6, <3>1 DEF CountRule
    <3>3. PICK x \in Unit(k) : quiet[x] + counters[k] = DEBOUNCE
      BY <3>2 DEF EagerInv
    <3>4. x \in Keys /\ cooked'[x] = cooked[x]
      BY <1>3, <2>2, <3>3
    <3>5. quiet'[x] + counters'[k] = DEBOUNCE
      BY <1>6, <3>1, <3>2, <3>3, <3>4 DEF KeyRule, CountRule, AgeRule
    <3> QED
      BY <3>3, <3>5
  <2> QED
    BY <2>1, <2>2
<1>9. ASSUME NEW k \in Keys, algorithm = "sym_eager_pr", NEW x \in RowKeys(k)
       PROVE  counters'[x] = counters'[k]
  <2>1. x \in Unit(k)
    BY <1>9 DEF Unit
  <2>2. x \in Keys /\ counters[x] = counters[k] /\ (x \in Fired <=> k \in Fired)
    BY <2>1
  <2>3. Counted(x, d) = Counted(k, d)
    BY <2>2 DEF Counted
  <2> QED
    BY <1>3, <2>2, <2>3
<1>10. \A k : Unit(k)' = Unit(k)
  BY <1>1 DEF Unit, RowKeys
<1>11. EagerInv'
  BY <1>1, <1>7, <1>8, <1>9, <1>10 DEF EagerInv
<1> QED
  BY <1>1, <1>4, <1>5, <1>7, <1>11 DEF SpacedStep, StableStep, Deferred

LEMMA EagerPkStep ==
    ASSUME TypeOK, Ticking, EagerInv, algorithm = "sym_eager_pk",
           NEW new \in [Keys -> BOOLEAN], NEW d \in 0..MaxStep,
           matrix_scan(new, d), sym_eager_pk(new, d)
    PROVE  StepTypes /\ Ticking' /\ EagerInv' /\ SpacedStep(d) /\ StableStep
<1> DEFINE u == update_debounce_counters(new, d, Keys)
           transfer == Changed(new) \/ u.need
           flip(k) == transfer /\ new[k] # cooked[k] /\ Counted(k, d) = 0
           Fired == {k \in Keys : flip(k)}
           cooked2 == [k \in Keys |-> IF flip(k) THEN new[k] ELSE cooked[k]]
           counters2 == [k \in Keys |-> IF flip(k) THEN DEBOUNCE ELSE Counted(k, d)]
           ret == \E k \in Keys : flip(k)
<1>1. \A k \in Keys : Unit(k) = {k}
  BY DEF Unit
<1>2. Finish(d, u, transfer, cooked2, counters2, ret) /\ pressed' = pressed
  BY DEF sym_eager_pk
<1>3. u.need \in BOOLEAN /\ \A k \in Keys : Expired(k, d) => u.need
  BY UpdateTypes
<1> HIDE DEF u
<1>4. cooked2 \in [Keys -> BOOLEAN]
  BY DEF TypeOK
<1>5. counters2 \in [Keys -> 0..DEBOUNCE]
  BY CountedFacts, DebounceAssumption DEF CountRule, Counting
<1>6. /\ transfer <=> Changed(new) \/ u.need
      /\ ret \in BOOLEAN
      /\ Fired \in SUBSET Keys
      /\ \A k \in Keys : /\ cooked2[k] = IF k \in Fired THEN new[k] ELSE cooked[k]
                         /\ counters2[k] = IF k \in Fired THEN DEBOUNCE ELSE Counted(k, d)
      /\ \A k \in Fired : Counted(k, d) = 0 /\ transfer
      /\ \A k \in Keys : new[k] # cooked[k] /\ Counted(k, d) = 0 /\ transfer => k \in Fired
      /\ \A k \in Fired : \E x \in Unit(k) : x \in Fired /\ new[x] # cooked[x]
      /\ \A k \in Keys : \A x \in Unit(k) :
              /\ x \in Keys /\ counters[x] = counters[k]
              /\ x \in Fired <=> k \in Fired
  BY <1>1
<1> HIDE DEF Fired, ret, transfer, cooked2, counters2
<1> QED
  BY <1>2, <1>3, <1>4, <1>5, <1>6, EagerStep

LEMMA EagerPrStep ==
    ASSUME TypeOK, Ticking, EagerInv, algorithm = "sym_eager_pr",
           NEW new \in [Keys -> BOOLEAN], NEW d \in 0..MaxStep,
           matrix_scan(new, d), sym_eager_pr(new, d)
    PROVE  StepTypes /\ Ticking' /\ EagerInv' /\ SpacedStep(d) /\ StableStep
<1> DEFINE u == update_debounce_counters(new, d, Keys)
           transfer == Changed(new) \/ u.need
           copy(k) == /\ transfer /\ Counted(k, d) = 0
                      /\ \E x \in RowKeys(k) : new[x] # cooked[x]
           Fired == {k \in Keys : copy(k)}
           cooked2 == [k \in Keys |-> IF copy(k) THEN new[k] ELSE cooked[k]]
           counters2 == [k \in Keys |-> IF copy(k) THEN DEBOUNCE ELSE Counted(k, d)]
           ret == FALSE
<1>1. \A k \in Keys : Unit(k) = RowKeys(k)
  BY DEF Unit
<1>2. Finish(d, u, transfer, cooked2, counters2, ret) /\ pressed' = pressed
  BY DEF sym_eager_pr
<1>3. u.need \in BOOLEAN /\ \A k \in Keys : Expired(k, d) => u.need
  BY UpdateTypes
<1> HIDE DEF u
<1>4. cooked2 \in [Keys -> BOOLEAN]
  BY DEF TypeOK
<1>5. counters2 \in [Keys -> 0..DEBOUNCE]
  BY CountedFacts, DebounceAssumption DEF CountRule, Counting
<1>6. ASSUME NEW k \in Keys, NEW x \in RowKeys(k)
      PROVE  /\ x \in Keys /\ counters[x] = counters[k]
             /\ Counted(x, d) = Counted(k, d)
             /\ x \in Fired <=> k \in Fired
  <2>1. x \in Keys /\ counters[x] = counters[k] /\ RowKeys(x) = RowKeys(k)
    BY DEF EagerInv, RowKeys
  <2>2. Counted(x, d) = Counted(k, d)
    BY <2>1 DEF Counted
  <2> QED
    BY <2>1, <2>2
<1>7. \A k \in Fired : \E x \in Unit(k) : x \in Fired /\ new[x] # cooked[x]
  BY <1>1, <1>6
<1>8. /\ transfer <=> Changed(new) \/ u.need
      /\ ret \in BOOLEAN
      /\ Fired \in SUBSET Keys
      /\ \A k \in Keys : /\ cooked2[k] = IF k \in Fired THEN new[k] ELSE cooked[k]
                         /\ counters2[k] = IF k \in Fired THEN DEBOUNCE ELSE Counted(k, d)
      /\ \A k \in Fired : Counted(k, d) = 0 /\ transfer
      /\ \A k \in Keys : new[k] # cooked[k] /\ Counted(k, d) = 0 /\ transfer => k \in Fired
  BY DEF RowKeys
<1>9. \A k \in Keys : \A x \in Unit(k) :
            /\ x \in Keys /\ counters[x] = counters[k]
            /\ x \in Fired <=> k \in Fired
  BY <1>1, <1>6
<1> HIDE DEF Fired, ret, transfer, cooked2, counters2
<1> QED
  BY <1>2, <1>3, <1>4, <1>5, <1>7, <1>8, <1>9, EagerStep

LEMMA AsymStep ==
    ASSUME TypeOK, Ticking, AsymInv, algorithm = "asym_eager_defer_pk",
           NEW new \in [Keys -> BOOLEAN], NEW d \in 0..MaxStep,
           matrix_scan(new, d), asym_eager_defer_pk(new, d)
    PROVE  StepTypes /\ Ticking' /\ AsymInv' /\ SpacedStep(d) /\ StableStep
<1> DEFINE u == update_debounce_counters(new, d, {k \in Keys : pressed[k]})
           transfer == Changed(new) \/ u.need
           start(k) == transfer /\ new[k] # u.cooked[k] /\ Counted(k, d) = 0
           stop(k) == transfer /\ new[k] = u.cooked[k] /\ ~pressed[k]
           cooked2 == [k \in Keys |-> IF start(k) THEN u.cooked[k] \/ new[k] ELSE u.cooked[k]]
           counters2 == [k \in Keys |-> IF start(k) THEN DEBOUNCE
                                        ELSE IF stop(k) THEN 0 ELSE Counted(k, d)]
           ret == u.cooked # cooked \/ \E k \in Keys : start(k) /\ new[k]
<1>1. /\ Finish(d, u, transfer, cooked2, counters2, ret)
      /\ pressed' = [k \in Keys |-> IF start(k) THEN new[k] ELSE pressed[k]]
  BY DEF asym_eager_defer_pk
<1>2. /\ u.cooked \in [Keys -> BOOLEAN] /\ u.need \in BOOLEAN
      /\ \A k \in Keys : u.cooked[k] = IF Expired(k, d) /\ ~pressed[k] THEN new[k] ELSE cooked[k]
      /\ \A k \in Keys : Expired(k, d) /\ pressed[k] => u.need
  <2> DEFINE eager == {k \in Keys : pressed[k]}
  <2>1. \A k \in Keys : k \in eager <=> pressed[k]
    OBVIOUS
  <2>2. u = update_debounce_counters(new, d, eager)
    OBVIOUS
  <2> HIDE DEF eager, u
  <2> QED
    BY <2>1, <2>2, UpdateTypes
<1> HIDE DEF u
<1>3. algorithm \in Counting /\ algorithm' = algorithm
  BY DEF Counting, matrix_scan
<1>4. cooked2 \in [Keys -> BOOLEAN] /\ ret \in BOOLEAN
  BY <1>2
<1>5. counters2 \in [Keys -> 0..DEBOUNCE]
  BY <1>3, CountedFacts, DebounceAssumption DEF CountRule
<1>6. pressed' \in [Keys -> BOOLEAN]
  BY <1>1 DEF TypeOK
<1>7. \A k \in Keys : counters2[k] # 0 /\ Counted(k, d) = 0 => transfer
  OBVIOUS
<1>8. \A k \in Keys :
        /\ cooked'[k] = IF start(k) THEN TRUE ELSE u.cooked[k]
        /\ counters'[k] = IF start(k) THEN DEBOUNCE ELSE IF stop(k) THEN 0 ELSE Counted(k, d)
        /\ pressed'[k] = IF start(k) THEN new[k] ELSE pressed[k]
  <2>1. \A k \in Keys : start(k) => (u.cooked[k] \/ new[k]) = TRUE
    BY <1>2
  <2> QED
    BY <1>1, <2>1 DEF Finish
<1>9. StepTypes /\ Ticking'
  <2> HIDE DEF cooked2, counters2, ret, transfer
  <2>1. StepTypes
    BY <1>1, <1>2, <1>4, <1>5, <1>6, FinishTypes
  <2>2. Ticking'
    BY <1>1, <1>3, <1>7, FinishTicking
  <2> QED
    BY <2>1, <2>2
<1>10. ASSUME NEW k \in Keys
       PROVE  /\ raw'[k] # cooked'[k] =>
                    /\ counters'[k] # 0
                    /\ pressed'[k] => since'[k] + counters'[k] =< DEBOUNCE
                    /\ ~pressed'[k] => since'[k] + counters'[k] =< Latency
              /\ counters'[k] # 0 => cooked'[k]
              /\ counters'[k] # 0 /\ ~pressed'[k] =>
                    /\ ~raw'[k]
                    /\ since'[k] + counters'[k] >= DEBOUNCE
                    /\ quiet'[k] + counters'[k] >= DEBOUNCE
              /\ cooked'[k] # cooked[k] /\ ~cooked'[k] =>
                    quiet[k] + d >= DEBOUNCE /\ since'[k] >= DEBOUNCE
  <2>1. /\ raw[k] # cooked[k] =>
              /\ counters[k] # 0
              /\ pressed[k] => since[k] + counters[k] =< DEBOUNCE
              /\ ~pressed[k] => since[k] + counters[k] =< Latency
        /\ counters[k] # 0 => cooked[k]
        /\ counters[k] # 0 /\ ~pressed[k] =>
              /\ ~raw[k]
              /\ since[k] + counters[k] >= DEBOUNCE
              /\ quiet[k] + counters[k] >= DEBOUNCE
    BY DEF AsymInv
  <2>2. /\ KeyRule(k) /\ CountRule(k, d) /\ AgeRule(new, d, k)
        /\ Latency = 2 * DEBOUNCE + MaxStep - 1 /\ new[k] \in BOOLEAN
    BY <1>3, KeyTypes, CountedFacts, Ages, LatencyFacts
  <2>3. /\ ~Changed(new) => new[k] = raw[k]
        /\ u.cooked[k] = IF Expired(k, d) /\ ~pressed[k] THEN new[k] ELSE cooked[k]
        /\ Expired(k, d) /\ pressed[k] => transfer
        /\ new[k] # raw[k] => transfer
    BY <1>2 DEF Changed
  <2>4. CASE start(k)
    <3>1. cooked'[k] = TRUE /\ counters'[k] = DEBOUNCE /\ pressed'[k] = new[k]
      BY <1>8, <2>4
    <3>2. CASE new[k]
      BY <2>2, <3>1, <3>2 DEF KeyRule, AgeRule
    <3>3. CASE ~new[k]
      <4>1. ~raw'[k] /\ cooked[k] = TRUE /\ cooked'[k] = cooked[k]
        BY <2>2, <2>3, <2>4, <3>1, <3>3 DEF AgeRule, KeyRule
      <4>2. since'[k] + DEBOUNCE =< Latency
        <5>1. CASE new[k] # raw[k]
          BY <2>2, <5>1 DEF KeyRule, AgeRule
        <5>2. CASE new[k] = raw[k]
          <6>1. raw[k] # cooked[k]
            BY <3>3, <4>1, <5>2
          <6>2. Expired(k, d) /\ pressed[k]
            BY <2>1, <2>2, <2>3, <2>4, <6>1 DEF CountRule
          <6> QED
            BY <2>1, <2>2, <5>2, <6>1, <6>2 DEF KeyRule, AgeRule, CountRule
        <5> QED
          BY <5>1, <5>2
      <4> QED
        BY <2>2, <3>1, <3>3, <4>1, <4>2 DEF KeyRule, AgeRule
    <3> QED
      BY <3>2, <3>3
  <2>5. CASE ~start(k) /\ stop(k)
    <3>1. cooked'[k] = u.cooked[k] /\ counters'[k] = 0 /\ new[k] = u.cooked[k] /\ ~pressed[k]
      BY <1>8, <2>5
    <3>2. raw'[k] = cooked'[k]
      BY <2>2, <3>1 DEF AgeRule
    <3> QED
      BY <2>1, <2>2, <2>3, <3>1, <3>2 DEF KeyRule, AgeRule, CountRule
  <2>6. CASE ~start(k) /\ ~stop(k)
    <3>1. cooked'[k] = u.cooked[k] /\ counters'[k] = Counted(k, d) /\ pressed'[k] = pressed[k]
      BY <1>8, <2>6
    <3>2. CASE Expired(k, d) /\ ~pressed[k]
      BY <2>1, <2>2, <2>3, <3>1, <3>2 DEF KeyRule, AgeRule, CountRule
    <3>3. CASE ~ (Expired(k, d) /\ ~pressed[k])
      <4>1. cooked'[k] = cooked[k]
        BY <2>3, <3>1, <3>3
      <4>2. new[k] # cooked[k] => Counted(k, d) # 0
        BY <2>1, <2>2, <2>3, <2>6, <3>3 DEF CountRule
      <4>3. Counted(k, d) # 0 /\ ~pressed[k] => ~new[k] /\ new[k] = raw[k]
        BY <2>1, <2>2, <2>3, <2>6 DEF CountRule, KeyRule
      <4>4. Counted(k, d) # 0 => cooked[k] /\ counters[k] # 0 /\ Counted(k, d) = counters[k] - d
        BY <2>1, <2>2 DEF CountRule
      <4>5. raw'[k] # cooked'[k] =>
              /\ counters'[k] # 0
              /\ pressed'[k] => since'[k] + counters'[k] =< DEBOUNCE
              /\ ~pressed'[k] => since'[k] + counters'[k] =< Latency
        BY <2>1, <2>2, <3>1, <4>1, <4>2, <4>3, <4>4 DEF KeyRule, AgeRule
      <4>6. counters'[k] # 0 /\ ~pressed'[k] =>
              /\ ~raw'[k]
              /\ since'[k] + counters'[k] >= DEBOUNCE
              /\ quiet'[k] + counters'[k] >= DEBOUNCE
        <5> SUFFICES ASSUME counters'[k] # 0, ~pressed'[k]
                     PROVE  /\ ~raw'[k]
                            /\ since'[k] + counters'[k] >= DEBOUNCE
                            /\ quiet'[k] + counters'[k] >= DEBOUNCE
          OBVIOUS
        <5>1. /\ counters[k] # 0 /\ ~pressed[k] /\ counters'[k] = counters[k] - d
              /\ ~new[k] /\ new[k] = raw[k]
          BY <3>1, <4>3, <4>4
        <5>2. since[k] + counters[k] >= DEBOUNCE /\ quiet[k] + counters[k] >= DEBOUNCE
          BY <2>1, <5>1
        <5>3. ~raw'[k]
          BY <2>2, <5>1 DEF AgeRule
        <5>4. /\ since'[k] \in {since[k] + d, Latency}
              /\ quiet'[k] \in {quiet[k] + d, DEBOUNCE}
          BY <2>2, <4>1, <5>1 DEF AgeRule
        <5> QED
          BY <2>2, <3>1, <5>1, <5>2, <5>3, <5>4 DEF KeyRule, CountRule
      <4> QED
        BY <3>1, <4>1, <4>4, <4>5, <4>6
    <3> QED
      BY <3>2, <3>3
  <2> QED
    BY <2>4, <2>5, <2>6
<1>11. Latency' = Latency
  BY <1>3, LatencyFacts
<1> QED
  BY <1>3, <1>9, <1>10, <1>11 DEF AsymInv, SpacedStep, StableStep, Deferred

LEMMA DeferPrStep ==
    ASSUME TypeOK, DeferPrInv, algorithm = "sym_defer_pr",
           NEW new \in [Keys -> BOOLEAN], NEW d \in 0..MaxStep,
           matrix_scan(new, d), sym_defer_pr(new, d)
    PROVE  DeferPrInv' /\ SpacedStep(d) /\ StableStep
<1> DEFINE restart(k) == \E x \in RowKeys(k) : new[x] # raw[x]
           push(k) == ~restart(k) /\ counters[k] \in 1..Cap(d)
           left(k) == counters[k] - Least(counters[k], Cap(d))
<1>1. \A k \in Keys :
        /\ cooked'[k] = IF push(k) THEN new[k] ELSE cooked[k]
        /\ counters'[k] = IF restart(k) THEN DEBOUNCE ELSE IF push(k) THEN 0 ELSE left(k)
  BY DEF sym_defer_pr
<1>2. \A k \in Keys : KeyRule(k) /\ AgeRule(new, d, k)
  BY KeyTypes, Ages
<1>3. Latency = DEBOUNCE /\ algorithm' = algorithm /\ d \in Nat
  BY LatencyFacts DEF matrix_scan
<1>4. ASSUME NEW k \in Keys
      PROVE  /\ push(k) => counters[k] # 0 /\ counters[k] =< d
             /\ ~push(k) /\ ~restart(k) => /\ left(k) # 0 => /\ counters[k] # 0
                                                             /\ left(k) = counters[k] - d
                                           /\ left(k) = 0 => counters[k] = 0
  <2>1. Cap(d) \in Nat /\ Cap(d) =< d /\ (Cap(d) < DEBOUNCE => Cap(d) = d)
    BY <1>3, CapFacts, DebounceAssumption
  <2>2. counters[k] \in 0..DEBOUNCE /\ DEBOUNCE \in Nat
    BY <1>2 DEF KeyRule
  <2> QED
    BY <1>3, <2>1, <2>2 DEF Least
<1>5. \A k \in Keys : ~restart(k) => new[k] = raw[k]
  BY DEF RowKeys
<1>6. ASSUME NEW k \in Keys, NEW x \in RowKeys(k)
      PROVE  /\ x \in Keys /\ counters[x] = counters[k] /\ left(x) = left(k)
             /\ restart(x) <=> restart(k)
             /\ push(x) <=> push(k)
  <2>1. x \in Keys /\ counters[x] = counters[k] /\ RowKeys(x) = RowKeys(k)
    BY DEF DeferPrInv, RowKeys
  <2> QED
    BY <2>1
<1>7. \A k \in Keys : \A x \in RowKeys(k) : counters'[x] = counters'[k]
  BY <1>1, <1>6
<1> HIDE DEF restart, push, left
<1>8. ASSUME NEW k \in Keys
      PROVE  /\ raw'[k] # cooked'[k] => counters'[k] # 0
             /\ counters'[k] # 0 =>
                  /\ since'[k] + counters'[k] >= DEBOUNCE
                  /\ quiet'[k] + counters'[k] >= DEBOUNCE
             /\ cooked'[k] # cooked[k] => quiet[k] + d >= DEBOUNCE /\ since'[k] >= DEBOUNCE
  <2>1. /\ raw[k] # cooked[k] => counters[k] # 0
        /\ counters[k] # 0 => /\ since[k] + counters[k] >= DEBOUNCE
                              /\ quiet[k] + counters[k] >= DEBOUNCE
    BY DEF DeferPrInv
  <2>2. CASE restart(k)
    <3>1. ~push(k)
      BY <2>2 DEF push
    <3> QED
      BY <1>1, <1>2, <1>3, <2>2, <3>1 DEF KeyRule, AgeRule
  <2>3. CASE ~restart(k) /\ push(k)
    BY <1>1, <1>2, <1>3, <1>4, <1>5, <2>1, <2>3 DEF KeyRule, AgeRule
  <2>4. CASE ~restart(k) /\ ~push(k)
    <3>1. cooked'[k] = cooked[k] /\ counters'[k] = left(k) /\ new[k] = raw[k] /\ raw'[k] = new[k]
      BY <1>1, <1>2, <1>5, <2>4 DEF AgeRule
    <3>2. /\ left(k) # 0 => counters[k] # 0 /\ left(k) = counters[k] - d
          /\ left(k) = 0 => counters[k] = 0
      BY <1>4, <2>4
    <3>3. raw'[k] # cooked'[k] => counters'[k] # 0
      BY <2>1, <3>1, <3>2
    <3>4. /\ since'[k] \in {since[k] + d, DEBOUNCE}
          /\ quiet'[k] \in {quiet[k] + d, DEBOUNCE}
      BY <1>2, <1>3, <3>1 DEF AgeRule
    <3>5. /\ since[k] \in Nat /\ quiet[k] \in Nat /\ counters[k] \in Nat /\ DEBOUNCE \in Nat
          /\ counters'[k] \in Nat
      BY <1>2, <1>3, <3>1, CapFacts DEF KeyRule, left, Least
    <3>6. counters'[k] # 0 => /\ since'[k] + counters'[k] >= DEBOUNCE
                              /\ quiet'[k] + counters'[k] >= DEBOUNCE
      BY <1>3, <2>1, <3>1, <3>2, <3>4, <3>5
    <3> QED
      BY <3>1, <3>3, <3>6
  <2> QED
    BY <2>2, <2>3, <2>4
<1>9. ASSUME NEW k \in Keys, counters'[k] # 0
      PROVE  \E x \in RowKeys(k) : since'[x] + counters'[k] = DEBOUNCE
  <2>1. CASE restart(k)
    <3>1. PICK x \in RowKeys(k) : new[x] # raw[x]
      BY <2>1 DEF restart
    <3>2. since'[x] = 0 /\ counters'[k] = DEBOUNCE
      BY <1>1, <1>2, <1>6, <2>1, <3>1 DEF AgeRule
    <3> QED
      BY <1>2, <3>2 DEF KeyRule
  <2>2. CASE ~restart(k)
    <3>1. ~push(k) /\ counters'[k] = left(k)
      BY <1>1, <1>9, <2>2
    <3>2. counters[k] # 0 /\ counters'[k] = counters[k] - d
      BY <1>4, <1>9, <2>2, <3>1
    <3>3. PICK x \in RowKeys(k) : since[x] + counters[k] = DEBOUNCE
      BY <3>2 DEF DeferPrInv
    <3>4. x \in Keys /\ new[x] = raw[x]
      BY <1>5, <1>6, <2>2
    <3>5. since'[x] + counters'[k] = DEBOUNCE
      <4>1. since'[x] \in {since[x] + d, DEBOUNCE} /\ since'[x] =< since[x] + d /\ since'[x] =< DEBOUNCE
        BY <1>2, <1>3, <3>4 DEF AgeRule
      <4>2. since[x] \in Nat /\ counters[k] \in Nat /\ DEBOUNCE \in Nat
        BY <1>2, <3>4 DEF KeyRule
      <4>3. counters'[k] \in Nat
        BY <1>1, <1>3, <3>1, <4>2, CapFacts DEF left, Least
      <4>4. since[x] + d < DEBOUNCE
        BY <1>3, <1>9, <3>2, <3>3, <4>2, <4>3
      <4> QED
        BY <1>3, <3>2, <3>3, <4>1, <4>2, <4>4
    <3> QED
      BY <3>5
  <2> QED
    BY <2>1, <2>2
<1>10. \A k : RowKeys(k)' = RowKeys(k)
  BY DEF RowKeys
<1> QED
  BY <1>3, <1>7, <1>8, <1>9, <1>10 DEF DeferPrInv, SpacedStep, StableStep

LEMMA DeferGStep ==
    ASSUME TypeOK, DeferGInv, algorithm = "sym_defer_g",
           NEW new \in [Keys -> BOOLEAN], NEW d \in 0..MaxStep,
           matrix_scan(new, d), sym_defer_g(new, d)
    PROVE  DeferGInv' /\ SpacedStep(d) /\ StableStep
<1> DEFINE debouncing == Changed(new) \/ counters_need_update
           age == IF Changed(new) THEN 0 ELSE idle + d
           push == debouncing /\ age >= DEBOUNCE
<1>1. /\ cooked' = IF push THEN new ELSE cooked
      /\ counters_need_update' = (debouncing /\ ~push)
      /\ idle' = Cap(age)
  BY DEF sym_defer_g
<1>2. \A k \in Keys : KeyRule(k) /\ AgeRule(new, d, k)
  BY KeyTypes, Ages
<1>3. /\ Latency = DEBOUNCE /\ algorithm' = algorithm /\ d \in Nat /\ idle \in Nat
      /\ DEBOUNCE \in Nat /\ DEBOUNCE > 0
  BY LatencyFacts, DebounceAssumption DEF matrix_scan, TypeOK
<1>4. ~Changed(new) => new = raw
  BY DEF Changed
<1>5. CASE Changed(new)
  <2>1. cooked' = cooked /\ counters_need_update' = TRUE /\ idle' = 0
    <3>1. age = 0 /\ ~push
      BY <1>3, <1>5
    <3>2. Cap(0) = 0
      BY DebounceAssumption DEF Cap, Least
    <3> QED
      BY <1>1, <1>5, <3>1, <3>2
  <2>2. \A k \in Keys : since'[k] >= 0 /\ quiet'[k] >= 0
    BY <1>2, <1>3, <2>1 DEF KeyRule, AgeRule
  <2>3. \E k \in Keys : new[k] # raw[k]
    BY <1>5 DEF Changed, TypeOK
  <2>4. \E k \in Keys : since'[k] = 0
    BY <1>2, <2>3 DEF AgeRule
  <2> QED
    BY <1>3, <2>1, <2>2, <2>4 DEF DeferGInv, SpacedStep, StableStep
<1>6. CASE ~Changed(new) /\ ~counters_need_update
  <2>1. cooked' = cooked /\ counters_need_update' = FALSE
    BY <1>1, <1>6
  <2>2. \A k \in Keys : raw'[k] = cooked'[k]
    BY <1>2, <1>4, <1>6, <2>1 DEF DeferGInv, AgeRule
  <2> QED
    BY <2>1, <2>2 DEF DeferGInv, SpacedStep, StableStep
<1>7. CASE ~Changed(new) /\ counters_need_update
  <2>1. /\ idle < DEBOUNCE
        /\ \A k \in Keys : since[k] >= idle /\ quiet[k] >= idle
        /\ \E k \in Keys : since[k] = idle
    BY <1>7 DEF DeferGInv
  <2>2. age = idle + d /\ (push <=> idle + d >= DEBOUNCE)
    BY <1>7
  <2> HIDE DEF debouncing, age, push
  <2>3. CASE idle + d >= DEBOUNCE
    <3>1. cooked' = new /\ counters_need_update' = FALSE
      BY <1>1, <2>2, <2>3
    <3>2. \A k \in Keys : raw'[k] = cooked'[k]
      BY <1>2, <3>1 DEF AgeRule
    <3>3. \A k \in Keys : quiet[k] + d >= DEBOUNCE /\ since'[k] >= DEBOUNCE
      BY <1>2, <1>3, <1>4, <1>7, <2>1, <2>3 DEF KeyRule, AgeRule
    <3> QED
      BY <3>1, <3>2, <3>3 DEF DeferGInv, SpacedStep, StableStep
  <2>4. CASE ~ (idle + d >= DEBOUNCE)
    <3>1. cooked' = cooked /\ counters_need_update' = TRUE
      BY <1>1, <1>7, <2>2, <2>4 DEF debouncing
    <3>2. idle' = idle + d /\ idle' < DEBOUNCE
      BY <1>1, <1>3, <2>2, <2>4, DebounceAssumption DEF Cap, Least
    <3>3. \A k \in Keys : since'[k] >= idle' /\ quiet'[k] >= idle'
      BY <1>2, <1>3, <1>4, <1>7, <2>1, <3>1, <3>2 DEF KeyRule, AgeRule
    <3>4. PICK k \in Keys : since[k] = idle
      BY <2>1
    <3>5. since'[k] = idle'
      BY <1>2, <1>3, <1>4, <1>7, <3>2, <3>4 DEF KeyRule, AgeRule
    <3> QED
      BY <1>3, <3>1, <3>2, <3>3, <3>5 DEF DeferGInv, SpacedStep, StableStep
  <2> QED
    BY <2>3, <2>4
<1> QED
  BY <1>5, <1>6, <1>7

\* Without debouncing, every scan reports the raw matrix.
LEMMA NoneStep ==
    ASSUME TypeOK, algorithm = "none", NEW new \in [Keys -> BOOLEAN], NEW d \in 0..MaxStep,
           matrix_scan(new, d), none(new, d)
    PROVE  NoneInv' /\ SpacedStep(d) /\ StableStep
BY DEF none, matrix_scan, NoneInv, SpacedStep, StableStep, Deferred
-----------------------------------------------------------------------------
(***************************************************************************)
(* The invariant.                                                          *)
(***************************************************************************)
AlgorithmInv ==
    NoneInv /\ DeferGInv /\ DeferPrInv /\ DeferPkInv /\ EagerInv /\ AsymInv

LEMMA InitLemma == Init => IInv
<1> SUFFICES ASSUME Init PROVE IInv
  OBVIOUS
<1>1. Latency \in Nat /\ DEBOUNCE \in Nat /\ UINT8_MAX \in Nat /\ DEBOUNCE > 0
  BY LatencyFacts, DebounceAssumption
<1>2. TypeOK
  <2>1. {counters_need_update, matrix_need_update, returned} \subseteq BOOLEAN
    BY DEF Init
  <2>2. /\ raw \in [Keys -> BOOLEAN] /\ cooked \in [Keys -> BOOLEAN]
        /\ pressed \in [Keys -> BOOLEAN] /\ algorithm \in ALGORITHMS
    BY DEF Init
  <2>3. /\ counters \in [Keys -> 0..DEBOUNCE] /\ since \in [Keys -> 0..Latency]
        /\ quiet \in [Keys -> 0..DEBOUNCE] /\ idle \in 0..UINT8_MAX /\ gap \in 0..DEBOUNCE
    BY <1>1 DEF Init
  <2> QED
    BY <2>1, <2>2, <2>3 DEF TypeOK
<1>3. Ticking /\ NoneInv /\ NoChatter
  BY DEF Init, Ticking, NoneInv, NoChatter
<1>4. DeferGInv /\ DeferPrInv /\ DeferPkInv
  BY DEF Init, DeferGInv, DeferPrInv, DeferPkInv, RowKeys
<1>5. EagerInv /\ AsymInv
  BY <1>1 DEF Init, EagerInv, AsymInv, RowKeys
<1> QED
  BY <1>2, <1>3, <1>4, <1>5 DEF IInv

\* An algorithm's invariant says nothing while another algorithm runs.
LEMMA OtherAlgorithms ==
    /\ algorithm' # "none" => NoneInv'
    /\ algorithm' # "sym_defer_g" => DeferGInv'
    /\ algorithm' # "sym_defer_pr" => DeferPrInv'
    /\ algorithm' # "sym_defer_pk" => DeferPkInv'
    /\ algorithm' \notin {"sym_eager_pk", "sym_eager_pr"} => EagerInv'
    /\ algorithm' # "asym_eager_defer_pk" => AsymInv'
    /\ algorithm' \notin Counting => Ticking'
BY DEF NoneInv, DeferGInv, DeferPrInv, DeferPkInv, EagerInv, AsymInv, Ticking

LEMMA DebounceStep ==
    ASSUME IInv, NEW new \in [Keys -> BOOLEAN], NEW d \in 0..MaxStep, matrix_scan(new, d)
    PROVE  StepTypes /\ Ticking' /\ AlgorithmInv' /\ SpacedStep(d) /\ StableStep
<1>1. /\ TypeOK /\ Ticking /\ DeferGInv /\ DeferPrInv /\ DeferPkInv /\ EagerInv /\ AsymInv
      /\ algorithm' = algorithm /\ debounce(new, d)
  BY DEF IInv, matrix_scan
<1>2. CASE algorithm = "none" /\ none(new, d)
  <2>1. NoneInv' /\ SpacedStep(d) /\ StableStep /\ StepTypes
    BY <1>1, <1>2, NoneStep, PlainTypes
  <2> QED
    BY <1>1, <1>2, <2>1, OtherAlgorithms DEF AlgorithmInv, Counting
<1>3. CASE algorithm = "sym_defer_g" /\ sym_defer_g(new, d)
  <2>1. DeferGInv' /\ SpacedStep(d) /\ StableStep /\ StepTypes
    BY <1>1, <1>3, DeferGStep, PlainTypes
  <2> QED
    BY <1>1, <1>3, <2>1, OtherAlgorithms DEF AlgorithmInv, Counting
<1>4. CASE algorithm = "sym_defer_pr" /\ sym_defer_pr(new, d)
  <2>1. DeferPrInv' /\ SpacedStep(d) /\ StableStep /\ StepTypes
    BY <1>1, <1>4, DeferPrStep, PlainTypes
  <2> QED
    BY <1>1, <1>4, <2>1, OtherAlgorithms DEF AlgorithmInv, Counting
<1>5. CASE algorithm = "sym_defer_pk" /\ sym_defer_pk(new, d)
  <2>1. StepTypes /\ Ticking' /\ DeferPkInv' /\ SpacedStep(d) /\ StableStep
    BY <1>1, <1>5, DeferPkStep
  <2> QED
    BY <1>1, <1>5, <2>1, OtherAlgorithms DEF AlgorithmInv
<1>6. CASE algorithm = "sym_eager_pk" /\ sym_eager_pk(new, d)
  <2>1. StepTypes /\ Ticking' /\ EagerInv' /\ SpacedStep(d) /\ StableStep
    BY <1>1, <1>6, EagerPkStep
  <2> QED
    BY <1>1, <1>6, <2>1, OtherAlgorithms DEF AlgorithmInv
<1>7. CASE algorithm = "sym_eager_pr" /\ sym_eager_pr(new, d)
  <2>1. StepTypes /\ Ticking' /\ EagerInv' /\ SpacedStep(d) /\ StableStep
    BY <1>1, <1>7, EagerPrStep
  <2> QED
    BY <1>1, <1>7, <2>1, OtherAlgorithms DEF AlgorithmInv
<1>8. CASE algorithm = "asym_eager_defer_pk" /\ asym_eager_defer_pk(new, d)
  <2>1. StepTypes /\ Ticking' /\ AsymInv' /\ SpacedStep(d) /\ StableStep
    BY <1>1, <1>8, AsymStep
  <2> QED
    BY <1>1, <1>8, <2>1, OtherAlgorithms DEF AlgorithmInv
<1> QED
  BY <1>1, <1>2, <1>3, <1>4, <1>5, <1>6, <1>7, <1>8 DEF debounce

\* A step whose reports are spaced leaves the shortest gap as it is.
LEMMA GapKept ==
    ASSUME TypeOK, NoChatter, NEW new, NEW d \in 0..MaxStep, matrix_scan(new, d), SpacedStep(d)
    PROVE  NoChatter'
<1> DEFINE soon == {k \in Keys : /\ cooked'[k] # cooked[k]
                                 /\ algorithm # "none"
                                 /\ ~cooked'[k] \/ algorithm # "asym_eager_defer_pk"
                                 /\ quiet[k] + d < gap}
<1>1. gap' = IF soon = {} THEN gap ELSE quiet[CHOOSE k \in soon : TRUE] + d
  BY DEF matrix_scan
<1>2. DEBOUNCE \in Nat /\ d \in Nat /\ \A k \in Keys : quiet[k] \in Nat
  BY DebounceAssumption DEF TypeOK
<1>3. ASSUME NEW k \in soon PROVE FALSE
  <2>1. quiet[k] + d >= DEBOUNCE /\ quiet[k] + d < DEBOUNCE /\ quiet[k] \in Nat
    BY <1>2, <1>3 DEF SpacedStep, NoChatter
  <2> QED
    BY <1>2, <2>1
<1> HIDE DEF soon
<1>4. soon = {}
  BY <1>3
<1> QED
  BY <1>1, <1>4 DEF NoChatter

LEMMA NextLemma == IInv /\ [Next]_vars => IInv'
<1> SUFFICES ASSUME IInv, [Next]_vars PROVE IInv'
  OBVIOUS
<1>1. ASSUME NEW new \in [Keys -> BOOLEAN], NEW d \in 0..MaxStep, matrix_scan(new, d)
      PROVE  IInv'
  <2>1. StepTypes /\ Ticking' /\ AlgorithmInv' /\ SpacedStep(d)
    BY <1>1, DebounceStep
  <2>2. TypeOK /\ NoChatter
    BY DEF IInv
  <2>3. TypeOK'
    BY <1>1, <2>1, <2>2, ScanTypes
  <2>4. NoChatter'
    BY <1>1, <2>1, <2>2, GapKept
  <2> QED
    BY <2>1, <2>3, <2>4 DEF IInv, AlgorithmInv
<1>2. CASE UNCHANGED vars
  <2> USE <1>2 DEF vars
  <2>1. TypeOK' /\ Ticking' /\ NoneInv' /\ NoChatter'
    BY DEF IInv, TypeOK, Latency, Ticking, NoneInv, NoChatter
  <2>2. DeferGInv' /\ DeferPrInv' /\ DeferPkInv'
    BY DEF IInv, DeferGInv, DeferPrInv, DeferPkInv, RowKeys
  <2>3. EagerInv' /\ AsymInv'
    BY DEF IInv, EagerInv, AsymInv, RowKeys, Unit, Latency
  <2> QED
    BY <2>1, <2>2, <2>3 DEF IInv
<1> QED
  BY <1>1, <1>2 DEF Next

LEMMA Invariance == Spec => []IInv
BY InitLemma, NextLemma, PTL DEF Spec
-----------------------------------------------------------------------------
(***************************************************************************)
(* The theorems.                                                           *)
(***************************************************************************)
LEMMA SettlesLemma == IInv => Settles
<1> SUFFICES ASSUME IInv, NEW k \in Keys, \A x \in Unit(k) : since[x] >= Latency
             PROVE  cooked[k] = raw[k]
  BY DEF Settles
<1>1. \A x \in Keys : KeyRule(x)
  BY KeyTypes DEF IInv
<1>2. k \in Unit(k) /\ Unit(k) \subseteq Keys
  BY DEF Unit, RowKeys
<1>3. since[k] >= Latency
  BY <1>2
<1>4. algorithm \in Algorithms
  BY DebounceAssumption DEF IInv, TypeOK
<1>5. CASE algorithm = "none"
  BY <1>5 DEF IInv, NoneInv
<1>6. CASE algorithm = "sym_defer_g"
  <2>1. Unit(k) = Keys /\ Latency = DEBOUNCE
    BY <1>6, LatencyFacts DEF Unit
  <2>2. ~counters_need_update
    <3> SUFFICES ASSUME counters_need_update PROVE FALSE
      OBVIOUS
    <3>1. idle < DEBOUNCE /\ \E x \in Keys : since[x] = idle
      BY <1>6 DEF IInv, DeferGInv
    <3> QED
      BY <1>1, <2>1, <3>1 DEF KeyRule
  <2> QED
    BY <1>6, <2>2 DEF IInv, DeferGInv
<1>7. CASE algorithm = "sym_defer_pr"
  <2>1. Unit(k) = RowKeys(k) /\ Latency = DEBOUNCE
    BY <1>7, LatencyFacts DEF Unit
  <2>2. counters[k] # 0 => \E x \in RowKeys(k) : since[x] + counters[k] = DEBOUNCE
    BY <1>7 DEF IInv, DeferPrInv
  <2>3. counters[k] = 0
    BY <1>1, <1>2, <2>1, <2>2 DEF KeyRule
  <2> QED
    BY <1>7, <2>3 DEF IInv, DeferPrInv
<1>8. CASE algorithm = "sym_defer_pk"
  <2>1. Latency = DEBOUNCE
    BY <1>8, LatencyFacts
  <2>2. counters[k] # 0 => since[k] + counters[k] = DEBOUNCE
    BY <1>8 DEF IInv, DeferPkInv
  <2>3. counters[k] = 0
    BY <1>1, <1>3, <2>1, <2>2 DEF KeyRule
  <2> QED
    BY <1>8, <2>3 DEF IInv, DeferPkInv
<1>9. CASE algorithm \in {"sym_eager_pk", "sym_eager_pr"}
  <2>1. Latency = DEBOUNCE
    BY <1>9, LatencyFacts
  <2>2. raw[k] # cooked[k] => counters[k] # 0 /\ since[k] + counters[k] =< DEBOUNCE
    BY <1>9 DEF IInv, EagerInv
  <2> QED
    BY <1>1, <1>3, <2>1, <2>2 DEF KeyRule
<1>10. CASE algorithm = "asym_eager_defer_pk"
  <2>1. raw[k] # cooked[k] => /\ counters[k] # 0
                              /\ \/ since[k] + counters[k] =< DEBOUNCE
                                 \/ since[k] + counters[k] =< Latency
    BY <1>10 DEF IInv, AsymInv
  <2> QED
    BY <1>1, <1>3, <2>1, LatencyFacts DEF KeyRule
<1> QED
  BY <1>4, <1>5, <1>6, <1>7, <1>8, <1>9, <1>10 DEF Algorithms

LEMMA PromptLemma == IInv => Prompt
<1> SUFFICES ASSUME IInv, NEW k \in Keys, raw[k] # cooked[k], Eager(raw[k])
             PROVE  \E x \in Unit(k) : quiet[x] < DEBOUNCE
  BY DEF Prompt
<1>1. \A x \in Keys : KeyRule(x)
  BY KeyTypes DEF IInv
<1>2. Unit(k) \subseteq Keys
  BY DEF Unit, RowKeys
<1>3. CASE algorithm \in {"sym_eager_pk", "sym_eager_pr"}
  <2>1. counters[k] # 0 /\ \E x \in Unit(k) : quiet[x] + counters[k] = DEBOUNCE
    BY <1>3 DEF IInv, EagerInv
  <2>2. PICK x \in Unit(k) : quiet[x] + counters[k] = DEBOUNCE
    BY <2>1
  <2>3. quiet[x] < DEBOUNCE
    BY <1>1, <1>2, <2>1, <2>2 DEF KeyRule
  <2> QED
    BY <2>3
<1>4. CASE algorithm = "asym_eager_defer_pk" /\ raw[k]
  <2>1. cooked[k]
    BY <1>4 DEF IInv, AsymInv
  <2>2. raw[k] \in BOOLEAN /\ cooked[k] \in BOOLEAN
    BY <1>1 DEF KeyRule
  <2> QED
    BY <1>4, <2>1, <2>2
<1> QED
  BY <1>3, <1>4 DEF Eager

\* The variables of every algorithm keep their types: no counter runs over its byte or
\* past DEBOUNCE (update_debounce_counters, start_debounce_counters).
THEOREM TypeCorrect == Spec => []TypeOK
<1>1. IInv => TypeOK
  BY DEF IInv
<1> QED
  BY <1>1, Invariance, PTL

\* With every algorithm, a key that has settled, with the keys it shares a timer with,
\* is reported as it is: debounce() loses no change, however bounces and scans fall.
THEOREM SettlesHolds == Spec => []Settles
BY Invariance, SettlesLemma, PTL

\* With every algorithm but none, two reports of one key are DEBOUNCE apart.
THEOREM NoChatterHolds == Spec => []NoChatter
<1>1. IInv => NoChatter
  BY DEF IInv
<1> QED
  BY <1>1, Invariance, PTL

\* An eager algorithm reports a change in the scan that sees it, unless a report on the
\* same timer, less than DEBOUNCE old, locks the key.
THEOREM PromptHolds == Spec => []Prompt
BY Invariance, PromptLemma, PTL

\* A deferred report is of a state that every scan of the last DEBOUNCE has seen.
THEOREM NoiseResistantHolds == Spec => NoiseResistant
<1>1. IInv /\ [Next]_vars =>
        [\A k \in Keys :
            cooked'[k] # cooked[k] /\ Deferred(cooked'[k]) => since'[k] >= DEBOUNCE]_vars
  <2> SUFFICES ASSUME IInv, Next PROVE StableStep
    BY DEF StableStep
  <2> QED
    BY DebounceStep DEF Next
<1> QED
  BY <1>1, Invariance, PTL DEF Spec, NoiseResistant
=============================================================================
