------------------------- MODULE DeferredExecProofs -------------------------
(***************************************************************************)
(* Proofs about DeferredExec, for every size of the table, every number of *)
(* tokens and every clock.                                                 *)
(***************************************************************************)
EXTENDS DeferredExec, WellFoundedInduction, FiniteSetTheorems, TLAPS

Less == {p \in Nat \X Nat : p[1] < p[2]}

\* A set of natural numbers that is not empty has a least element, and Min is it.
LEMMA LeastExists ==
    ASSUME NEW S, S \subseteq Nat, S # {}
    PROVE  Min(S) \in S
<1>1. IsWellFoundedOn(Less, Nat)
  BY NatLessThanWellFounded DEF OpToRel, Less
<1>2. PICK x \in S : \A y \in S : ~ (<<y, x>> \in Less)
  BY <1>1, WFMin
<1>3. ASSUME NEW y \in S
      PROVE  x =< y
  <2>1. x \in Nat /\ y \in Nat
    OBVIOUS
  <2>2. ~ (<<y, x>> \in Less)
    BY <1>2
  <2>3. ~ (y < x)
    BY <2>1, <2>2 DEF Less
  <2> QED
    BY <2>1, <2>3
<1>4. \E z \in S : \A y \in S : z =< y
  BY <1>3
<1> QED
  BY <1>4 DEF Min

\* What allocate_token returns fits a token.
LEMMA AllocateType ==
    ASSUME NEW t, NEW c \in 0 .. Tokens - 1
    PROVE  allocate_token(t, c) \in 0 .. Tokens - 1
<1> DEFINE usable == {n \in 1 .. Tokens : token_can_be_used(t, (c + n) % Tokens)}
           n0 == IF usable = {} THEN 1 ELSE Min(usable)
<1>1. usable \subseteq Nat
  BY TokenAssumption
<1>2. n0 \in Nat
  <2>1. CASE usable = {}
    BY <2>1
  <2>2. CASE usable # {}
    <3> HIDE DEF usable
    <3>1. Min(usable) \in usable
      BY <1>1, <2>2, LeastExists
    <3> QED
      BY <1>1, <2>2, <3>1
  <2> QED
    BY <2>1, <2>2
<1>3. allocate_token(t, c) = (c + n0) % Tokens
  BY DEF allocate_token
<1> HIDE DEF usable, n0
<1>4. c + n0 \in Int /\ Tokens \in Nat /\ Tokens > 0
  BY <1>2, TokenAssumption
<1>5. (c + n0) % Tokens \in 0 .. Tokens - 1
  BY <1>4
<1> QED
  BY <1>3, <1>5

\* The least unused executor is an executor, and unused.
LEMMA UnusedMin ==
    ASSUME Unused(table) # {}
    PROVE  Min(Unused(table)) \in Executors /\ table[Min(Unused(table))].token = 0
<1>1. Unused(table) \subseteq Nat
  BY TokenAssumption DEF Unused, Executors
<1>2. Min(Unused(table)) \in Unused(table)
  BY <1>1, LeastExists
<1> QED
  BY <1>2 DEF Unused

\* A time modulo a positive clock is a time.
LEMMA ModType ==
    ASSUME NEW x \in Int, Clock > 0
    PROVE  x % Clock \in 0 .. Clock - 1
BY ClockAssumption

\* The signed difference of two times is a number.
LEMMA DiffType ==
    ASSUME NEW a \in Int, NEW b \in Int, Clock > 0
    PROVE  Diff(a, b) \in Int
<1>1. a - b \in Int
  OBVIOUS
<1>2. (a - b) % Clock \in 0 .. Clock - 1
  BY <1>1, ModType
<1> QED
  BY <1>2, ClockAssumption DEF Diff

(***************************************************************************)
(* The types, in three parts, with what they need to be inductive: a used  *)
(* executor holds a job.                                                   *)
(***************************************************************************)
Entry == [token : 0 .. Tokens - 1, trigger_time : 0 .. Clock - 1, job : 0 .. MaxJobs]

TableType == table \in [Executors -> Entry]

JobsKnown ==
    \A i \in Executors : table[i].job =< made /\ (table[i].token # 0 => table[i].job # 0)

ScalarTypes ==
    /\ current_token \in 0 .. Tokens - 1
    /\ now \in 0 .. Clock - 1 /\ last \in 0 .. Clock - 1
    /\ walk \in 0 .. Slots /\ calling \in 0 .. MaxJobs
    /\ calling # 0 => walk # 0
    /\ made \in 0 .. MaxJobs /\ over \subseteq Jobs
    /\ wait \in [Jobs -> Int] /\ calls \in Nat

Types == TableType /\ JobsKnown /\ ScalarTypes

LEMMA TypesGiveTypeOK == Types => TypeOK
BY DEF Types, TableType, JobsKnown, ScalarTypes, TypeOK, Entry

\* What writing a whole executor does to the table.
LEMMA PutEntry ==
    ASSUME TableType, NEW i \in Executors, NEW e \in Entry, table' = [table EXCEPT ![i] = e]
    PROVE  /\ TableType'
           /\ table'[i] = e
           /\ \A k \in Executors : k # i => table'[k] = table[k]
BY DEF TableType

\* What changing the trigger time of an executor does to the table.
LEMMA Retime ==
    ASSUME TableType, NEW i \in Executors, NEW t \in 0 .. Clock - 1,
           table' = [table EXCEPT ![i].trigger_time = t]
    PROVE  /\ TableType'
           /\ \A k \in Executors : table'[k].token = table[k].token /\ table'[k].job = table[k].job
<1> DEFINE e == [token |-> table[i].token, trigger_time |-> t, job |-> table[i].job]
<1>1. table[i] \in Entry
  BY DEF TableType
<1>2. e \in Entry
  BY <1>1 DEF Entry
<1>3. [table[i] EXCEPT !.trigger_time = t] = e
  BY <1>1 DEF Entry
<1>4. table' = [table EXCEPT ![i] = e]
  BY <1>3
<1>5. e.token = table[i].token /\ e.job = table[i].job
  OBVIOUS
<1> HIDE DEF e
<1>6. /\ TableType'
      /\ table'[i] = e
      /\ \A k \in Executors : k # i => table'[k] = table[k]
  BY <1>2, <1>4, PutEntry
<1> QED
  BY <1>5, <1>6

LEMMA InitTypes ==
    ASSUME Init
    PROVE  Types
BY TokenAssumption, ClockAssumption, BoundAssumption
   DEF Init, Types, TableType, JobsKnown, ScalarTypes, Entry, Free, Executors, Jobs

LEMMA FreeType ==
    ASSUME Clock > 0
    PROVE  Free \in Entry /\ Free.token = 0 /\ Free.job = 0
BY TokenAssumption, ClockAssumption, BoundAssumption DEF Free, Entry

\* A callback is called from an executor.
LEMMA CallingAt ==
    ASSUME Types, calling # 0
    PROVE  walk \in Executors /\ calling \in Jobs
BY TokenAssumption, BoundAssumption DEF Types, ScalarTypes, Executors, Jobs

\* Extending a job and repeating it leave every token and every job in place.
LEMMA ExtendKeeps ==
    ASSUME Types, NEW i \in Executors, NEW d \in Delays, extend_deferred_exec(i, d)
    PROVE  /\ TableType'
           /\ \A k \in Executors : table'[k].token = table[k].token /\ table'[k].job = table[k].job
<1> DEFINE t == (now + d) % Clock
<1>1. now + d \in Int /\ Clock > 0
  BY ClockAssumption DEF Types, ScalarTypes
<1>2. t \in 0 .. Clock - 1
  BY <1>1, ModType
<1>3. table' = [table EXCEPT ![i].trigger_time = t]
  BY DEF extend_deferred_exec
<1> HIDE DEF t
<1> QED
  BY <1>2, <1>3, Retime DEF Types

LEMMA RepeatKeeps ==
    ASSUME Types, NEW d \in Delays, Repeat(d)
    PROVE  /\ TableType'
           /\ \A k \in Executors : table'[k].token = table[k].token /\ table'[k].job = table[k].job
<1> DEFINE t == (table[walk].trigger_time + d) % Clock
<1>1. walk \in Executors
  BY CallingAt DEF Repeat
<1>2. table[walk].trigger_time + d \in Int /\ Clock > 0
  BY <1>1, ClockAssumption DEF Types, ScalarTypes, TableType, Entry
<1>3. t \in 0 .. Clock - 1
  BY <1>2, ModType
<1>4. table' = [table EXCEPT ![walk].trigger_time = t]
  BY DEF Repeat
<1> HIDE DEF t
<1> QED
  BY <1>1, <1>3, <1>4, Retime DEF Types

\* defer_exec has found a token that no executor has.
Accepted == token_can_be_used(table, allocate_token(table, current_token))

\* The step stores a new job in the unused executor i.
Deferred(i) ==
    /\ table[i].token = 0
    /\ TableType'
    /\ table'[i].token = current_token'
    /\ table'[i].job = made + 1
    /\ \A k \in Executors : k # i => table'[k] = table[k]
    /\ made' = made + 1
    /\ token_can_be_used(table, current_token')

LEMMA DeferPuts ==
    ASSUME Types, NEW d \in Delays, defer_exec(d), Accepted
    PROVE  \E i \in Executors : Deferred(i)
<1> DEFINE token == allocate_token(table, current_token)
           t == (now + d) % Clock
           i == Min(Unused(table))
           e == [token |-> token, job |-> made + 1, trigger_time |-> t]
<1>1. i \in Executors /\ table[i].token = 0
  BY UnusedMin DEF defer_exec
<1>2. token \in 0 .. Tokens - 1
  BY AllocateType DEF Types, ScalarTypes
<1>3. t \in 0 .. Clock - 1
  <2>1. now + d \in Int /\ Clock > 0
    BY ClockAssumption DEF Types, ScalarTypes
  <2> QED
    BY <2>1, ModType
<1>4. table' = [table EXCEPT ![i] = e] /\ made' = made + 1 /\ current_token' = token
  BY DEF defer_exec, Accepted
<1>5. made + 1 \in 0 .. MaxJobs
  BY BoundAssumption DEF defer_exec, Types, ScalarTypes
<1>6. token_can_be_used(table, token)
  BY DEF Accepted
<1> HIDE DEF token, t, i
<1>7. e \in Entry /\ e.token = token /\ e.job = made + 1
  BY <1>2, <1>3, <1>5 DEF Entry
<1> HIDE DEF e
<1>8. /\ TableType'
      /\ table'[i] = e
      /\ \A k \in Executors : k # i => table'[k] = table[k]
  BY <1>1, <1>4, <1>7, PutEntry DEF Types
<1>9. Deferred(i)
  BY <1>1, <1>4, <1>6, <1>7, <1>8 DEF Deferred
<1> QED
  BY <1>1, <1>9

LEMMA NextTypes ==
    ASSUME Types, Next
    PROVE  Types'
<1>0. Clock > 0 /\ Clock \in Nat
  BY ClockAssumption DEF Types, ScalarTypes
<1>a. TableType /\ JobsKnown /\ ScalarTypes
  BY DEF Types
<1>b. \A d \in Delays : d \in Nat /\ d \in Int
  BY ClockAssumption
<1>1. ASSUME NEW d \in Delays, defer_exec(d)
      PROVE  Types'
  <2>1. made < MaxJobs /\ UNCHANGED <<now, last, walk, calling, over, calls>>
    BY <1>1 DEF defer_exec
  <2>2. current_token' \in 0 .. Tokens - 1
    BY <1>1, <1>a, AllocateType DEF defer_exec, ScalarTypes
  <2>3. wait' \in [Jobs -> Int]
    BY <1>1, <1>a, <1>b DEF defer_exec, ScalarTypes
  <2>4. CASE ~Accepted
    <3>1. UNCHANGED <<table, made>>
      BY <1>1, <2>4 DEF defer_exec, Accepted
    <3> QED
      BY <1>a, <2>1, <2>2, <2>3, <3>1 DEF Types, TableType, JobsKnown, ScalarTypes
  <2>5. CASE Accepted
    <3>1. PICK i \in Executors : Deferred(i)
      BY <1>1, <2>5, DeferPuts
    <3>2. ScalarTypes'
      BY <1>a, <2>1, <2>2, <2>3, <3>1, BoundAssumption DEF ScalarTypes, Deferred
    <3>3. \A k \in Executors : table[k].job \in Nat
      BY <1>a, BoundAssumption DEF TableType, Entry
    <3>4. made \in Nat
      BY <1>a DEF ScalarTypes
    <3>5. JobsKnown'
      BY <1>a, <3>1, <3>3, <3>4 DEF JobsKnown, Deferred
    <3> QED
      BY <3>1, <3>2, <3>5 DEF Types, Deferred
  <2> QED
    BY <2>4, <2>5
<1>2. ASSUME NEW d \in Delays, Repeat(d)
      PROVE  Types'
  <2>1. walk \in Executors /\ calling # 0
    BY <1>2, CallingAt DEF Repeat
  <2>2. walk' \in 0 .. Slots
    BY <1>2, <2>1, TokenAssumption DEF Repeat, Advance, Executors
  <2>3. /\ calls' = calls + 1
        /\ wait' = IF table[walk].job # calling THEN wait ELSE [wait EXCEPT ![calling] = @ + d]
        /\ calling' = 0
        /\ UNCHANGED <<current_token, now, last, made, over>>
    BY <1>2 DEF Repeat
  <2>4. wait' \in [Jobs -> Int]
    <3>1. \A j \in Jobs : wait[j] + d \in Int
      BY <1>a, <1>b DEF ScalarTypes
    <3> QED
      BY <1>a, <2>3, <3>1 DEF ScalarTypes
  <2>5. ScalarTypes'
    BY <1>a, <2>2, <2>3, <2>4, BoundAssumption DEF ScalarTypes
  <2>6. TableType' /\ JobsKnown'
    BY <1>2, <1>a, <2>3, RepeatKeeps DEF JobsKnown
  <2> QED
    BY <2>5, <2>6 DEF Types
<1>3. ASSUME NEW i \in Executors, NEW d \in Delays, extend_deferred_exec(i, d)
      PROVE  Types'
  <2>1. /\ calls' = calls + 1
        /\ wait' = [wait EXCEPT ![table[i].job] = d]
        /\ UNCHANGED <<current_token, now, last, walk, calling, made, over>>
    BY <1>3 DEF extend_deferred_exec
  <2>2. TableType' /\ JobsKnown'
    BY <1>3, <1>a, <2>1, ExtendKeeps DEF JobsKnown
  <2>3. wait' \in [Jobs -> Int]
    BY <1>a, <1>b, <2>1 DEF ScalarTypes
  <2>4. ScalarTypes'
    BY <1>a, <2>1, <2>3 DEF ScalarTypes
  <2> QED
    BY <2>2, <2>4 DEF Types
<1>4. ASSUME NEW i \in Executors, cancel_deferred_exec(i)
      PROVE  Types'
  <2>1. /\ table' = [table EXCEPT ![i] = Free]
        /\ over' = over \union {table[i].job}
        /\ table[i].token # 0
        /\ wait' = [wait EXCEPT ![table[i].job] = 0]
        /\ UNCHANGED <<current_token, now, last, walk, calling, made, calls>>
    BY <1>4 DEF cancel_deferred_exec
  <2>2. table[i].job \in Jobs
    BY <1>a, <2>1, BoundAssumption DEF TableType, Entry, JobsKnown, Jobs
  <2>3. ScalarTypes'
    BY <1>a, <2>1, <2>2 DEF ScalarTypes
  <2>4. /\ TableType'
        /\ table'[i] = Free
        /\ \A k \in Executors : k # i => table'[k] = table[k]
    BY <1>0, <1>a, <2>1, FreeType, PutEntry
  <2>5. JobsKnown'
    BY <1>0, <1>a, <2>1, <2>4, FreeType DEF JobsKnown, ScalarTypes
  <2> QED
    BY <2>3, <2>4, <2>5 DEF Types
<1>5. ASSUME Start
      PROVE  Types'
  BY <1>5, <1>a, TokenAssumption DEF Start, Types, TableType, JobsKnown, ScalarTypes
<1>6. ASSUME Skip
      PROVE  Types'
  <2>1. walk' \in 0 .. Slots
    BY <1>6, <1>a, TokenAssumption DEF Skip, Advance, ScalarTypes
  <2> QED
    BY <1>6, <1>a, <2>1 DEF Skip, Types, TableType, JobsKnown, ScalarTypes
<1>7. ASSUME Call
      PROVE  Types'
  <2>1. walk \in Executors
    BY <1>7, <1>a, TokenAssumption DEF Call, ScalarTypes, Executors
  <2>2. table[walk].job \in 0 .. MaxJobs
    BY <1>a, <2>1 DEF TableType, Entry
  <2> QED
    BY <1>7, <1>a, <2>2 DEF Call, Types, TableType, JobsKnown, ScalarTypes
<1>8. ASSUME Return
      PROVE  Types'
  <2>1. walk' \in 0 .. Slots /\ walk \in Executors /\ calling \in Jobs
    BY <1>8, <1>a, TokenAssumption, BoundAssumption
       DEF Return, Advance, ScalarTypes, Executors, Jobs
  <2>2. /\ table' = [table EXCEPT ![walk] = Free]
        /\ over' = over \union {calling}
        /\ wait' = [wait EXCEPT ![calling] = 0]
        /\ calling' = 0
        /\ UNCHANGED <<current_token, now, last, made, calls>>
    BY <1>8 DEF Return
  <2>3. ScalarTypes'
    BY <1>a, <2>1, <2>2, BoundAssumption DEF ScalarTypes
  <2>4. /\ TableType'
        /\ table'[walk] = Free
        /\ \A k \in Executors : k # walk => table'[k] = table[k]
    BY <1>0, <1>a, <2>1, <2>2, FreeType, PutEntry
  <2>5. JobsKnown'
    BY <1>0, <1>a, <2>1, <2>2, <2>4, FreeType DEF JobsKnown, ScalarTypes
  <2> QED
    BY <2>3, <2>4, <2>5 DEF Types
<1>9. ASSUME Tick
      PROVE  Types'
  <2>1. now' \in 0 .. Clock - 1
    <3>1. now + 1 \in Int
      BY <1>a DEF ScalarTypes
    <3> QED
      BY <1>0, <1>9, <3>1, ModType DEF Tick
  <2>2. wait' \in [Jobs -> Int]
    BY <1>9, <1>a DEF Tick, ScalarTypes
  <2> QED
    BY <1>9, <1>a, <2>1, <2>2 DEF Tick, Types, TableType, JobsKnown, ScalarTypes
<1> QED
  BY <1>1, <1>2, <1>3, <1>4, <1>5, <1>6, <1>7, <1>8, <1>9 DEF Next, Task

LEMMA StutterTypes ==
    ASSUME Types, UNCHANGED vars
    PROVE  Types'
BY DEF Types, TableType, JobsKnown, ScalarTypes, vars

\* The types hold of every state the table and its task can reach, for every
\* size of the table, width of the tokens and period of the clock.
THEOREM TypeCorrect == Spec => []TypeOK
<1>1. Init => Types
  BY InitTypes
<1>2. Types /\ [Next]_vars => Types'
  BY NextTypes, StutterTypes
<1> QED
  BY <1>1, <1>2, TypesGiveTypeOK, PTL DEF Spec

(***************************************************************************)
(* Tokens.  A new token is looked up in the table before it is stored, and *)
(* nothing else writes one.                                                *)
(***************************************************************************)
LEMMA NextTokensUnique ==
    ASSUME Types, TokensUnique, Next
    PROVE  TokensUnique'
<1>a. TableType /\ Clock > 0
  BY ClockAssumption DEF Types, ScalarTypes
<1>1. ASSUME NEW d \in Delays, defer_exec(d)
      PROVE  TokensUnique'
  <2>1. CASE Accepted
    <3>1. PICK i \in Executors : Deferred(i)
      BY <1>1, <2>1, DeferPuts
    <3> QED
      BY <3>1 DEF TokensUnique, Deferred, token_can_be_used
  <2>2. CASE ~Accepted
    BY <1>1, <2>2 DEF defer_exec, Accepted, TokensUnique
  <2> QED
    BY <2>1, <2>2
<1>2. ASSUME NEW i \in Executors, table' = [table EXCEPT ![i] = Free]
      PROVE  TokensUnique'
  <2>1. table'[i].token = 0 /\ \A k \in Executors : k # i => table'[k] = table[k]
    BY <1>2, <1>a, FreeType, PutEntry
  <2> QED
    BY <2>1 DEF TokensUnique
<1>3. ASSUME \A k \in Executors : table'[k].token = table[k].token
      PROVE  TokensUnique'
  BY <1>3 DEF TokensUnique
<1>4. ASSUME NEW d \in Delays, Repeat(d)
      PROVE  TokensUnique'
  BY <1>3, <1>4, RepeatKeeps
<1>5. ASSUME NEW i \in Executors, NEW d \in Delays, extend_deferred_exec(i, d)
      PROVE  TokensUnique'
  BY <1>3, <1>5, ExtendKeeps
<1>6. ASSUME NEW i \in Executors, cancel_deferred_exec(i)
      PROVE  TokensUnique'
  BY <1>2, <1>6 DEF cancel_deferred_exec
<1>7. ASSUME Return
      PROVE  TokensUnique'
  BY <1>2, <1>7, CallingAt DEF Return
<1>8. ASSUME Start \/ Skip \/ Call \/ Tick
      PROVE  TokensUnique'
  BY <1>8 DEF Start, Skip, Call, Tick, TokensUnique
<1> QED
  BY <1>1, <1>4, <1>5, <1>6, <1>7, <1>8 DEF Next, Task

\* No two executors ever share a token: what cancel and extend find by token is
\* the job the token was handed out for, or nothing, as long as it is pending.
THEOREM TokensUniqueAlways == Spec => []TokensUnique
<1>1. Init => Types /\ TokensUnique
  BY InitTypes DEF Init, TokensUnique, Free
<1>2. (Types /\ TokensUnique) /\ [Next]_vars => (Types /\ TokensUnique)'
  <2>1. ASSUME Types, TokensUnique, UNCHANGED vars
        PROVE  TokensUnique'
    BY <2>1 DEF TokensUnique, vars
  <2> QED
    BY <2>1, NextTypes, StutterTypes, NextTokensUnique
<1> QED
  BY <1>1, <1>2, PTL DEF Spec

(***************************************************************************)
(* Jobs.  NotForgotten counts executors; the inductive invariant says where*)
(* a job is: a used executor holds a job that is not over and that no      *)
(* other one holds, a pending job has an executor, and the callback that   *)
(* runs sits in the executor the task is at, unless it cancelled itself    *)
(* and left that executor free.                                            *)
(***************************************************************************)
Holds(i, j) == table[i].token # 0 /\ table[i].job = j

Pending == 1 .. made \ over

JobsPlaced ==
    /\ \A i \in Executors : table[i].token # 0 => table[i].job \in Pending
    /\ \A i, k \in Executors :
           i # k /\ table[i].token # 0 /\ table[k].token # 0 => table[i].job # table[k].job
    /\ \A j \in Pending : \E i \in Executors : Holds(i, j)
    /\ calling # 0 => \/ Holds(walk, calling)
                      \/ calling \in over /\ table[walk].token = 0
    /\ over \subseteq 1 .. made

LEMMA PlacedMeansNotForgotten ==
    ASSUME Types, JobsPlaced
    PROVE  NotForgotten
<1> SUFFICES ASSUME NEW j \in Pending
             PROVE  Cardinality({i \in Executors : table[i].token # 0 /\ table[i].job = j}) = 1
  BY DEF NotForgotten, Pending
<1>1. PICK i0 \in Executors : Holds(i0, j)
  BY DEF JobsPlaced
<1>2. {i \in Executors : table[i].token # 0 /\ table[i].job = j} = {i0}
  BY <1>1 DEF JobsPlaced, Holds
<1> QED
  BY <1>2, FS_Singleton

LEMMA InitPlaced ==
    ASSUME Init
    PROVE  JobsPlaced
<1>1. Pending = {}
  BY DEF Init, Pending
<1> QED
  BY <1>1 DEF Init, JobsPlaced, Free

\* Freeing the executor i and declaring over the job that was in it.
LEMMA FreeKeepsPlaced ==
    ASSUME Types, JobsPlaced, NEW i \in Executors, NEW j,
           table' = [table EXCEPT ![i] = Free], over' = over \union {j}, made' = made,
           \/ Holds(i, j)
           \/ j \in over /\ table[i].token = 0
    PROVE  /\ \A k \in Executors : table'[k].token # 0 => table'[k].job \in Pending'
           /\ \A h, k \in Executors :
                  h # k /\ table'[h].token # 0 /\ table'[k].token # 0
                  => table'[h].job # table'[k].job
           /\ \A n \in Pending' : \E k \in Executors : Holds(k, n)'
           /\ table'[i].token = 0
           /\ over' \subseteq 1 .. made'
<1>0. j \in 1 .. made
  BY DEF JobsPlaced, Holds, Pending
<1>1. /\ table'[i].token = 0
      /\ \A k \in Executors : k # i => table'[k] = table[k]
  <2>1. Clock > 0
    BY ClockAssumption DEF Types, ScalarTypes
  <2> QED
    BY <2>1, FreeType, PutEntry DEF Types
<1>2. Pending' = Pending \ {j}
  BY DEF Pending
<1>3. ASSUME NEW k \in Executors, table'[k].token # 0
      PROVE  k # i /\ table'[k] = table[k] /\ table'[k].job \in Pending'
  <2>1. k # i /\ table'[k] = table[k]
    BY <1>1, <1>3
  <2>2. table[k].job \in Pending
    BY <1>3, <2>1 DEF JobsPlaced
  <2>3. table[k].job # j
    BY <1>3, <2>1, <2>2 DEF JobsPlaced, Holds, Pending
  <2> QED
    BY <1>2, <2>1, <2>2, <2>3
<1>4. ASSUME NEW n \in Pending'
      PROVE  \E k \in Executors : Holds(k, n)'
  <2>1. n \in Pending /\ n # j
    BY <1>2
  <2>2. PICK k \in Executors : Holds(k, n)
    BY <2>1 DEF JobsPlaced
  <2>3. k # i
    BY <2>1, <2>2 DEF Holds
  <2> QED
    BY <1>1, <2>2, <2>3 DEF Holds
<1>5. ASSUME NEW h \in Executors, NEW k \in Executors,
             h # k, table'[h].token # 0, table'[k].token # 0
      PROVE  table'[h].job # table'[k].job
  BY <1>3, <1>5 DEF JobsPlaced
<1>6. over' \subseteq 1 .. made'
  BY <1>0 DEF JobsPlaced
<1> QED
  BY <1>1, <1>3, <1>4, <1>5, <1>6

LEMMA KeepsPlaced ==
    ASSUME JobsPlaced, UNCHANGED <<made, over>>,
           \A k \in Executors : table'[k].token = table[k].token /\ table'[k].job = table[k].job,
           calling' = 0 \/ (UNCHANGED <<calling, walk>> /\ (calling # 0 => walk \in Executors))
    PROVE  JobsPlaced'
<1>1. Pending' = Pending
  BY DEF Pending
<1>2. \A j : \A k \in Executors : Holds(k, j)' <=> Holds(k, j)
  BY DEF Holds
<1>3. calling' # 0 => \/ Holds(walk, calling)'
                      \/ (calling \in over /\ table[walk].token = 0)'
  BY <1>2 DEF JobsPlaced
<1> QED
  BY <1>1, <1>2, <1>3 DEF JobsPlaced

LEMMA NextPlaced ==
    ASSUME ~Rush, Types, JobsPlaced, Next
    PROVE  JobsPlaced'
<1>1. ASSUME NEW d \in Delays, defer_exec(d)
      PROVE  JobsPlaced'
  <2>1. CASE ~Accepted
    <3>1. UNCHANGED <<table, made, over, calling, walk>>
      BY <1>1, <2>1 DEF defer_exec, Accepted
    <3> QED
      BY <3>1, KeepsPlaced, CallingAt
  <2>2. CASE Accepted
    <3>1. PICK i \in Executors : Deferred(i)
      BY <1>1, <2>2, DeferPuts
    <3>2. UNCHANGED <<over, calling, walk>> /\ (calling # 0 => calling \notin over)
      BY <1>1 DEF defer_exec
    <3>3. made \in Nat /\ made' = made + 1
      BY <3>1 DEF Types, ScalarTypes, Deferred
    <3>4. made + 1 \notin over
      BY <3>3 DEF JobsPlaced
    <3>5. Pending' = Pending \union {made + 1} /\ made + 1 \notin Pending
      BY <3>2, <3>3, <3>4 DEF Pending
    <3>6. table'[i].token # 0
      BY <3>1 DEF Deferred, token_can_be_used
    <3>7. calling # 0 => walk # i
      BY <3>1, <3>2 DEF JobsPlaced, Holds, Deferred
    <3>8. over' \subseteq 1 .. made'
      BY <3>2, <3>3 DEF JobsPlaced
    <3>9. \A j \in Pending' : \E k \in Executors : Holds(k, j)'
      BY <3>1, <3>5, <3>6 DEF JobsPlaced, Holds, Deferred
    <3>10. calling' # 0 => Holds(walk, calling)'
      BY <3>1, <3>2, <3>7, CallingAt DEF JobsPlaced, Holds, Deferred
    <3>11. /\ \A k \in Executors : table'[k].token # 0 => table'[k].job \in Pending'
           /\ \A h, k \in Executors :
                  h # k /\ table'[h].token # 0 /\ table'[k].token # 0
                  => table'[h].job # table'[k].job
      BY <3>1, <3>5 DEF JobsPlaced, Deferred
    <3> QED
      BY <3>8, <3>9, <3>10, <3>11 DEF JobsPlaced
  <2> QED
    BY <2>1, <2>2
<1>2. ASSUME NEW d \in Delays, Repeat(d)
      PROVE  JobsPlaced'
  BY <1>2, RepeatKeeps, KeepsPlaced DEF Repeat
<1>3. ASSUME NEW i \in Executors, NEW d \in Delays, extend_deferred_exec(i, d)
      PROVE  JobsPlaced'
  BY <1>3, ExtendKeeps, KeepsPlaced, CallingAt DEF extend_deferred_exec
<1>4. ASSUME NEW i \in Executors, cancel_deferred_exec(i)
      PROVE  JobsPlaced'
  <2> DEFINE j == table[i].job
  <2>1. /\ table' = [table EXCEPT ![i] = Free] /\ over' = over \union {j} /\ made' = made
        /\ Holds(i, j)
        /\ UNCHANGED <<walk, calling>>
    BY <1>4 DEF cancel_deferred_exec, Holds
  <2> HIDE DEF j
  <2>2. /\ \A k \in Executors : table'[k].token # 0 => table'[k].job \in Pending'
        /\ \A h, k \in Executors :
               h # k /\ table'[h].token # 0 /\ table'[k].token # 0
               => table'[h].job # table'[k].job
        /\ \A n \in Pending' : \E k \in Executors : Holds(k, n)'
        /\ table'[i].token = 0
        /\ over' \subseteq 1 .. made'
    BY <2>1, FreeKeepsPlaced
  <2>3. calling' # 0 => \/ Holds(walk, calling)'
                        \/ (calling \in over /\ table[walk].token = 0)'
    <3> SUFFICES ASSUME calling # 0
                 PROVE  \/ Holds(walk, calling)'
                        \/ (calling \in over /\ table[walk].token = 0)'
      BY <2>1
    <3>1. walk \in Executors
      BY CallingAt
    <3>2. CASE walk = i
      BY <2>1, <2>2, <3>2 DEF JobsPlaced, Holds
    <3>3. CASE walk # i
      <4>1. table'[walk] = table[walk]
        BY <2>1, <3>1, <3>3 DEF Types, TableType
      <4> QED
        BY <2>1, <4>1 DEF JobsPlaced, Holds
    <3> QED
      BY <3>2, <3>3
  <2> QED
    BY <2>2, <2>3 DEF JobsPlaced
<1>5. ASSUME Return
      PROVE  JobsPlaced'
  <2>1. walk \in Executors /\ calling # 0
    BY <1>5, CallingAt DEF Return
  <2>2. /\ table' = [table EXCEPT ![walk] = Free] /\ over' = over \union {calling} /\ made' = made
        /\ calling' = 0
    BY <1>5 DEF Return
  <2>3. \/ Holds(walk, calling)
        \/ calling \in over /\ table[walk].token = 0
    BY <2>1 DEF JobsPlaced
  <2>4. /\ \A k \in Executors : table'[k].token # 0 => table'[k].job \in Pending'
        /\ \A h, k \in Executors :
               h # k /\ table'[h].token # 0 /\ table'[k].token # 0
               => table'[h].job # table'[k].job
        /\ \A n \in Pending' : \E k \in Executors : Holds(k, n)'
        /\ over' \subseteq 1 .. made'
    BY <2>1, <2>2, <2>3, FreeKeepsPlaced
  <2> QED
    BY <2>2, <2>4 DEF JobsPlaced
<1>6. ASSUME Start \/ Skip
      PROVE  JobsPlaced'
  <2>1. UNCHANGED <<table, made, over>> /\ calling' = 0
    BY <1>6, CallingAt, TokenAssumption DEF Start, Skip, Executors
  <2> QED
    BY <2>1, KeepsPlaced
<1>7. ASSUME Call
      PROVE  JobsPlaced'
  <2>1. UNCHANGED <<table, made, over, walk>> /\ Holds(walk, table[walk].job)
    BY <1>7 DEF Call, Due, Holds
  <2>2. Pending' = Pending
    BY <2>1 DEF Pending
  <2> QED
    BY <1>7, <2>1, <2>2 DEF JobsPlaced, Holds, Call
<1>8. ASSUME Tick
      PROVE  JobsPlaced'
  BY <1>8, KeepsPlaced, CallingAt DEF Tick
<1> QED
  BY <1>1, <1>2, <1>3, <1>4, <1>5, <1>6, <1>7, <1>8 DEF Next, Task

\* As long as no callback cancels itself and then defers something else, every
\* accepted job stays in exactly one executor until it is cancelled or returns
\* 0, whatever callbacks do to the table the task is walking over.
THEOREM NeverForgotten ==
    ASSUME ~Rush
    PROVE  Spec => []NotForgotten
<1>1. Init => Types /\ JobsPlaced
  BY InitTypes, InitPlaced
<1>2. (Types /\ JobsPlaced) /\ [Next]_vars => (Types /\ JobsPlaced)'
  <2>1. ASSUME Types, JobsPlaced, UNCHANGED vars
        PROVE  JobsPlaced'
    BY <2>1, KeepsPlaced, CallingAt DEF vars
  <2> QED
    BY <2>1, NextTypes, StutterTypes, NextPlaced
<1>3. Types /\ JobsPlaced => NotForgotten
  BY PlacedMeansNotForgotten
<1> QED
  BY <1>1, <1>2, <1>3, PTL DEF Spec

(***************************************************************************)
(* Time.  The clock wraps, wait does not.  The invariant relates them: the *)
(* trigger time of a used executor is now plus what its job has to wait,   *)
(* up to periods of the clock, however late the job is; what is still to   *)
(* be waited for is less than half a period.                               *)
(***************************************************************************)
Same(a, b) == \E q \in Int : a = b + q * Clock

LEMMA SameShift ==
    ASSUME NEW a \in Int, NEW b \in Int, NEW c \in Int, Same(a, b)
    PROVE  Same(a + c, b + c)
<1>1. PICK q \in Int : a = b + q * Clock
  BY DEF Same
<1>2. q * Clock \in Int
  BY ClockAssumption
<1>3. a + c = (b + c) + q * Clock
  BY <1>1, <1>2
<1> QED
  BY <1>3 DEF Same

LEMMA SameTrans ==
    ASSUME NEW a \in Int, NEW b \in Int, NEW c \in Int, Same(a, b), Same(b, c)
    PROVE  Same(a, c)
<1>1. PICK q \in Int : a = b + q * Clock
  BY DEF Same
<1>2. PICK p \in Int : b = c + p * Clock
  BY DEF Same
<1>3. q * Clock \in Int /\ p * Clock \in Int /\ (p + q) * Clock = p * Clock + q * Clock
  BY ClockAssumption
<1>4. a = c + (p + q) * Clock /\ p + q \in Int
  BY <1>1, <1>2, <1>3
<1> QED
  BY <1>4 DEF Same

\* Taking a time modulo the clock removes periods.
LEMMA SameMod ==
    ASSUME NEW a \in Int, Clock > 0
    PROVE  Same(a % Clock, a) /\ Same(a, a % Clock)
<1> DEFINE q == a \div Clock
<1>1. q \in Int /\ Clock \in Int
  BY ClockAssumption
<1>2. a = Clock * q + (a % Clock) /\ a % Clock \in Int
  BY ClockAssumption
<1> HIDE DEF q
<1>3. Clock * q = q * Clock /\ (0 - q) * Clock = 0 - (q * Clock) /\ q * Clock \in Int
  BY <1>1
<1>4. a = (a % Clock) + q * Clock /\ a % Clock = a + (0 - q) * Clock /\ 0 - q \in Int
  BY <1>1, <1>2, <1>3
<1> QED
  BY <1>1, <1>4 DEF Same

\* Two times of one period that are the same are equal.
LEMMA SameTime ==
    ASSUME NEW a \in 0 .. Clock - 1, NEW b \in 0 .. Clock - 1, Same(a, b)
    PROVE  a = b
<1>1. PICK q \in Int : a = b + q * Clock
  BY DEF Same
<1>2. Clock \in Nat /\ a \in Int /\ b \in Int /\ q * Clock \in Int
  BY ClockAssumption
<1>3. a - b < Clock /\ b - a < Clock
  BY <1>2
<1>4. CASE q >= 1
  <2>1. q * Clock >= Clock
    BY <1>2, <1>4
  <2> QED
    BY <1>1, <1>2, <1>3, <2>1
<1>5. CASE q =< -1
  <2>1. q * Clock =< -Clock
    BY <1>2, <1>5
  <2> QED
    BY <1>1, <1>2, <1>3, <2>1
<1>6. CASE q = 0
  <2>1. q * Clock = 0
    BY <1>2, <1>6
  <2> QED
    BY <1>1, <1>2, <2>1
<1> QED
  BY <1>4, <1>5, <1>6

\* A time n milliseconds after another one is that much later for TIMER_DIFF_32,
\* when n is less than half a period.
LEMMA DiffOf ==
    ASSUME NEW a \in Int, NEW b \in Int, NEW n \in Nat, 2 * n < Clock, Same(a, b + n)
    PROVE  Diff(a, b) = n
<1>1. Clock \in Nat /\ Clock > 0 /\ n \in 0 .. Clock - 1
  BY ClockAssumption
<1>2. Same(a - b, n)
  <2>1. a + (0 - b) = a - b /\ (b + n) + (0 - b) = n /\ b + n \in Int /\ 0 - b \in Int
    OBVIOUS
  <2>2. Same(a + (0 - b), (b + n) + (0 - b))
    BY <2>1, SameShift
  <2> QED
    BY <2>1, <2>2
<1>3. (a - b) % Clock = n
  <2>1. a - b \in Int /\ (a - b) % Clock \in 0 .. Clock - 1
    BY <1>1, ModType
  <2>2. Same((a - b) % Clock, a - b)
    BY <1>1, <2>1, SameMod
  <2>3. Same((a - b) % Clock, n)
    BY <1>1, <1>2, <2>1, <2>2, SameTrans
  <2> QED
    BY <1>1, <2>1, <2>3, SameTime
<1> QED
  BY <1>1, <1>3 DEF Diff

Bounded(w) == \E d, e \in Delays : w =< d + e

\* The task is at most MaxLag late; executor i holds a job that is due when its
\* trigger time comes; the callback that runs was due, or has been extended.
Lag == \E n \in 0 .. MaxLag : Same(now, last + n)

Timed(i) ==
    table[i].token # 0 =>
        /\ Same(table[i].trigger_time, now + wait[table[i].job])
        /\ Bounded(wait[table[i].job])

WasDue == calling # 0 /\ calling \notin over => \E d \in Delays : wait[calling] =< d

OnTime == Lag /\ (\A i \in Executors : Timed(i)) /\ WasDue

LEMMA SameSelf ==
    ASSUME NEW a \in Int
    PROVE  Same(a, a)
<1>1. a = a + 0 * Clock /\ 0 \in Int
  BY ClockAssumption
<1> QED
  BY <1>1 DEF Same

LEMMA DelayFacts ==
    /\ Clock \in Nat /\ Clock > 0 /\ MaxLag \in Nat /\ 2 * MaxLag < Clock
    /\ \A d \in Delays : d \in Nat /\ d > 0 /\ d \in Int
    /\ \A d, e \in Delays : 2 * (d + e + MaxLag) < Clock
BY ClockAssumption

\* The types of what the invariant is about.
LEMMA TimeTypes ==
    ASSUME Types, JobsPlaced, NEW i \in Executors
    PROVE  /\ table[i].trigger_time \in Int /\ now \in Int /\ last \in Int
           /\ table[i].token # 0 => table[i].job \in Jobs /\ table[i].job \in Pending
           /\ \A j \in Jobs : wait[j] \in Int
           /\ made \in Nat
<1>1. table[i] \in Entry /\ ScalarTypes
  BY DEF Types, TableType
<1>2. table[i].token # 0 => table[i].job \in Pending
  BY DEF JobsPlaced
<1>3. Pending \subseteq Jobs
  BY <1>1, BoundAssumption DEF Pending, Jobs, ScalarTypes
<1> QED
  BY <1>1, <1>2, <1>3, DelayFacts DEF Entry, ScalarTypes

\* A job that the task finds due has nothing left to wait for.
LEMMA DueMeansDue ==
    ASSUME Types, JobsPlaced, OnTime, NEW i \in Executors, Due(i)
    PROVE  wait[table[i].job] =< 0
<1> DEFINE w == wait[table[i].job]
           t == table[i].trigger_time
<1>1. table[i].token # 0 /\ Diff(t, last) =< 0
  BY DEF Due
<1>2. t \in Int /\ now \in Int /\ last \in Int /\ w \in Int
  BY <1>1, TimeTypes
<1>3. Same(t, now + w) /\ Bounded(w)
  BY <1>1 DEF OnTime, Timed
<1>4. PICK n \in 0 .. MaxLag : Same(now, last + n)
  BY DEF OnTime, Lag
<1>5. PICK d \in Delays, e \in Delays : w =< d + e
  BY <1>3 DEF Bounded
<1> HIDE DEF w, t
<1> SUFFICES ASSUME w >= 1 PROVE FALSE
  BY <1>2 DEF w
<1>6. n \in Nat /\ n + w \in Nat /\ 2 * (n + w) < Clock
  BY <1>2, <1>5, DelayFacts
<1>7. Same(t, last + (n + w))
  <2>0. last + n \in Int
    BY <1>2, <1>6
  <2>1. Same(now + w, (last + n) + w)
    BY <1>2, <1>4, <2>0, SameShift
  <2>2. (last + n) + w = last + (n + w) /\ now + w \in Int /\ last + (n + w) \in Int
    BY <1>2, <1>6
  <2> QED
    BY <1>2, <1>3, <2>1, <2>2, SameTrans
<1>8. Diff(t, last) = n + w
  BY <1>2, <1>6, <1>7, DiffOf
<1> QED
  BY <1>1, <1>2, <1>6, <1>8

LEMMA InitOnTime ==
    ASSUME Init
    PROVE  OnTime
<1>1. now \in Int /\ last + 0 = now /\ 0 \in 0 .. MaxLag
  BY DelayFacts DEF Init
<1>2. Lag
  BY <1>1, SameSelf DEF Lag
<1>3. \A i \in Executors : Timed(i)
  BY DEF Init, Timed, Free
<1> QED
  BY <1>2, <1>3 DEF Init, OnTime, WasDue

\* A step that leaves the clock and executor i alone, and the wait of its job.
LEMMA TimedKept ==
    ASSUME Types, JobsPlaced, NEW i \in Executors, Timed(i), now' = now,
           table'[i] = table[i], table[i].token # 0 => wait'[table[i].job] = wait[table[i].job]
    PROVE  Timed(i)'
BY DEF Timed

\* Executor i is given the delay d from now on.
LEMMA TimedSet ==
    ASSUME Types, NEW i \in Executors, NEW d \in Delays, now' = now,
           table'[i].trigger_time = (now + d) % Clock, wait'[table'[i].job] = d
    PROVE  Timed(i)'
<1>1. now + d \in Int /\ d \in Int /\ d =< d + d /\ Clock > 0
  BY DelayFacts DEF Types, ScalarTypes
<1>2. Same((now + d) % Clock, now + d)
  BY <1>1, SameMod
<1> QED
  BY <1>1, <1>2 DEF Timed, Bounded

\* The jobs of two used executors differ, so that setting the wait of one job
\* leaves every executor but its own alone.
LEMMA OthersKept ==
    ASSUME Types, JobsPlaced, NEW i \in Executors, NEW j, NEW w, \A k \in Executors : Timed(k),
           now' = now, wait' = [wait EXCEPT ![j] = w],
           \A k \in Executors : k # i => table'[k] = table[k] /\ (table[k].token # 0 => table[k].job # j)
    PROVE  \A k \in Executors : k # i => Timed(k)'
<1> SUFFICES ASSUME NEW k \in Executors, k # i PROVE Timed(k)'
  OBVIOUS
<1>1. table[k].token # 0 => wait'[table[k].job] = wait[table[k].job]
  BY TimeTypes DEF Types, ScalarTypes
<1> QED
  BY <1>1, TimedKept

\* The callback that runs belongs to a pending job, or to one that is over.
LEMMA CallingPending ==
    ASSUME JobsPlaced, calling # 0, calling \notin over, walk \in Executors
    PROVE  table[walk].token # 0 /\ table[walk].job = calling /\ calling \in Pending
BY DEF JobsPlaced, Holds

LEMMA LagKept ==
    ASSUME Lag, now' = now, last' = last
    PROVE  Lag'
BY DEF Lag

LEMMA DeferOnTime ==
    ASSUME Types, JobsPlaced, OnTime, NEW d \in Delays, defer_exec(d)
    PROVE  OnTime'
<1>1. now' = now /\ last' = last /\ calling' = calling /\ over' = over /\ made < MaxJobs
  BY DEF defer_exec
<1>2. Lag'
  BY <1>1, LagKept DEF OnTime
<1>3. CASE ~Accepted
  <2>1. UNCHANGED <<table, wait>>
    BY <1>3 DEF defer_exec, Accepted
  <2>2. \A k \in Executors : Timed(k)'
    BY <1>1, <2>1, TimedKept DEF OnTime
  <2> QED
    BY <1>1, <1>2, <2>1, <2>2 DEF OnTime, WasDue
<1>4. CASE Accepted
  <2> DEFINE t == (now + d) % Clock
             e == [token |-> allocate_token(table, current_token), job |-> made + 1,
                   trigger_time |-> t]
  <2>1. PICK i \in Executors : i = Min(Unused(table)) /\ table[i].token = 0
    BY UnusedMin DEF defer_exec
  <2>2. table' = [table EXCEPT ![i] = e] /\ wait' = [wait EXCEPT ![made + 1] = d]
    BY <1>4, <2>1 DEF defer_exec, Accepted
  <2>3. e.job = made + 1 /\ e.trigger_time = t
    OBVIOUS
  <2>4. made + 1 \in Jobs /\ made \in Nat
    BY <1>1, BoundAssumption DEF Types, ScalarTypes, Jobs
  <2> HIDE DEF e
  <2>5. table'[i] = e /\ \A k \in Executors : k # i => table'[k] = table[k]
    BY <2>1, <2>2 DEF Types, TableType
  <2>6. \A k \in Executors : table[k].token # 0 => table[k].job # made + 1
    BY <2>4 DEF JobsPlaced, Pending
  <2>7. \A k \in Executors : k # i => Timed(k)'
    <3>1. \A k \in Executors : Timed(k)
      BY DEF OnTime
    <3>2. \A k \in Executors : k # i => table'[k] = table[k]
                                        /\ (table[k].token # 0 => table[k].job # made + 1)
      BY <2>5, <2>6
    <3> QED
      BY <1>1, <2>1, <2>2, <3>1, <3>2, OthersKept
  <2>8. wait'[made + 1] = d
    BY <2>2, <2>4 DEF Types, ScalarTypes
  <2>9. Timed(i)'
    BY <1>1, <2>1, <2>3, <2>5, <2>8, TimedSet
  <2>10. WasDue'
    <3>1. SUFFICES ASSUME calling # 0, calling \notin over
                   PROVE  \E x \in Delays : wait'[calling] =< x
      BY <1>1 DEF WasDue
    <3>0. walk \in Executors /\ calling \in Jobs
      BY <3>1, CallingAt
    <3>2. calling \in Pending /\ calling \in Jobs
      BY <3>0, <3>1, CallingPending
    <3>3. wait'[calling] = wait[calling]
      BY <2>2, <2>4, <3>2 DEF Types, ScalarTypes, Pending
    <3> QED
      BY <3>1, <3>3 DEF OnTime, WasDue
  <2> QED
    BY <1>2, <2>7, <2>9, <2>10 DEF OnTime
<1> QED
  BY <1>3, <1>4

LEMMA ExtendOnTime ==
    ASSUME Types, JobsPlaced, OnTime, NEW i \in Executors, NEW d \in Delays,
           extend_deferred_exec(i, d)
    PROVE  OnTime'
<1> DEFINE t == (now + d) % Clock
           j == table[i].job
<1>1. /\ now' = now /\ last' = last /\ calling' = calling /\ over' = over
      /\ table[i].token # 0
      /\ table' = [table EXCEPT ![i].trigger_time = t]
      /\ wait' = [wait EXCEPT ![j] = d]
  BY DEF extend_deferred_exec
<1>2. table'[i].trigger_time = t /\ table'[i].job = j
  BY <1>1 DEF Types, TableType, Entry
<1>3. \A k \in Executors : k # i => table'[k] = table[k]
  BY <1>1 DEF Types, TableType
<1>4. j \in Jobs /\ wait'[j] = d
  BY <1>1, TimeTypes DEF Types, ScalarTypes
<1>5. \A k \in Executors : k # i => (table[k].token # 0 => table[k].job # j)
  BY <1>1 DEF JobsPlaced
<1>6. Timed(i)'
  BY <1>1, <1>2, <1>4, TimedSet
<1> HIDE DEF j, t
<1>7. \A k \in Executors : k # i => Timed(k)'
  <2>1. \A k \in Executors : Timed(k)
    BY DEF OnTime
  <2> QED
    BY <1>1, <1>3, <1>5, <2>1, OthersKept
<1>8. WasDue'
  <2>1. SUFFICES ASSUME calling # 0, calling \notin over
                 PROVE  \E x \in Delays : wait'[calling] =< x
    BY <1>1 DEF WasDue
  <2>2. CASE calling = j
    BY <1>4, <2>2, DelayFacts
  <2>3. CASE calling # j
    <3>1. wait'[calling] = wait[calling]
      BY <1>1, <2>1, <2>3, CallingAt DEF Types, ScalarTypes
    <3> QED
      BY <2>1, <3>1 DEF OnTime, WasDue
  <2> QED
    BY <2>2, <2>3
<1>9. Lag'
  BY <1>1, LagKept DEF OnTime
<1> QED
  BY <1>6, <1>7, <1>8, <1>9 DEF OnTime

\* Executor i is freed, and with it job j is over.
LEMMA FreeOnTime ==
    ASSUME Types, JobsPlaced, OnTime, NEW i \in Executors, NEW j,
           table' = [table EXCEPT ![i] = Free], over' = over \union {j},
           wait' = [wait EXCEPT ![j] = 0], now' = now, last' = last,
           calling' = calling \/ calling' = 0,
           \A k \in Executors : k # i => (table[k].token # 0 => table[k].job # j)
    PROVE  OnTime'
<1>1. table'[i] = Free /\ \A k \in Executors : k # i => table'[k] = table[k]
  BY DEF Types, TableType
<1>2. Timed(i)'
  BY <1>1 DEF Timed, Free
<1>3. \A k \in Executors : k # i => Timed(k)'
  <2>1. \A k \in Executors : Timed(k)
    BY DEF OnTime
  <2> QED
    BY <1>1, <2>1, OthersKept
<1>4. WasDue'
  <2>1. SUFFICES ASSUME calling' = calling, calling # 0, calling \notin over, calling # j
                 PROVE  \E x \in Delays : wait'[calling] =< x
    BY DEF WasDue
  <2>2. wait'[calling] = wait[calling]
    BY <2>1, CallingAt DEF Types, ScalarTypes
  <2> QED
    BY <2>1, <2>2 DEF OnTime, WasDue
<1>5. Lag'
  BY LagKept DEF OnTime
<1> QED
  BY <1>2, <1>3, <1>4, <1>5 DEF OnTime

LEMMA CancelOnTime ==
    ASSUME Types, JobsPlaced, OnTime, NEW i \in Executors, cancel_deferred_exec(i)
    PROVE  OnTime'
<1>1. /\ table' = [table EXCEPT ![i] = Free] /\ over' = over \union {table[i].job}
      /\ wait' = [wait EXCEPT ![table[i].job] = 0]
      /\ now' = now /\ last' = last /\ calling' = calling /\ table[i].token # 0
  BY DEF cancel_deferred_exec
<1>2. \A k \in Executors : k # i => (table[k].token # 0 => table[k].job # table[i].job)
  BY <1>1 DEF JobsPlaced
<1> QED
  BY <1>1, <1>2, FreeOnTime

LEMMA ReturnOnTime ==
    ASSUME Types, JobsPlaced, OnTime, Return
    PROVE  OnTime'
<1>1. /\ table' = [table EXCEPT ![walk] = Free] /\ over' = over \union {calling}
      /\ wait' = [wait EXCEPT ![calling] = 0]
      /\ now' = now /\ last' = last /\ calling' = 0 /\ calling # 0
  BY DEF Return
<1>2. walk \in Executors
  BY <1>1, CallingAt
<1>3. \A k \in Executors : k # walk => (table[k].token # 0 => table[k].job # calling)
  BY <1>1, <1>2 DEF JobsPlaced, Holds, Pending
<1> QED
  BY <1>1, <1>2, <1>3, FreeOnTime

\* The delay a callback returns counts from when its job was due.
LEMMA RepeatOnTime ==
    ASSUME Types, JobsPlaced, OnTime, NEW d \in Delays, Repeat(d)
    PROVE  OnTime'
<1> DEFINE t == table[walk].trigger_time
           w == wait[calling]
<1>1. /\ calling # 0 /\ calling' = 0 /\ now' = now /\ last' = last
      /\ table' = [table EXCEPT ![walk].trigger_time = (t + d) % Clock]
      /\ wait' = IF table[walk].job # calling THEN wait ELSE [wait EXCEPT ![calling] = w + d]
  BY DEF Repeat
<1>2. walk \in Executors /\ calling \in Jobs
  BY <1>1, CallingAt
<1>3. PICK i \in Executors : i = walk
  BY <1>2
<1>4. /\ table'[i].trigger_time = (t + d) % Clock
      /\ table'[i].job = table[i].job /\ table'[i].token = table[i].token
  BY <1>1, <1>3 DEF Types, TableType, Entry
<1>5. \A k \in Executors : k # i => table'[k] = table[k]
  BY <1>1, <1>3 DEF Types, TableType
<1>6. Lag' /\ WasDue'
  BY <1>1, LagKept DEF OnTime, WasDue
<1>7. CASE table[i].token = 0
  <2>1. Timed(i)'
    BY <1>4, <1>7 DEF Timed
  <2>2. ASSUME NEW k \in Executors, k # i
        PROVE  Timed(k)'
    <3>1. calling \in over
      BY <1>1, <1>3, <1>7 DEF JobsPlaced, Holds
    <3>2. table[k].token # 0 => table[k].job # calling /\ table[k].job \in Jobs
      BY <3>1, TimeTypes DEF Pending
    <3>3. table[k].token # 0 => wait'[table[k].job] = wait[table[k].job]
      BY <1>1, <3>2 DEF Types, ScalarTypes
    <3> QED
      BY <1>1, <1>5, <2>2, <3>3, TimedKept DEF OnTime
  <2> QED
    BY <1>6, <2>1, <2>2 DEF OnTime
<1>8. CASE table[i].token # 0
  <2>1. table[i].job = calling /\ calling \notin over
    BY <1>1, <1>3, <1>8 DEF JobsPlaced, Holds, Pending
  <2>2. wait' = [wait EXCEPT ![calling] = w + d] /\ wait'[calling] = w + d
    BY <1>1, <1>2, <1>3, <2>1 DEF Types, ScalarTypes
  <2>3. \A k \in Executors : k # i => Timed(k)'
    <3>1. \A k \in Executors : Timed(k)
      BY DEF OnTime
    <3>2. \A k \in Executors : k # i => (table[k].token # 0 => table[k].job # calling)
      BY <1>8, <2>1 DEF JobsPlaced
    <3> QED
      BY <1>1, <1>5, <2>2, <3>1, <3>2, OthersKept
  <2>4. t \in Int /\ w \in Int /\ now \in Int /\ d \in Int /\ Clock > 0
    BY <1>2, TimeTypes, DelayFacts
  <2>5. Same(t, now + w)
    BY <1>3, <1>8, <2>1 DEF OnTime, Timed
  <2>6. PICK e \in Delays : w =< e
    BY <1>1, <2>1 DEF OnTime, WasDue
  <2> HIDE DEF t, w
  <2>7. Same((t + d) % Clock, now + (w + d))
    <3>1. now + w \in Int /\ t + d \in Int /\ (now + w) + d = now + (w + d) /\ now + (w + d) \in Int
      BY <2>4
    <3>2. Same(t + d, (now + w) + d)
      BY <2>4, <2>5, <3>1, SameShift
    <3>3. Same((t + d) % Clock, t + d) /\ (t + d) % Clock \in Int
      BY <2>4, <3>1, SameMod, ModType
    <3> QED
      BY <3>1, <3>2, <3>3, SameTrans
  <2>8. Bounded(w + d)
    BY <2>4, <2>6, DelayFacts DEF Bounded
  <2>9. Timed(i)'
    BY <1>1, <1>4, <2>1, <2>2, <2>7, <2>8 DEF Timed
  <2> QED
    BY <1>6, <2>3, <2>9 DEF OnTime
<1> QED
  BY <1>7, <1>8

LEMMA StartOnTime ==
    ASSUME Types, OnTime, Start
    PROVE  OnTime'
<1>1. UNCHANGED <<table, now, calling, over, wait>> /\ last' = now
  BY DEF Start
<1>2. now \in Int /\ now + 0 = now /\ 0 \in 0 .. MaxLag
  BY DelayFacts DEF Types, ScalarTypes
<1>3. Lag'
  BY <1>1, <1>2, SameSelf DEF Lag
<1> QED
  BY <1>1, <1>3 DEF OnTime, Timed, WasDue

LEMMA CallOnTime ==
    ASSUME Types, JobsPlaced, OnTime, Call
    PROVE  /\ OnTime'
           /\ wait[calling'] =< 0 /\ calling' \notin over
<1>1. /\ UNCHANGED <<table, now, last, over, wait>>
      /\ calling' = table[walk].job /\ Due(walk) /\ walk # 0
  BY DEF Call
<1>2. walk \in Executors
  BY <1>1, TokenAssumption DEF Types, ScalarTypes, Executors
<1>3. wait[calling'] =< 0
  BY <1>1, <1>2, DueMeansDue
<1>4. table[walk].token # 0 /\ table[walk].job \in Pending
  BY <1>1, <1>2 DEF Due, JobsPlaced
<1>5. calling' \notin over
  BY <1>1, <1>4 DEF Pending
<1>6. wait[calling'] \in Int
  BY <1>1, <1>2, <1>4, TimeTypes
<1>7. PICK d \in Delays : TRUE
  BY <1>2, <1>4 DEF OnTime, Timed, Bounded
<1>8. WasDue'
  BY <1>1, <1>3, <1>6, <1>7, DelayFacts DEF WasDue
<1>9. Lag' /\ \A k \in Executors : Timed(k)'
  BY <1>1 DEF OnTime, Lag, Timed
<1> QED
  BY <1>3, <1>5, <1>8, <1>9 DEF OnTime

\* A millisecond passes for the clock, modulo its period, and for every job.
LEMMA TickOnTime ==
    ASSUME Types, JobsPlaced, OnTime, Tick
    PROVE  OnTime'
<1>1. /\ UNCHANGED <<table, last, calling, over>> /\ now' = (now + 1) % Clock
      /\ Diff(now, last) < MaxLag
      /\ wait' = [j \in Jobs |-> IF j \in Pending THEN wait[j] - 1 ELSE wait[j]]
  BY DEF Tick, Pending
<1>2. now \in Int /\ last \in Int /\ Clock > 0 /\ now + 1 \in Int /\ MaxLag \in Nat
  BY DelayFacts DEF Types, ScalarTypes
<1>3. Same(now', now + 1) /\ now' \in Int
  BY <1>1, <1>2, SameMod, ModType
<1>4. Lag'
  <2>1. PICK n \in 0 .. MaxLag : Same(now, last + n)
    BY DEF OnTime, Lag
  <2>2. n \in Nat /\ 2 * n < Clock
    BY <2>1, DelayFacts
  <2>3. Diff(now, last) = n
    BY <1>2, <2>1, <2>2, DiffOf
  <2>4. n + 1 \in 0 .. MaxLag /\ last + n \in Int /\ (last + n) + 1 = last + (n + 1)
        /\ last + (n + 1) \in Int
    BY <1>1, <1>2, <2>2, <2>3
  <2>5. Same(now + 1, (last + n) + 1)
    <3>1. last + n \in Int /\ 1 \in Int
      BY <2>4
    <3> QED
      BY <1>2, <2>1, <3>1, SameShift
  <2>6. Same(now', last + (n + 1))
    BY <1>2, <1>3, <2>4, <2>5, SameTrans
  <2> QED
    BY <1>1, <2>4, <2>6 DEF Lag
<1>5. ASSUME NEW i \in Executors, table[i].token # 0
      PROVE  /\ Same(table[i].trigger_time, now' + wait'[table[i].job])
             /\ Bounded(wait'[table[i].job])
  <2> DEFINE w == wait[table[i].job]
             t == table[i].trigger_time
  <2>1. table[i].job \in Jobs /\ table[i].job \in Pending /\ w \in Int /\ t \in Int
    BY <1>5, TimeTypes
  <2>2. wait'[table[i].job] = w - 1
    BY <1>1, <2>1
  <2>3. Same(t, now + w) /\ Bounded(w)
    BY <1>5 DEF OnTime, Timed
  <2> HIDE DEF w, t
  <2>4. Same(now + w, now' + (w - 1))
    <3>1. Same(now + 1, now')
      BY <1>1, <1>2, SameMod
    <3>2. (now + 1) + (w - 1) = now + w /\ w - 1 \in Int
      BY <1>2, <2>1
    <3> QED
      BY <1>2, <1>3, <3>1, <3>2, SameShift
  <2>5. now + w \in Int /\ now' + (w - 1) \in Int
    BY <1>2, <1>3, <2>1
  <2>6. Same(t, now' + (w - 1))
    BY <2>1, <2>3, <2>4, <2>5, SameTrans
  <2>7. Bounded(w - 1)
    BY <2>1, <2>3, DelayFacts DEF Bounded
  <2> QED
    BY <2>2, <2>6, <2>7 DEF t
<1>6. \A i \in Executors : Timed(i)'
  BY <1>1, <1>5 DEF Timed
<1>7. WasDue'
  <2>1. SUFFICES ASSUME calling # 0, calling \notin over
                 PROVE  \E d \in Delays : wait'[calling] =< d
    BY <1>1 DEF WasDue
  <2>2. PICK d \in Delays : wait[calling] =< d
    BY <2>1 DEF OnTime, WasDue
  <2>3. calling \in Jobs /\ wait[calling] \in Int /\ d \in Int
    BY <2>1, CallingAt, DelayFacts DEF Types, ScalarTypes
  <2>4. wait'[calling] \in {wait[calling], wait[calling] - 1}
    BY <1>1, <2>3
  <2> QED
    BY <2>2, <2>3, <2>4
<1> QED
  BY <1>4, <1>6, <1>7 DEF OnTime

LEMMA NextOnTime ==
    ASSUME Types, JobsPlaced, OnTime, Next
    PROVE  OnTime'
<1>1. ASSUME Skip
      PROVE  OnTime'
  BY <1>1 DEF Skip, OnTime, Lag, Timed, WasDue
<1> QED
  BY <1>1, DeferOnTime, ExtendOnTime, CancelOnTime, ReturnOnTime, RepeatOnTime, StartOnTime,
     CallOnTime, TickOnTime DEF Next, Task

\* Only the task calls a callback.
LEMMA CallsOnlyInTask ==
    ASSUME Next, calling = 0, calling' # 0
    PROVE  Call
BY DEF Next, Task, defer_exec, extend_deferred_exec, cancel_deferred_exec, Return, Repeat, Start,
       Skip, Tick

\* No callback runs before its delay is over, counted from when the job was
\* deferred, extended or last due, and none runs after it was cancelled, for a
\* clock that wraps as often as it likes; the task is at most MaxLag
\* milliseconds late, and a delay of two callbacks in a row with that is less
\* than half a period of the clock.
THEOREM RunsOnTimeAlways ==
    ASSUME ~Rush
    PROVE  Spec => RunsOnTime
<1> DEFINE IInv == Types /\ JobsPlaced /\ OnTime
           Timely == calling = 0 /\ calling' # 0 => wait[calling'] <= 0 /\ calling' \notin over
<1>1. Init => IInv
  BY InitTypes, InitPlaced, InitOnTime
<1>2. IInv /\ [Next]_vars => IInv'
  <2>1. ASSUME IInv, Next
        PROVE  IInv'
    BY <2>1, NextTypes, NextPlaced, NextOnTime
  <2>2. ASSUME IInv, UNCHANGED vars
        PROVE  JobsPlaced' /\ OnTime'
    BY <2>2, KeepsPlaced, CallingAt DEF vars, OnTime, Lag, Timed, WasDue
  <2> QED
    BY <2>1, <2>2, StutterTypes
<1>3. IInv /\ [Next]_vars => [Timely]_vars
  BY CallsOnlyInTask, CallOnTime
<1> QED
  BY <1>1, <1>2, <1>3, PTL DEF Spec, RunsOnTime
=============================================================================
