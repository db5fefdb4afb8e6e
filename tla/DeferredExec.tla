---------------------------- MODULE DeferredExec ----------------------------
(***************************************************************************)
(* quantum/deferred_exec.c: callbacks to be run after a delay.             *)
(*                                                                         *)
(* A fixed table of executors, each with a token, a trigger time and a     *)
(* callback; one task walks over the table at most once per millisecond    *)
(* and calls what is due.  A callback may itself defer, extend or cancel,  *)
(* so the walk is one step per executor, and the API actions are possible  *)
(* between two walks and while a callback runs.                            *)
(*                                                                         *)
(* A callback with its argument is a job, numbered in the order in which   *)
(* jobs were deferred.  Tokens are numbers modulo Tokens (256), 0 is       *)
(* INVALID_DEFERRED_TOKEN.  The clock counts modulo Clock (2^32) and is    *)
(* compared through the sign of a difference.                              *)
(***************************************************************************)
EXTENDS Integers, FiniteSetsExt

CONSTANTS
    Slots,        \* MAX_DEFERRED_EXECUTORS (8)
    Tokens,       \* values of deferred_token (256)
    Clock,        \* values of the millisecond timer (2^32)
    Delays,       \* delays asked for
    Rush,         \* a callback may cancel itself and defer something else
    MaxLag,       \* the task runs at least once in so many milliseconds
    MaxJobs,      \* bound: jobs in a behaviour
    MaxCalls      \* bound: extensions and repetitions in a behaviour

ASSUME TokenAssumption == Slots \in Nat /\ Tokens \in Nat /\ Slots > 0 /\ Tokens > 1

ASSUME ClockAssumption ==
    /\ Clock \in Nat /\ MaxLag \in Nat /\ MaxLag > 0 /\ 2 * MaxLag < Clock
    /\ Delays \subseteq Nat \ {0}
    /\ \A d, e \in Delays : 2 * (d + e + MaxLag) < Clock

ASSUME BoundAssumption == MaxJobs \in Nat /\ MaxCalls \in Nat /\ Rush \in BOOLEAN

VARIABLES
    table,          \* the executors
    current_token,  \* the token handed out last
    now,            \* timer_read32()
    last,           \* last_deferred_exec_check
    walk,           \* the executor the task is at, 0 between two walks
    calling,        \* the job whose callback runs, 0 for none
    made,           \* jobs deferred so far
    over,           \* jobs that were cancelled or returned 0
    wait,           \* per pending job: milliseconds until it is due, below 0 when late
    calls           \* extensions and repetitions so far

vars == <<table, current_token, now, last, walk, calling, made, over, wait, calls>>

Executors == 1 .. Slots
Jobs == 1 .. MaxJobs

Free == [token |-> 0, trigger_time |-> 0, job |-> 0]

\* TIMER_DIFF_32 as a signed number.
Diff(a, b) == LET d == (a - b) % Clock IN IF 2 * d < Clock THEN d ELSE d - Clock

\* Seeded fault: the table is not searched.
token_can_be_used_any(t, token) == token # 0

token_can_be_used(t, token) == token # 0 /\ \A i \in Executors : t[i].token # token

\* Seeded fault: the counter does not wrap.
allocate_token_wide(t, c) == c + 1

\* The first usable number after c; c + 1 if there is none, which the caller
\* sees as a failure.
allocate_token(t, c) ==
    LET usable == {n \in 1 .. Tokens : token_can_be_used(t, (c + n) % Tokens)}
    IN (c + (IF usable = {} THEN 1 ELSE Min(usable))) % Tokens

Unused(t) == {i \in Executors : t[i].token = 0}

\* Main code runs between two walks, a callback while it is called.
CanCall == walk = 0 \/ calling # 0

(***************************************************************************)
(* The API.                                                                *)
(***************************************************************************)

\* defer_exec.  Without a free executor, or a free token, nothing is deferred.
defer_exec(delay) ==
    LET i == Min(Unused(table))
        token == allocate_token(table, current_token)
        ok == token_can_be_used(table, token)
    IN /\ CanCall
       /\ made < MaxJobs
       /\ Unused(table) # {}
       /\ calling # 0 /\ ~Rush => calling \notin over
       /\ current_token' = token
       /\ made' = IF ok THEN made + 1 ELSE made
       /\ table' = IF ok
                   THEN [table EXCEPT ![i] = [token |-> token, job |-> made + 1,
                                              trigger_time |-> (now + delay) % Clock]]
                   ELSE table
       /\ wait' = IF ok THEN [wait EXCEPT ![made + 1] = delay] ELSE wait
       /\ UNCHANGED <<now, last, walk, calling, over, calls>>

extend_deferred_exec(i, delay) ==
    /\ CanCall
    /\ calls < MaxCalls
    /\ table[i].token # 0
    /\ calls' = calls + 1
    /\ table' = [table EXCEPT ![i].trigger_time = (now + delay) % Clock]
    /\ wait' = [wait EXCEPT ![table[i].job] = delay]
    /\ UNCHANGED <<current_token, now, last, walk, calling, made, over>>

cancel_deferred_exec(i) ==
    /\ CanCall
    /\ table[i].token # 0
    /\ table' = [table EXCEPT ![i] = Free]
    /\ over' = over \union {table[i].job}
    /\ wait' = [wait EXCEPT ![table[i].job] = 0]
    /\ UNCHANGED <<current_token, now, last, walk, calling, made, calls>>

(***************************************************************************)
(* The task.                                                               *)
(***************************************************************************)
Start ==
    /\ walk = 0
    /\ Diff(now, last) > 0
    /\ last' = now
    /\ walk' = 1
    /\ UNCHANGED <<table, current_token, now, calling, made, over, wait, calls>>

\* Seeded fault: an executor is due when its trigger time is the smaller number.
Due_unsigned(i) == table[i].token # 0 /\ table[i].trigger_time <= last

\* now was read when the walk began.
Due(i) == table[i].token # 0 /\ Diff(table[i].trigger_time, last) <= 0

\* Seeded fault: the walk begins again where it should end, with the time of its start.
Advance_wraps == walk' = (walk % Slots) + 1

Advance == walk' = (walk + 1) % (Slots + 1)

Skip ==
    /\ walk # 0 /\ calling = 0
    /\ ~Due(walk)
    /\ Advance
    /\ UNCHANGED <<table, current_token, now, last, calling, made, over, wait, calls>>

Call ==
    /\ walk # 0 /\ calling = 0
    /\ Due(walk)
    /\ calling' = table[walk].job
    /\ UNCHANGED <<table, current_token, now, last, walk, made, over, wait, calls>>

\* Seeded fault: the executor after the one that ran is freed.
Return_frees_next ==
    /\ calling # 0
    /\ table' = [table EXCEPT ![(walk % Slots) + 1] = Free]
    /\ over' = over \union {calling}
    /\ wait' = [wait EXCEPT ![calling] = 0]
    /\ calling' = 0
    /\ Advance
    /\ UNCHANGED <<current_token, now, last, made, calls>>

\* The callback returns 0: the executor it was called from is freed.
Return ==
    /\ calling # 0
    /\ table' = [table EXCEPT ![walk] = Free]
    /\ over' = over \union {calling}
    /\ wait' = [wait EXCEPT ![calling] = 0]
    /\ calling' = 0
    /\ Advance
    /\ UNCHANGED <<current_token, now, last, made, calls>>

\* It returns a delay: that is added to the trigger time, so that it is measured
\* from when the job was due and not from when it ran.
Repeat(delay) ==
    /\ calling # 0
    /\ calls < MaxCalls
    /\ calls' = calls + 1
    /\ table' = [table EXCEPT ![walk].trigger_time = (@ + delay) % Clock]
    /\ wait' = IF table[walk].job # calling THEN wait ELSE [wait EXCEPT ![calling] = @ + delay]
    /\ calling' = 0
    /\ Advance
    /\ UNCHANGED <<current_token, now, last, made, over>>

\* A millisecond passes; the task is never late by more than MaxLag.
Tick ==
    /\ Diff(now, last) < MaxLag
    /\ now' = (now + 1) % Clock
    /\ wait' = [j \in Jobs |-> IF j \in 1 .. made \ over THEN wait[j] - 1 ELSE wait[j]]
    /\ UNCHANGED <<table, current_token, last, walk, calling, made, over, calls>>

Init ==
    /\ table = [i \in Executors |-> Free]
    /\ current_token = 0
    /\ now \in 0 .. Clock - 1
    /\ last = now
    /\ walk = 0 /\ calling = 0
    /\ made = 0 /\ over = {} /\ calls = 0
    /\ wait = [j \in Jobs |-> 0]

Task == Start \/ Skip \/ Call \/ Return

Next ==
    \/ \E d \in Delays : defer_exec(d) \/ Repeat(d)
    \/ \E i \in Executors, d \in Delays : extend_deferred_exec(i, d)
    \/ \E i \in Executors : cancel_deferred_exec(i)
    \/ Task
    \/ Tick

Spec == Init /\ [][Next]_vars

\* The main loop keeps calling the task, time passes, and callbacks return.
FairSpec == Spec /\ WF_vars(Task) /\ WF_vars(Tick)

(***************************************************************************)
(* Properties.                                                             *)
(***************************************************************************)

\* The types of the state: tokens stay within their width, and every executor
\* holds a job that was deferred.
TypeOK ==
    /\ table \in [Executors -> [token : 0 .. Tokens - 1, trigger_time : 0 .. Clock - 1,
                                job : 0 .. MaxJobs]]
    /\ \A i \in Executors : table[i].job <= made
    /\ current_token \in 0 .. Tokens - 1
    /\ now \in 0 .. Clock - 1 /\ last \in 0 .. Clock - 1
    /\ walk \in 0 .. Slots /\ calling \in 0 .. MaxJobs
    /\ calling # 0 => walk # 0
    /\ made \in 0 .. MaxJobs /\ over \subseteq Jobs
    /\ wait \in [Jobs -> Int] /\ calls \in Nat

\* Two executors never share a token, however often the 8-bit counter has
\* wrapped and whatever was cancelled in between: cancelling or extending by
\* token concerns one job.
TokensUnique ==
    \A i, j \in Executors : i # j /\ table[i].token # 0 => table[i].token # table[j].token

\* A job that was accepted sits in exactly one executor until it is cancelled or
\* its callback returns 0, even when callbacks defer, extend and cancel while the
\* task is walking over the table.
NotForgotten ==
    \A j \in 1 .. made \ over :
        Cardinality({i \in Executors : table[i].token # 0 /\ table[i].job = j}) = 1

\* A job runs no earlier than its delay says, counted from when it was deferred,
\* extended or last due, also when the clock wraps in between; and it never runs
\* once cancelled.
RunsOnTime ==
    [][calling = 0 /\ calling' # 0 => wait[calling'] <= 0 /\ calling' \notin over]_vars

\* Every job that was accepted runs, unless it is cancelled.
Runs == \A j \in Jobs : (made >= j) ~> (calling = j \/ j \in over)
=============================================================================
