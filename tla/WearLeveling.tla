---------------------------- MODULE WearLeveling ----------------------------
(***************************************************************************)
(* The wear-levelling EEPROM emulation (quantum/wear_leveling): a cache of *)
(* the logical data, a consolidated copy of it with a hash, and a log of   *)
(* the writes since then.  One step per operation of the backing store, so *)
(* that power can be lost between any two of them; what the next start     *)
(* reads is Playback.                                                      *)
(*                                                                         *)
(* Log words are the real bytes of the three encodings, for stores that    *)
(* are written 2, 4 or 8 bytes at a time.  The hash is abstracted to the   *)
(* array it was computed from, and the radix of addresses is a parameter.  *)
(***************************************************************************)
EXTENDS Integers, Sequences, FiniteSets, SequencesExt, FiniteSetsExt

CONSTANTS
    Stores,         \* backing stores, as records: see Build
    LogicalSize,    \* WEAR_LEVELING_LOGICAL_SIZE
    Radix,          \* 256: the values of an address byte, of which 8 in the first one
    Small,          \* 64: addresses below it have an encoding of their own
    MaxWrites       \* bound: calls of wear_leveling_write

\* Blocks are the blocks of bytes that callers write, Pages the flash pages, erased
\* one after another, LockedErase says whether the flash can be erased while it is
\* locked, and CutDuring what power loss may interrupt, as values of pc.  The compiler
\* checks the sizes (wear_leveling_internal.h).
Build ==
    {b \in [WriteSize : {2, 4, 8}, BackingSize : Nat, Blocks : SUBSET Seq(0..255),
            Pages : Nat \ {0}, LockedErase : BOOLEAN,
            CutDuring : SUBSET {"idle", "log", "erase", "wipe", "data", "hash"}] :
        /\ b.BackingSize >= 2 * LogicalSize
        /\ LogicalSize % b.WriteSize = 0
        /\ b.BackingSize % LogicalSize = 0
        /\ \A d \in b.Blocks : Len(d) \in 1..LogicalSize}

ASSUME WearLevelingAssumption ==
    /\ \A b \in Stores : b \in Build
    /\ LogicalSize \in Nat \ {0} /\ Radix \in Nat \ {0} /\ Small \in Nat
    /\ Small <= LogicalSize /\ Small <= 64 /\ LogicalSize <= 8 * Radix * Radix
    /\ MaxWrites \in Nat

VARIABLES
    build,                  \* the store that the firmware was built for
    data, hash, log,        \* the backing store, as it reads
    cache, write_address, unlocked, \* struct wear_leveling
    pc,                     \* what the code is doing
    job,                    \* the rest of the block being written to the log
    step,                   \* the page or address that consolidation has reached
    starting,               \* consolidation was begun by wear_leveling_init
    writes,                 \* calls so far
    left                    \* history: while power is off, what it has left to recover

store == <<data, hash, log>>
vars == <<build, data, hash, log, cache, write_address, unlocked, pc, job, step, starting, writes, left>>

WriteSize == build.WriteSize
LogWords == (build.BackingSize - LogicalSize - 8) \div WriteSize
LOG_ENTRY_MULTIBYTE_MAX_BYTES == 5

\* The data and the hash are on the first page, the log is spread over all of them.
PageOfLog(k) == 1 + ((k - 1) * build.Pages) \div LogWords

Addr == 0..LogicalSize - 1
Erased == [a \in Addr |-> 0]
Blank == [i \in 1..WriteSize |-> 0]
NoHash == <<>>
NoJob == [addr |-> 0, bytes |-> <<>>, part |-> 0, unit |-> {}, old |-> Erased]

\* The array cache with the bytes of d from address a on.
Put(c, a, d) == [b \in Addr |-> IF b \in a..a + Len(d) - 1 THEN d[b - a + 1] ELSE c[b]]
-----------------------------------------------------------------------------
(***************************************************************************)
(* The log.  LOG_ENTRY_MAKE_* and wear_leveling_write_raw decide how the   *)
(* next bytes of a block are encoded.                                      *)
(***************************************************************************)
\* Mutant of IsWord01: the high byte of the word is not looked at.
IsLowByte01(a, d) ==
    WriteSize = 2 /\ Len(d) >= 2 /\ a % 2 = 0 /\ a < 16384 /\ d[1] \in {0, 1}

IsWord01(a, d) ==
    WriteSize = 2 /\ Len(d) >= 2 /\ a % 2 = 0 /\ a < 16384 /\ d[2] = 0 /\ d[1] \in {0, 1}

IsByte(a, d) == WriteSize = 2 /\ ~IsWord01(a, d) /\ a < Small

\* How many bytes of d the next entry takes.
Taken(a, d) ==
    IF IsWord01(a, d) THEN 2
    ELSE IF IsByte(a, d) THEN 1
    ELSE Min({Len(d), LOG_ENTRY_MULTIBYTE_MAX_BYTES})

\* Its bytes, filled up to whole words.
EntryBytes(a, d) ==
    LET n == Taken(a, d)
        high == a \div Radix
    IN  IF IsWord01(a, d) THEN <<128 + 32 * d[1] + (a \div 512), (a \div 2) % 256>>
        ELSE IF IsByte(a, d) THEN <<64 + a, d[1]>>
        ELSE <<8 * n + (high \div Radix), high % Radix, a % Radix>> \o SubSeq(d, 1, n)

Word(bytes, k) ==
    [i \in 1..WriteSize |-> LET j == (k - 1) * WriteSize + i
                            IN  IF j <= Len(bytes) THEN bytes[j] ELSE 0]

Words(bytes) == (Len(bytes) + WriteSize - 1) \div WriteSize
-----------------------------------------------------------------------------
(***************************************************************************)
(* wear_leveling_read_consolidated and wear_leveling_playback_log: what a  *)
(* start makes of the backing store.  junk is what a read behind its end   *)
(* returns.                                                                *)
(***************************************************************************)
\* Mutant of ReadConsolidated: the hash is not verified.
ReadUnverified == data

ReadConsolidated == IF hash = data THEN data ELSE Erased

\* Reading the next n words goes behind the end of the store, or has done so.
Outside(p, n) == p.outside \/ p.at + n - 1 > LogWords

\* Playback has found the end of the log; is cancelled after n words; or goes on, having
\* read an entry.
Ended(p) ==
    [at |-> p.at, cache |-> p.cache, stop |-> TRUE, failed |-> FALSE, outside |-> p.outside]
Cancelled(p, n) ==
    [at |-> p.at + n, cache |-> p.cache, stop |-> TRUE, failed |-> TRUE,
     outside |-> Outside(p, n)]
Played(p, n, a, d) ==
    [at |-> p.at + n, cache |-> Put(p.cache, a, d), stop |-> FALSE, failed |-> FALSE,
     outside |-> Outside(p, n)]

\* LOG_ENTRY_TYPE_MULTIBYTE: how many words it has depends on its length, and its
\* address is complete after the first or the second one.
PlayMultibyte(p, junk) ==
    LET word(k) == IF p.at + k <= LogWords THEN log[p.at + k] ELSE junk
        bytes == [j \in 1..4 * WriteSize |->
                    word((j - 1) \div WriteSize)[1 + ((j - 1) % WriteSize)]]
        len == (bytes[1] \div 8) % 8
        a == ((bytes[1] % 8) * Radix + bytes[2]) * Radix + bytes[3]
    IN  IF a + len > LogicalSize
        THEN Cancelled(p, IF WriteSize = 2 THEN 2 ELSE 1)
        ELSE Played(p, CASE WriteSize = 2 -> IF len > 3 THEN 4 ELSE IF len > 1 THEN 3 ELSE 2
                         [] WriteSize = 4 -> IF len > 1 THEN 2 ELSE 1
                         [] WriteSize = 8 -> 1,
                    a, SubSeq(bytes, 4, 3 + len))

\* One round of the loop.
PlayEntry(p, junk) ==
    LET first == log[p.at]
        type == first[1] \div 64
        byteAddr == first[1] % 64
        wordAddr == (first[1] % 32) * 512 + first[2] * 2
    IN  IF p.stop \/ p.at > LogWords THEN p
        ELSE IF first = Blank THEN Ended(p)
        ELSE CASE type = 0 -> PlayMultibyte(p, junk)
               [] type = 1 /\ WriteSize = 2 ->
                    IF byteAddr >= LogicalSize THEN Cancelled(p, 1)
                    ELSE Played(p, 1, byteAddr, <<first[2]>>)
               [] type = 2 /\ WriteSize = 2 ->
                    IF wordAddr + 1 >= LogicalSize THEN Cancelled(p, 1)
                    ELSE Played(p, 1, wordAddr, <<(first[1] \div 32) % 2, 0>>)
               [] OTHER -> Cancelled(p, 1)

Playback(junk) ==
    LET start == [at |-> 1, cache |-> ReadConsolidated,
                  stop |-> FALSE, failed |-> FALSE, outside |-> FALSE]
        play[k \in 0..LogWords + 1] == IF k = 0 THEN start ELSE PlayEntry(play[k - 1], junk)
    IN  play[LogWords + 1]
-----------------------------------------------------------------------------
(***************************************************************************)
(* Operations.                                                             *)
(***************************************************************************)
\* wear_leveling_init: the store is only read, until consolidation begins.
wear_leveling_init(junk) ==
    LET p == Playback(junk)
    IN  /\ pc = "off"
        /\ cache' = p.cache
        /\ write_address' = p.at
        /\ IF p.failed \/ p.at > LogWords
           THEN pc' = "erase" /\ step' = 1 /\ starting' = TRUE
           ELSE pc' = "idle" /\ UNCHANGED <<step, starting>>
        /\ left' = Erased
        /\ UNCHANGED <<build, store, unlocked, job, writes>>

\* wear_leveling_write, up to the first operation of the store.
wear_leveling_write(a, d) ==
    /\ pc = "idle" /\ writes < MaxWrites
    /\ writes' = writes + 1
    /\ cache' = Put(cache, a, d)
    /\ IF cache' = cache
       THEN UNCHANGED <<pc, job, unlocked>>
       ELSE /\ pc' = "log" /\ unlocked' = TRUE
            /\ job' = [addr |-> a, bytes |-> d, part |-> 0,
                        unit |-> a..a + Len(d) - 1, old |-> cache]
    /\ UNCHANGED <<build, store, write_address, step, starting, left>>

\* The call returns and locks the store.
Return == pc' = "idle" /\ job' = NoJob /\ unlocked' = FALSE

\* wear_leveling_append_raw for the next word of the block: the loops of
\* wear_leveling_write_raw and wear_leveling_write_raw_multibyte end when it fails or
\* when it has filled the log, which is then consolidated.
wear_leveling_append_raw ==
    LET bytes == EntryBytes(job.addr, job.bytes)
        n == Taken(job.addr, job.bytes)
        rest == SubSeq(job.bytes, n + 1, Len(job.bytes))
    IN  /\ pc = "log"
        /\ IF log[write_address] # Blank
           THEN Return /\ UNCHANGED <<log, write_address, step, starting>>
           ELSE /\ log' = [log EXCEPT ![write_address] = Word(bytes, job.part + 1)]
                /\ write_address' = write_address + 1
                /\ IF write_address' > LogWords
                   THEN pc' = "erase" /\ step' = 1 /\ starting' = FALSE
                        /\ job' = NoJob /\ UNCHANGED unlocked
                   ELSE /\ UNCHANGED <<step, starting>>
                        /\ IF job.part + 1 < Words(bytes)
                           THEN job' = [job EXCEPT !.part = @ + 1] /\ UNCHANGED <<pc, unlocked>>
                           ELSE IF rest # <<>>
                           THEN /\ job' = [job EXCEPT !.addr = @ + n, !.bytes = rest, !.part = 0]
                                /\ UNCHANGED <<pc, unlocked>>
                           ELSE Return
        /\ UNCHANGED <<build, data, hash, cache, writes, left>>

\* wear_leveling_erase.
wear_leveling_erase ==
    /\ pc = "idle" /\ writes < MaxWrites
    /\ writes' = writes + 1
    /\ pc' = "wipe" /\ step' = 1 /\ unlocked' = TRUE
    /\ UNCHANGED <<build, store, cache, write_address, job, starting, left>>

\* Mutant of backing_store_erase: the hash stays.
EraseKeepsHash ==
    LET does == unlocked \/ build.LockedErase
    IN  /\ pc \in {"erase", "wipe"}
        /\ data' = IF does /\ step = 1 THEN Erased ELSE data
        /\ log' = [k \in 1..LogWords |-> IF does /\ step = PageOfLog(k) THEN Blank ELSE log[k]]
        /\ CASE step < build.Pages ->
                  step' = step + 1 /\ UNCHANGED <<pc, cache, write_address, unlocked, job>>
             [] step = build.Pages /\ pc = "erase" ->
                  pc' = "data" /\ step' = 0 /\ unlocked' = TRUE
                  /\ UNCHANGED <<cache, write_address, job>>
             [] step = build.Pages /\ pc = "wipe" ->
                  Return /\ step' = 0 /\ cache' = Erased /\ write_address' = 1
        /\ UNCHANGED <<build, hash, starting, writes, left>>

\* backing_store_erase, a page at a time.  A locked flash that cannot be erased
\* ignores it.
backing_store_erase ==
    LET does == unlocked \/ build.LockedErase
    IN  /\ pc \in {"erase", "wipe"}
        /\ data' = IF does /\ step = 1 THEN Erased ELSE data
        /\ hash' = IF does /\ step = 1 THEN NoHash ELSE hash
        /\ log' = [k \in 1..LogWords |-> IF does /\ step = PageOfLog(k) THEN Blank ELSE log[k]]
        /\ CASE step < build.Pages ->
                  step' = step + 1 /\ UNCHANGED <<pc, cache, write_address, unlocked, job>>
             [] step = build.Pages /\ pc = "erase" ->
                  pc' = "data" /\ step' = 0 /\ unlocked' = TRUE
                  /\ UNCHANGED <<cache, write_address, job>>
             [] step = build.Pages /\ pc = "wipe" ->
                  Return /\ step' = 0 /\ cache' = Erased /\ write_address' = 1
        /\ UNCHANGED <<build, starting, writes, left>>

\* wear_leveling_consolidate_force ends; a failure makes wear_leveling_init give up.
Consolidated(ok) ==
    /\ Return
    /\ write_address' = 1
    /\ cache' = IF ~ok /\ starting THEN Erased ELSE cache
    /\ step' = 0 /\ starting' = FALSE

\* wear_leveling_write_consolidated: the cache, then its hash.
WriteData ==
    /\ pc = "data"
    /\ IF data[step] # 0
       THEN Consolidated(FALSE) /\ UNCHANGED data
       ELSE /\ data' = [data EXCEPT ![step] = cache[step]]
            /\ step' = step + 1
            /\ pc' = IF step' = LogicalSize THEN "hash" ELSE pc
            /\ UNCHANGED <<cache, write_address, unlocked, job, starting>>
    /\ UNCHANGED <<build, hash, log, writes, left>>

WriteHash ==
    /\ pc = "hash"
    /\ IF hash # NoHash THEN Consolidated(FALSE) /\ UNCHANGED hash
       ELSE Consolidated(TRUE) /\ hash' = cache
    /\ UNCHANGED <<build, data, log, writes, left>>

\* Power is lost: only the backing store survives.
PowerLoss ==
    /\ pc \in build.CutDuring
    /\ pc' = "off" /\ cache' = Erased /\ write_address' = 1 /\ unlocked' = FALSE
    /\ job' = NoJob /\ step' = 0 /\ starting' = FALSE
    /\ left' = Playback(Blank).cache
    /\ UNCHANGED <<build, store, writes>>

\* The store is blank at first.
Init ==
    /\ build \in Stores
    /\ data = Erased /\ hash = NoHash /\ log = [k \in 1..LogWords |-> Blank]
    /\ cache = Erased /\ write_address = 1 /\ unlocked = FALSE
    /\ pc = "off" /\ job = NoJob /\ step = 0 /\ starting = FALSE /\ writes = 0
    /\ left = Erased

Next ==
    \/ \E b \in {0, 255} : wear_leveling_init([i \in 1..WriteSize |-> b])
    \/ \E d \in build.Blocks : \E a \in 0..LogicalSize - Len(d) : wear_leveling_write(a, d)
    \/ wear_leveling_append_raw
    \/ wear_leveling_erase
    \/ backing_store_erase
    \/ WriteData \/ WriteHash
    \/ PowerLoss

Spec == Init /\ [][Next]_vars
-----------------------------------------------------------------------------
(***************************************************************************)
(* Properties.                                                             *)
(***************************************************************************)
\* The types of the variables; between calls there is room in the log.
TypeOK ==
    /\ build \in Stores
    /\ data \in [Addr -> 0..255] /\ cache \in [Addr -> 0..255]
    /\ hash \in {NoHash} \cup [Addr -> 0..255]
    /\ log \in [1..LogWords -> [1..WriteSize -> 0..255]]
    /\ write_address \in 1..LogWords + 3 /\ (pc = "idle" => write_address <= LogWords)
    /\ unlocked \in BOOLEAN /\ starting \in BOOLEAN
    /\ pc \in {"off", "idle", "log", "erase", "wipe", "data", "hash"}
    /\ step \in 0..LogicalSize /\ writes \in 0..MaxWrites /\ left \in [Addr -> 0..255]

Recovered == Playback(Blank)

\* Whenever no call is in progress, the next start would read back what the cache
\* returns now, and would go on writing at the same place: the encodings are
\* decoded as what they were, in the order of the writes, whichever of them the
\* block and its parts were given and however often the log was consolidated.
LogPlaysBack ==
    pc = "idle" =>
        Recovered.cache = cache /\ Recovered.at = write_address /\ ~Recovered.failed

\* "Address would result of out-of-bounds access": no start reads the backing store
\* behind its end.
ReadsInside == pc = "off" => ~Recovered.outside

\* "Attempted write at index which isn't empty": the store is only written where it
\* is blank.
WritesBlank ==
    /\ pc = "log" => log[write_address] = Blank
    /\ pc = "data" => data[step] = 0
    /\ pc = "hash" => hash = NoHash

\* A write that power loss interrupts changes no address outside its block: what is
\* left of an entry is not taken for a write to somewhere else.
OthersKept ==
    [][pc = "log" /\ pc' = "off" => \A a \in Addr \ job.unit : left'[a] = job.old[a]]_vars

\* The logical data that the caller may count on.
Stored ==
    CASE pc = "off" -> left
      [] pc = "log" -> job.old
      [] OTHER -> cache

\* The write that has been accepted and is not finished.
Unwritten == IF pc = "log" THEN {[a \in job.unit |-> cache[a]]} ELSE {}

Abstract == INSTANCE Eeprom
    WITH Value <- UNION {{0} \cup ToSet(d) : d \in UNION {b.Blocks : b \in Stores}},
         Units <- {a..a + Len(d) - 1 : a \in Addr, d \in UNION {b.Blocks : b \in Stores}}
                    \cap SUBSET Addr,
         store <- Stored, pending <- Unwritten, powered <- (pc # "off")

\* The driver is an EEPROM: a block is written or it is not, wherever power is lost,
\* and a power loss in the course of a consolidation loses everything or nothing.
ImplementsEeprom == Abstract!Spec
=============================================================================
