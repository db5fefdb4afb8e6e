---------------------------- MODULE FlashEeprom ----------------------------
(***************************************************************************)
(* The emulated EEPROM of the K3 Pro (STM32L432): eeprom_stm32_l4.c on top *)
(* of flash_stm32.c.  The EEPROM lives in flash as a compacted image of    *)
(* the bytes, followed by a log of the changes since; RAM holds a copy     *)
(* (DataBuf).  Flash is programmed one double word (a "cell") at a time    *)
(* and erased one page at a time, and power may be lost before, during or  *)
(* after every one of those operations.                                    *)
(*                                                                         *)
(* Both areas hold complements, so an erased cell reads as zero and the    *)
(* driver takes a cell that reads zero for an unprogrammed one: comp holds *)
(* the decoded bytes and "blank" is CellBlank.  The compacted area is one  *)
(* page (FEE_DENSITY_BYTES = FEE_PAGE_SIZE, k3_pro/config.h); page p > 0   *)
(* is the p-th page of the log.  Flash operations are taken to complete:   *)
(* the timeouts of flash_stm32.c do not fire.                              *)
(***************************************************************************)
EXTENDS Integers, Functions

CONSTANTS
    NCells,         \* cells of the compacted area
    Offsets,        \* the bytes of one cell
    Spans,          \* the sets of bytes within a cell that one call writes
    MaxValue,       \* a byte holds 0..MaxValue
    LogPages,       \* pages of the write log
    PageSlots       \* log entries per page

ASSUME ConstantsAssumption ==
    /\ NCells \in Nat \ {0}
    /\ Spans \subseteq SUBSET Offsets
    /\ MaxValue \in Nat
    /\ LogPages \in Nat \ {0}
    /\ PageSlots \in Nat \ {0}

Cells == 0..(NCells - 1)
Value == 0..MaxValue
Addr == Cells \X Offsets
LogSlots == LogPages * PageSlots

\* eeprom_write_block cuts a write into aligned bytes, words and double words,
\* none of which crosses a cell.
Units == {{c} \X s : c \in Cells, s \in Spans}

Blank == [kind |-> "blank"]
\* Partly programmed: the address word still reads as empty, the slot is not blank.
Torn == [kind |-> "torn"]
\* Damaged: reading it is reported by the ECC.
Bad == [kind |-> "bad"]
Entry(d) == [kind |-> "entry", data |-> d]
Entries == {Entry(d) : d \in UNION {[u -> Value] : u \in Units}}
Slot == {Blank, Torn, Bad} \cup Entries

VARIABLES
    comp,       \* compacted area: comp[a] is the decoded byte
    badCells,   \* cells of the compacted area whose ECC fails
    log,        \* the write log
    DataBuf,    \* RAM copy of the EEPROM
    empty_slot, \* first available slot of the log
    pc,         \* what the driver is doing
    job,        \* the unit that EEPROM_WriteData* is writing
    after,      \* what follows the clearing of the pages
    index,      \* loop counter of eeprom_clear and eeprom_compact
    harmed      \* history: power was lost during a compaction, or left a torn slot,
                \* and the flash has not been erased since

flash == <<comp, badCells, log>>
vars == <<comp, badCells, log, DataBuf, empty_slot, pc, job, after, index, harmed>>

Erased == [a \in Addr |-> 0]
Overwrite(d, s) == [a \in Addr |-> IF a \in DOMAIN d THEN d[a] ELSE s[a]]
CellBlank(c) == \A o \in Offsets : comp[<<c, o>>] = 0
-----------------------------------------------------------------------------
(***************************************************************************)
(* EEPROM_Init: what the flash says.                                       *)
(***************************************************************************)
\* The slot at which the replay ends: the first that holds no entry.
ReplayEnd ==
    CHOOSE n \in 0..LogSlots :
        /\ n < LogSlots => log[n].kind # "entry"
        /\ \A i \in 0..(n - 1) : log[i].kind = "entry"

\* Entry i of the log is the last one that writes a.
IsLast(i, a) ==
    /\ a \in DOMAIN log[i].data
    /\ \A j \in (i + 1)..(ReplayEnd - 1) : a \notin DOMAIN log[j].data

\* The compacted bytes, overwritten by the log entries in order.
Replay ==
    [a \in Addr |->
        IF \E i \in 0..(ReplayEnd - 1) : a \in DOMAIN log[i].data
        THEN log[CHOOSE i \in 0..(ReplayEnd - 1) : IsLast(i, a)].data[a]
        ELSE comp[a]]

\* The NMI handler reports an ECC error of something the replay reads.
eccd ==
    \/ badCells # {}
    \/ ReplayEnd < LogSlots /\ log[ReplayEnd] = Bad

\* keyboard_setup: initialise the driver; after an ECC error eeconfig_init erases
\* everything first.
EEPROM_Init ==
    /\ pc = "off"
    /\ DataBuf' = Replay
    /\ empty_slot' = ReplayEnd
    /\ IF eccd THEN pc' = "clear" /\ after' = "init"
               ELSE pc' = "idle" /\ UNCHANGED after
    /\ index' = 0
    /\ UNCHANGED <<flash, job, harmed>>
-----------------------------------------------------------------------------
(***************************************************************************)
(* Clearing and compacting.                                                *)
(***************************************************************************)
\* A page of the log with all of its slots erased.
LogWithoutPage(p) ==
    [i \in DOMAIN log |-> IF i \div PageSlots = p - 1 THEN Blank ELSE log[i]]

\* FLASH_ErasePage: page 0 is the compacted area.
ErasePage(p) ==
    IF p = 0 THEN comp' = Erased /\ badCells' = {} /\ UNCHANGED log
             ELSE log' = LogWithoutPage(p) /\ UNCHANGED <<comp, badCells>>

EEPROM_Erase ==
    /\ pc = "idle"
    /\ pc' = "clear" /\ after' = "init" /\ index' = 0
    /\ UNCHANGED <<flash, DataBuf, empty_slot, job, harmed>>

\* One round of eeprom_clear.  The last one resets the log and goes on to
\* EEPROM_Init (which finds the flash erased) or to eeprom_compact.
ClearPage ==
    /\ pc = "clear"
    /\ ErasePage(index)
    /\ IF index < LogPages
       THEN index' = index + 1 /\ UNCHANGED <<DataBuf, empty_slot, pc, harmed>>
       ELSE /\ index' = 0
            /\ empty_slot' = 0
            /\ IF after = "init" THEN pc' = "idle" /\ DataBuf' = Erased /\ harmed' = FALSE
                                 ELSE pc' = "fill" /\ UNCHANGED <<DataBuf, harmed>>
    /\ UNCHANGED <<job, after>>

\* The cell c of the compacted area, programmed from DataBuf.
ProgramCell(c) ==
    /\ comp' = [a \in Addr |-> IF a[1] = c THEN DataBuf[a] ELSE comp[a]]
    /\ UNCHANGED <<badCells, log>>

\* Mutant of FillCell: the last cell is left out.
FillCellShort ==
    /\ pc = "fill"
    /\ ProgramCell(index)
    /\ IF index + 1 < NCells - 1 THEN index' = index + 1 /\ UNCHANGED pc
                                 ELSE index' = 0 /\ pc' = after
    /\ UNCHANGED <<DataBuf, empty_slot, job, after, harmed>>

\* One round of eeprom_compact: a cell of zeroes is left unprogrammed.
FillCell ==
    /\ pc = "fill"
    /\ ProgramCell(index)
    /\ IF index < NCells - 1 THEN index' = index + 1 /\ UNCHANGED pc
                             ELSE index' = 0 /\ pc' = after
    /\ UNCHANGED <<DataBuf, empty_slot, job, after, harmed>>
-----------------------------------------------------------------------------
(***************************************************************************)
(* EEPROM_WriteDataByte, EEPROM_WriteDataWord, EEPROM_WriteDataDWord.      *)
(***************************************************************************)
\* eeprom_write_direct_entry: the cell is unprogrammed.  Nothing is to be
\* programmed when it is to hold zeroes.
StartDirect(c) ==
    /\ CellBlank(c)
    /\ pc' = IF \A o \in Offsets : DataBuf'[<<c, o>>] = 0 THEN "idle" ELSE "direct"
    /\ UNCHANGED <<after, index>>

\* eeprom_write_log_*_entry with no slot left: compact, which also writes the data.
StartCompact(c) ==
    /\ ~CellBlank(c)
    /\ empty_slot >= LogSlots
    /\ pc' = "clear" /\ after' = "idle" /\ index' = 0

\* Mutant of StartLog: no blank_check.
StartLogUnchecked(c) ==
    /\ ~CellBlank(c)
    /\ empty_slot < LogSlots
    /\ pc' = "log" /\ UNCHANGED <<after, index>>

\* ... with a slot, after blank_check: erase the page when its first slot is not
\* blank, compact when another slot is not.
StartLog(c) ==
    /\ ~CellBlank(c)
    /\ empty_slot < LogSlots
    /\ IF log[empty_slot] = Blank
       THEN pc' = "log" /\ UNCHANGED <<after, index>>
       ELSE IF empty_slot % PageSlots = 0
            THEN pc' = "page" /\ UNCHANGED <<after, index>>
            ELSE pc' = "clear" /\ after' = "log" /\ index' = 0

\* The call: nothing to do when the bytes already hold the value.
EEPROM_WriteData(c, d) ==
    /\ pc = "idle"
    /\ \E a \in DOMAIN d : DataBuf[a] # d[a]
    /\ DataBuf' = Overwrite(d, DataBuf)
    /\ job' = DOMAIN d
    /\ StartDirect(c) \/ StartCompact(c) \/ StartLog(c)
    /\ UNCHANGED <<flash, empty_slot, harmed>>

JobCell == (CHOOSE a \in job : TRUE)[1]

ProgramDirect ==
    /\ pc = "direct"
    /\ ProgramCell(JobCell)
    /\ pc' = "idle"
    /\ UNCHANGED <<DataBuf, empty_slot, job, after, index, harmed>>

EraseLogPage ==
    /\ pc = "page"
    /\ ErasePage(empty_slot \div PageSlots + 1)
    /\ pc' = "log"
    /\ UNCHANGED <<DataBuf, empty_slot, job, after, index, harmed>>

NewEntry == Entry([a \in job |-> DataBuf[a]])

\* Mutant of ProgramLog: the slot used is counted twice.
ProgramLogSkips ==
    /\ pc = "log"
    /\ log' = [log EXCEPT ![empty_slot] = NewEntry]
    /\ empty_slot' = empty_slot + 2
    /\ pc' = "idle"
    /\ UNCHANGED <<comp, badCells, DataBuf, job, after, index, harmed>>

ProgramLog ==
    /\ pc = "log"
    /\ log' = [log EXCEPT ![empty_slot] = NewEntry]
    /\ empty_slot' = empty_slot + 1
    /\ pc' = "idle"
    /\ UNCHANGED <<comp, badCells, DataBuf, job, after, index, harmed>>
-----------------------------------------------------------------------------
(***************************************************************************)
(* Power is lost.  The flash operation in progress has taken place, or it  *)
(* has not, or it has left the double word it was programming damaged.     *)
(***************************************************************************)
\* Mutant of CutProgram: the bytes of a double word are programmed one by one.
CutProgramByByte(c) ==
    /\ \E o \in Offsets : comp' = [comp EXCEPT ![<<c, o>>] = DataBuf[<<c, o>>]]
    /\ UNCHANGED <<badCells, log>>

CutProgram(c) ==
    \/ ProgramCell(c)
    \/ badCells' = badCells \cup {c} /\ UNCHANGED <<comp, log>>

CutOperation ==
    \/ UNCHANGED flash
    \/ pc = "direct" /\ CutProgram(JobCell)
    \/ pc = "fill" /\ CutProgram(index)
    \/ pc = "clear" /\ ErasePage(index)
    \/ pc = "page" /\ ErasePage(empty_slot \div PageSlots + 1)
    \/ /\ pc = "log"
       /\ \E s \in {NewEntry, Bad, Torn} : log' = [log EXCEPT ![empty_slot] = s]
       /\ UNCHANGED <<comp, badCells>>

PowerLoss ==
    /\ pc # "off"
    /\ CutOperation
    /\ harmed' = (harmed \/ pc \in {"clear", "fill"} \/ Torn \in Range(log'))
    /\ pc' = "off"
    /\ DataBuf' = Erased /\ empty_slot' = 0
    /\ job' = {} /\ after' = "idle" /\ index' = 0

Init ==
    /\ comp = Erased /\ badCells = {}
    /\ log = [i \in 0..(LogSlots - 1) |-> Blank]
    /\ DataBuf = Erased /\ empty_slot = 0
    /\ pc = "off" /\ job = {} /\ after = "idle" /\ index = 0 /\ harmed = FALSE

WriteSome ==
    \E c \in Cells, s \in Spans :
        \E d \in [{c} \X s -> Value] : EEPROM_WriteData(c, d)

Next ==
    \/ EEPROM_Init
    \/ EEPROM_Erase
    \/ ClearPage
    \/ FillCell
    \/ WriteSome
    \/ ProgramDirect
    \/ EraseLogPage
    \/ ProgramLog
    \/ PowerLoss

Spec == Init /\ [][Next]_vars
-----------------------------------------------------------------------------
(***************************************************************************)
(* Properties.                                                             *)
(***************************************************************************)
\* The types of the variables.
TypeOK ==
    /\ comp \in [Addr -> Value]
    /\ badCells \subseteq Cells
    /\ log \in [0..(LogSlots - 1) -> Slot]
    /\ DataBuf \in [Addr -> Value]
    /\ empty_slot \in 0..LogSlots
    /\ pc \in {"off", "idle", "clear", "fill", "direct", "page", "log"}
    /\ job \in {{}} \cup Units
    /\ after \in {"idle", "log", "init"}
    /\ index \in Nat
    /\ harmed \in BOOLEAN

\* Whenever no call is in progress, a restart would read back exactly the bytes
\* that the RAM copy now returns: every completed EEPROM_WriteData* is in flash,
\* no log entry hides a directly programmed cell, and nothing old reappears.  This
\* is lost when power fails during a compaction or leaves a torn slot, until the
\* next EEPROM_Erase.
Durable == pc = "idle" /\ ~harmed => ~eccd /\ Replay = DataBuf

\* The same without the exception, as feature_eeprom.md has it: settings "are
\* retained even after power loss".
Retained == pc = "idle" => ~eccd /\ Replay = DataBuf

\* The driver programs a double word only when it is erased, which is what the
\* flash controller requires: log slots and compacted cells change only from or to
\* their erased content.  blank_check and eeprom_write_direct_entry exist for this.
ProgramsErasedOnly ==
    [][/\ \A i \in DOMAIN log : log'[i] # log[i] => Blank \in {log[i], log'[i]}
       /\ \A c \in Cells :
            (\E o \in Offsets : comp'[<<c, o>>] # comp[<<c, o>>])
                => CellBlank(c) \/ CellBlank(c)']_vars

\* The bytes that the driver answers for: what is in flash while a write is still
\* to be programmed, the RAM copy once flash is being rebuilt from it, nothing
\* while it is harmed.
Stored ==
    CASE harmed -> Erased
      [] ~harmed /\ pc = "off" -> IF eccd THEN Erased ELSE Replay
      [] ~harmed /\ pc \in {"direct", "page", "log"} -> Replay
      [] ~harmed /\ pc = "idle" -> DataBuf
      [] ~harmed /\ pc \in {"clear", "fill"} -> IF after = "init" THEN Erased ELSE DataBuf

\* The write that has been accepted and is not in flash yet.
Unwritten ==
    IF pc \in {"direct", "page", "log"} /\ ~harmed THEN {[a \in job |-> DataBuf[a]]} ELSE {}

Abstract == INSTANCE Eeprom
    WITH store <- Stored, pending <- Unwritten, powered <- (pc # "off" /\ ~harmed)

\* The driver is an EEPROM: writes are atomic and survive a loss of power, wherever
\* it falls; an EEPROM that has been harmed counts as switched off until it is erased.
ImplementsEeprom == Abstract!Spec
=============================================================================
