------------------------- MODULE FlashEepromProofs -------------------------
(***************************************************************************)
(* Proofs about FlashEeprom, for every size of the flash.                  *)
(*                                                                         *)
(* The inductive invariant IInv has four parts.  Shape says which of the   *)
(* driver's local values are meaningful at which point of the code.        *)
(* Erasure says what has been erased at each point, which is what makes    *)
(* programming legal.  Faithful is the heart: as long as nothing has been  *)
(* harmed, the log is a block of entries followed by erased slots, every   *)
(* entry is about a programmed cell (so that no later direct write can be  *)
(* hidden by it), and what a restart would read differs from the RAM copy  *)
(* at most in the bytes of the write in progress.                          *)
(***************************************************************************)
EXTENDS FlashEeprom, WellFoundedInduction, TLAPS

\* Which of the driver's local values are in use.
Shape ==
    /\ (pc \in {"direct", "page", "log"} \/ (pc \in {"clear", "fill"} /\ after = "log"))
          => job \in Units \ {{}}
    /\ pc \in {"page", "log"} => empty_slot < LogSlots
    /\ pc = "clear" => index \in 0..LogPages
    /\ pc = "fill" => index \in Cells /\ after # "init" /\ empty_slot = 0

\* What is erased when the driver relies on it.
Erasure ==
    /\ pc = "clear" /\ index > 0 => comp = Erased /\ badCells = {}
    /\ pc = "clear" =>
          \A i \in 0..(LogSlots - 1) : i \div PageSlots < index - 1 => log[i] = Blank
    /\ pc = "fill" =>
          /\ badCells = {}
          /\ \A i \in 0..(LogSlots - 1) : log[i] = Blank
          /\ \A c \in Cells : c >= index => CellBlank(c)
    /\ pc = "direct" => CellBlank(JobCell)
    /\ pc = "log" => log[empty_slot] = Blank

\* A cell of the compacted area cp is unprogrammed.
BlankIn(cp, c) == \A o \in Offsets : cp[<<c, o>>] = 0

\* The first n slots of the log lg hold entries about programmed cells of cp.
Logged(cp, lg, n) ==
    \A i \in 0..(n - 1) :
        lg[i].kind = "entry" /\ \A a \in DOMAIN lg[i].data : ~BlankIn(cp, a[1])

\* The slots of lg from n on are erased.
BlankFrom(lg, n) == \A i \in n..(LogSlots - 1) : lg[i] = Blank

\* What holds of an EEPROM that has not been harmed.
Faithful ==
    ~harmed =>
        /\ pc # "page"
        /\ pc \in {"clear", "fill"} => after # "log"
        /\ pc = "off" =>
              \E n \in 0..LogSlots :
                  /\ Logged(comp, log, n)
                  /\ BlankFrom(log, n + 1)
                  /\ n < LogSlots => log[n] \in {Blank, Bad}
        /\ pc \in {"idle", "direct", "log"} =>
              /\ badCells = {}
              /\ Logged(comp, log, empty_slot)
              /\ BlankFrom(log, empty_slot)
        /\ pc = "idle" => Replay = DataBuf
        /\ pc \in {"direct", "log"} => \A a \in Addr \ job : Replay[a] = DataBuf[a]
        /\ pc = "log" => ~CellBlank(JobCell)
        /\ pc = "fill" => \A a \in Addr : a[1] < index => comp[a] = DataBuf[a]

IInv == TypeOK /\ Shape /\ Erasure /\ Faithful
-----------------------------------------------------------------------------
(***************************************************************************)
(* Numbers, slots and entries.                                             *)
(***************************************************************************)
\* The log has at least one slot.
LEMMA SlotCount == LogSlots \in Nat /\ LogSlots > 0
<1>1. \A x, y \in Nat \ {0} : x * y \in Nat /\ x * y > 0
  BY SMT
<1> QED
  BY <1>1, ConstantsAssumption DEF LogSlots

\* Every slot is in one of the pages.
LEMMA PageOfSlot ==
    ASSUME NEW i \in 0..(LogSlots - 1)
    PROVE  i \div PageSlots \in 0..(LogPages - 1)
<1>1. \A l, p \in Nat \ {0} : \A k \in Nat : k < l * p => k \div p >= 0 /\ k \div p < l
  BY SMT
<1>2. i \in Nat /\ i < LogPages * PageSlots
  BY SlotCount DEF LogSlots
<1>3. i \div PageSlots >= 0 /\ i \div PageSlots < LogPages
  BY <1>1, <1>2, ConstantsAssumption
<1>4. i \div PageSlots \in Int
  BY <1>2, ConstantsAssumption
<1> QED
  BY <1>3, <1>4, ConstantsAssumption

Less == {p \in Nat \X Nat : p[1] < p[2]}

\* A set of natural numbers that is not empty has a least element.
LEMMA LeastExists ==
    ASSUME NEW S, S \subseteq Nat, S # {}
    PROVE  \E x \in S : \A y \in S : x =< y
<1>1. IsWellFoundedOn(Less, Nat)
  BY NatLessThanWellFounded DEF OpToRel, Less
<1>2. PICK x \in S : \A y \in S : ~ (<<y, x>> \in Less)
  BY <1>1, WFMin
<1>3. ASSUME NEW y \in S
      PROVE  x =< y
  <2>1. x \in Nat /\ y \in Nat
    OBVIOUS
  <2>2. ~ (y < x)
    BY <1>2, <2>1 DEF Less
  <2> QED
    BY <2>1, <2>2
<1> QED
  BY <1>3

\* A set of natural numbers below n that is not empty has a greatest element.
LEMMA GreatestExists ==
    ASSUME NEW n \in Nat, NEW S, S \subseteq 0..(n - 1), S # {}
    PROVE  \E x \in S : \A y \in S : y =< x
<1> DEFINE T == {n - x : x \in S}
<1>1. T \subseteq Nat /\ T # {}
  OBVIOUS
<1>2. PICK t \in T : \A u \in T : t =< u
  <2> HIDE DEF T
  <2> QED
    BY <1>1, LeastExists
<1>3. PICK x \in S : t = n - x
  OBVIOUS
<1>4. ASSUME NEW y \in S
      PROVE  y =< x
  <2>1. n - y \in T
    OBVIOUS
  <2>2. t =< n - y
    BY <1>2, <2>1
  <2>3. x \in Int /\ y \in Int
    OBVIOUS
  <2> QED
    BY <1>3, <2>2, <2>3
<1> QED
  BY <1>4

\* The four kinds of slots are told apart by their kind.
LEMMA SlotKinds ==
    /\ Blank \in Slot /\ Torn \in Slot /\ Bad \in Slot
    /\ Blank.kind # "entry" /\ Torn.kind # "entry" /\ Bad.kind # "entry"
    /\ Blank # Bad /\ Blank # Torn /\ Torn # Bad
BY DEF Slot, Blank, Torn, Bad

\* A unit is a set of addresses of one cell.
LEMMA UnitInCell ==
    ASSUME NEW u \in Units
    PROVE  /\ u \subseteq Addr
           /\ \A a, b \in u : a[1] = b[1]
BY ConstantsAssumption DEF Units, Addr

\* An entry holds bytes of one unit.
LEMMA EntryData ==
    ASSUME NEW s \in Slot, s.kind = "entry"
    PROVE  \E u \in Units : s.data \in [u -> Value]
<1>1. s \in Entries
  BY SlotKinds DEF Slot
<1>2. PICK d \in UNION {[u -> Value] : u \in Units} : s = Entry(d)
  BY <1>1 DEF Entries
<1>3. s.data = d
  BY <1>2 DEF Entry
<1> QED
  BY <1>2, <1>3

\* The entry of some bytes is a slot, and holds these bytes.
LEMMA EntrySlot ==
    ASSUME NEW u \in Units, NEW d \in [u -> Value]
    PROVE  Entry(d) \in Slot /\ Entry(d).kind = "entry" /\ Entry(d).data = d
BY DEF Entry, Slot, Entries
-----------------------------------------------------------------------------
(***************************************************************************)
(* Replaying a log, as a function of the flash: what EEPROM_Init reads.    *)
(***************************************************************************)
Logs == [0..(LogSlots - 1) -> Slot]

EndsAt(lg, n) ==
    /\ n < LogSlots => lg[n].kind # "entry"
    /\ \A i \in 0..(n - 1) : lg[i].kind = "entry"

EndOf(lg) == CHOOSE n \in 0..LogSlots : EndsAt(lg, n)

LastOf(lg, n, i, a) ==
    /\ a \in DOMAIN lg[i].data
    /\ \A j \in (i + 1)..(n - 1) : a \notin DOMAIN lg[j].data

PlayBack(cp, lg) ==
    [a \in Addr |->
        IF \E i \in 0..(EndOf(lg) - 1) : a \in DOMAIN lg[i].data
        THEN lg[CHOOSE i \in 0..(EndOf(lg) - 1) : LastOf(lg, EndOf(lg), i, a)].data[a]
        ELSE cp[a]]

\* The replay of the model is the playback of the flash, now and after a step.
LEMMA ReplayIsPlayBack ==
    /\ ReplayEnd = EndOf(log) /\ Replay = PlayBack(comp, log)
    /\ ReplayEnd' = EndOf(log') /\ Replay' = PlayBack(comp', log')
BY DEF ReplayEnd, EndOf, EndsAt, Replay, PlayBack, IsLast, LastOf

\* A log ends at one place only.
LEMMA EndUnique ==
    ASSUME NEW lg, NEW n \in 0..LogSlots, EndsAt(lg, n)
    PROVE  EndOf(lg) = n
<1>1. ASSUME NEW m \in 0..LogSlots, EndsAt(lg, m)
      PROVE  m = n
  <2>1. ~ (m < n)
    BY <1>1, SlotCount DEF EndsAt
  <2>2. ~ (n < m)
    BY <1>1, SlotCount DEF EndsAt
  <2> QED
    BY <2>1, <2>2, SlotCount
<1> QED
  BY <1>1 DEF EndOf

\* Every log ends somewhere: at its first slot without an entry.
LEMMA EndExists ==
    ASSUME NEW lg \in Logs
    PROVE  EndOf(lg) \in 0..LogSlots /\ EndsAt(lg, EndOf(lg))
<1> DEFINE S == {i \in 0..LogSlots : i < LogSlots => lg[i].kind # "entry"}
<1>1. S \subseteq Nat /\ S # {} /\ S \subseteq 0..LogSlots
  BY SlotCount
<1>2. PICK n \in S : \A y \in S : n =< y
  <2> HIDE DEF S
  <2> QED
    BY <1>1, LeastExists
<1>3. \A i \in 0..(n - 1) : lg[i].kind = "entry"
  BY <1>2, SlotCount
<1>4. EndsAt(lg, n)
  BY <1>3 DEF EndsAt
<1> QED
  BY <1>4 DEF EndOf

\* Among the entries that write an address, one is the last.
LEMMA LastExists ==
    ASSUME NEW lg, NEW n \in Nat, NEW a, NEW i \in 0..(n - 1), a \in DOMAIN lg[i].data
    PROVE  \E k \in 0..(n - 1) : LastOf(lg, n, k, a)
<1> DEFINE S == {k \in 0..(n - 1) : a \in DOMAIN lg[k].data}
<1>1. S \subseteq 0..(n - 1) /\ S # {}
  OBVIOUS
<1>2. PICK k \in S : \A y \in S : y =< k
  <2> HIDE DEF S
  <2> QED
    BY <1>1, GreatestExists
<1>3. \A j \in (k + 1)..(n - 1) : a \notin DOMAIN lg[j].data
  BY <1>2
<1> QED
  BY <1>3 DEF LastOf

\* The last entry that writes an address decides what it reads.
LEMMA PlayBackLogged ==
    ASSUME NEW cp, NEW lg, NEW n \in 0..LogSlots, EndsAt(lg, n),
           NEW a \in Addr, NEW i \in 0..(n - 1), LastOf(lg, n, i, a)
    PROVE  PlayBack(cp, lg)[a] = lg[i].data[a]
<1>1. EndOf(lg) = n
  BY EndUnique
<1>2. ASSUME NEW k \in 0..(n - 1), LastOf(lg, n, k, a)
      PROVE  k = i
  <2>1. k \in Int /\ i \in Int /\ n \in Int
    BY SlotCount
  <2>2. ~ (k < i)
    BY <1>2, <2>1 DEF LastOf
  <2>3. ~ (i < k)
    BY <1>2, <2>1 DEF LastOf
  <2> QED
    BY <2>1, <2>2, <2>3
<1>3. (CHOOSE k \in 0..(n - 1) : LastOf(lg, n, k, a)) = i
  BY <1>2
<1>4. \E k \in 0..(n - 1) : a \in DOMAIN lg[k].data
  BY DEF LastOf
<1> QED
  BY <1>1, <1>3, <1>4 DEF PlayBack

\* An address that no entry writes reads as the compacted area has it.
LEMMA PlayBackUnlogged ==
    ASSUME NEW cp, NEW lg, NEW n \in 0..LogSlots, EndsAt(lg, n),
           NEW a \in Addr, \A i \in 0..(n - 1) : a \notin DOMAIN lg[i].data
    PROVE  PlayBack(cp, lg)[a] = cp[a]
<1>1. EndOf(lg) = n
  BY EndUnique
<1> QED
  BY <1>1 DEF PlayBack

\* What is read are bytes.
LEMMA PlayBackType ==
    ASSUME NEW lg \in Logs, NEW cp \in [Addr -> Value]
    PROVE  PlayBack(cp, lg) \in [Addr -> Value]
<1> DEFINE n == EndOf(lg)
<1>1. n \in 0..LogSlots /\ EndsAt(lg, n)
  BY EndExists
<1>2. ASSUME NEW a \in Addr
      PROVE  PlayBack(cp, lg)[a] \in Value
  <2>1. CASE \A i \in 0..(n - 1) : a \notin DOMAIN lg[i].data
    BY <1>1, <2>1, PlayBackUnlogged
  <2>2. CASE \E i \in 0..(n - 1) : a \in DOMAIN lg[i].data
    <3>1. PICK i \in 0..(n - 1) : LastOf(lg, n, i, a)
      <4> n \in Nat
        BY <1>1, SlotCount
      <4> HIDE DEF n
      <4> QED
        BY <2>2, LastExists
    <3>2. PlayBack(cp, lg)[a] = lg[i].data[a]
      BY <1>1, <3>1, PlayBackLogged
    <3>3. lg[i] \in Slot /\ lg[i].kind = "entry"
      BY <1>1, SlotCount DEF EndsAt, Logs
    <3>4. PICK u \in Units : lg[i].data \in [u -> Value]
      BY <3>3, EntryData
    <3> QED
      BY <3>1, <3>2, <3>4 DEF LastOf
  <2> QED
    BY <2>1, <2>2
<1>3. PlayBack(cp, lg) = [a \in Addr |-> PlayBack(cp, lg)[a]]
  BY DEF PlayBack
<1> QED
  BY <1>2, <1>3
-----------------------------------------------------------------------------
(***************************************************************************)
(* The types, and what each flash operation does to the flash.             *)
(***************************************************************************)
FlashOK == comp \in [Addr -> Value] /\ badCells \subseteq Cells /\ log \in Logs

LEMMA ErasedType == Erased \in [Addr -> Value]
BY ConstantsAssumption DEF Erased, Value

\* The unit in progress lies in one cell.
LEMMA JobInCell ==
    ASSUME job \in Units \ {{}}
    PROVE  /\ JobCell \in Cells
           /\ \A a \in job : a \in Addr /\ a[1] = JobCell
<1>1. (CHOOSE a \in job : TRUE) \in job
  OBVIOUS
<1>2. job \subseteq Addr /\ \A a, b \in job : a[1] = b[1]
  BY UnitInCell
<1> QED
  BY <1>1, <1>2 DEF JobCell, Addr

\* The entry of the unit in progress.
LEMMA NewEntryFacts ==
    ASSUME TypeOK, job \in Units \ {{}}
    PROVE  /\ NewEntry \in Slot
           /\ NewEntry.kind = "entry"
           /\ NewEntry.data = [a \in job |-> DataBuf[a]]
<1>1. [a \in job |-> DataBuf[a]] \in [job -> Value]
  BY UnitInCell DEF TypeOK
<1> QED
  BY <1>1, EntrySlot DEF NewEntry

\* Bytes written over the RAM copy.
LEMMA OverlayFacts ==
    ASSUME NEW f \in [Addr -> Value], NEW u \in Units, NEW d \in [u -> Value]
    PROVE  /\ Overwrite(d, f) \in [Addr -> Value]
           /\ \A a \in u : Overwrite(d, f)[a] = d[a]
           /\ \A a \in Addr \ u : Overwrite(d, f)[a] = f[a]
<1>1. u \subseteq Addr
  BY UnitInCell
<1>2. DOMAIN d = u /\ DOMAIN f = Addr
  OBVIOUS
<1> QED
  BY <1>1, <1>2 DEF Overwrite

LEMMA ErasePageType ==
    ASSUME FlashOK, NEW p \in Int, ErasePage(p)
    PROVE  FlashOK'
<1>1. CASE p = 0
  BY <1>1, ErasedType DEF ErasePage, FlashOK
<1>2. CASE p # 0
  <2>1. \A i \in DOMAIN log : LogWithoutPage(p)[i] \in Slot
    BY SlotKinds DEF LogWithoutPage, FlashOK, Logs
  <2> QED
    BY <1>2, <2>1 DEF ErasePage, LogWithoutPage, FlashOK, Logs
<1> QED
  BY <1>1, <1>2

LEMMA ProgramCellType ==
    ASSUME FlashOK, DataBuf \in [Addr -> Value], NEW c, ProgramCell(c)
    PROVE  FlashOK'
BY DEF FlashOK, ProgramCell

LEMMA CutOperationType ==
    ASSUME TypeOK, Shape, CutOperation
    PROVE  FlashOK'
<1>1. FlashOK
  BY DEF FlashOK, TypeOK, Logs
<1>2. CASE UNCHANGED flash
  BY <1>1, <1>2 DEF FlashOK, flash
<1>3. CASE pc = "direct" /\ CutProgram(JobCell)
  <2>1. JobCell \in Cells
    BY <1>3, JobInCell DEF Shape
  <2>2. CASE ProgramCell(JobCell)
    BY <1>1, <2>2, ProgramCellType DEF TypeOK
  <2> QED
    BY <1>1, <1>3, <2>1, <2>2 DEF CutProgram, FlashOK
<1>4. CASE pc = "fill" /\ CutProgram(index)
  <2>1. index \in Cells
    BY <1>4 DEF Shape
  <2>2. CASE ProgramCell(index)
    BY <1>1, <2>2, ProgramCellType DEF TypeOK
  <2> QED
    BY <1>1, <1>4, <2>1, <2>2 DEF CutProgram, FlashOK
<1>5. CASE pc = "clear" /\ ErasePage(index)
  BY <1>1, <1>5, ErasePageType DEF TypeOK
<1>6. CASE pc = "page" /\ ErasePage(empty_slot \div PageSlots + 1)
  <2>1. empty_slot \div PageSlots + 1 \in Int
    BY ConstantsAssumption, SlotCount DEF TypeOK
  <2> QED
    BY <1>1, <1>6, <2>1, ErasePageType
<1>7. CASE /\ pc = "log"
           /\ \E s \in {NewEntry, Bad, Torn} : log' = [log EXCEPT ![empty_slot] = s]
           /\ UNCHANGED <<comp, badCells>>
  <2>1. NewEntry \in Slot
    BY <1>7, NewEntryFacts DEF Shape
  <2> QED
    BY <1>1, <1>7, <2>1, SlotKinds DEF FlashOK, Logs
<1> QED
  BY <1>2, <1>3, <1>4, <1>5, <1>6, <1>7 DEF CutOperation

\* Types and Shape together are inductive.
LEMMA TypesInit == Init => TypeOK /\ Shape
<1> SUFFICES ASSUME Init
             PROVE  TypeOK /\ Shape
  OBVIOUS
<1>1. [i \in 0..(LogSlots - 1) |-> Blank] \in [0..(LogSlots - 1) -> Slot]
  BY SlotKinds
<1>2. harmed \in BOOLEAN
  BY DEF Init
<1> QED
  BY <1>1, <1>2, ErasedType, SlotCount DEF Init, TypeOK, Shape

LEMMA TypesNext ==
    ASSUME TypeOK, Shape, [Next]_vars
    PROVE  TypeOK' /\ Shape'
<1>0. FlashOK
  BY DEF FlashOK, TypeOK, Logs
<1>1. CASE EEPROM_Init
  <2>1. Replay \in [Addr -> Value]
    BY <1>0, ReplayIsPlayBack, PlayBackType DEF FlashOK
  <2>2. ReplayEnd \in 0..LogSlots
    BY <1>0, ReplayIsPlayBack, EndExists DEF FlashOK
  <2> QED
    BY <1>1, <2>1, <2>2, ConstantsAssumption DEF EEPROM_Init, TypeOK, Shape, flash
<1>2. CASE EEPROM_Erase
  BY <1>2, ConstantsAssumption DEF EEPROM_Erase, TypeOK, Shape, flash
<1>3. CASE ClearPage
  <2>1. FlashOK'
    BY <1>0, <1>3, ErasePageType DEF ClearPage, TypeOK
  <2>2. 0 \in Cells
    BY ConstantsAssumption DEF Cells
  <2>3. CASE index < LogPages
    BY <1>3, <2>1, <2>3, ConstantsAssumption DEF ClearPage, TypeOK, Shape, FlashOK, Logs
  <2>4. CASE ~ (index < LogPages)
    <3>1. harmed' \in BOOLEAN
      BY <1>3, <2>4 DEF ClearPage, TypeOK
    <3> QED
      BY <1>3, <2>1, <2>2, <2>4, <3>1, ErasedType, SlotCount DEF ClearPage, TypeOK, Shape, FlashOK, Logs
  <2> QED
    BY <2>3, <2>4
<1>4. CASE FillCell
  <2>1. FlashOK'
    BY <1>0, <1>4, ProgramCellType DEF FillCell, TypeOK
  <2>2. CASE index < NCells - 1
    BY <1>4, <2>1, <2>2, ConstantsAssumption DEF FillCell, TypeOK, Shape, FlashOK, Logs, Cells
  <2>3. CASE ~ (index < NCells - 1)
    BY <1>4, <2>1, <2>3, SlotCount DEF FillCell, TypeOK, Shape, FlashOK, Logs
  <2> QED
    BY <2>2, <2>3
<1>5. CASE WriteSome
  <2>1. PICK c \in Cells, s \in Spans : \E d \in [{c} \X s -> Value] : EEPROM_WriteData(c, d)
    BY <1>5 DEF WriteSome
  <2>2. PICK d \in [{c} \X s -> Value] : EEPROM_WriteData(c, d)
    BY <2>1
  <2>3. DOMAIN d \in Units \ {{}} /\ d \in [DOMAIN d -> Value]
    BY <2>2 DEF EEPROM_WriteData, Units
  <2>4. DataBuf' \in [Addr -> Value]
    BY <2>2, <2>3, OverlayFacts DEF EEPROM_WriteData, TypeOK
  <2>5. job' \in Units \ {{}} /\ UNCHANGED <<comp, badCells, log, empty_slot, harmed>>
    BY <2>2, <2>3 DEF EEPROM_WriteData, flash
  <2>6. CASE StartDirect(c)
    BY <2>2, <2>4, <2>5, <2>6 DEF StartDirect, TypeOK, Shape, EEPROM_WriteData
  <2>7. CASE StartCompact(c)
    BY <2>2, <2>4, <2>5, <2>7, ConstantsAssumption DEF StartCompact, TypeOK, Shape
  <2>8. CASE StartLog(c)
    BY <2>2, <2>4, <2>5, <2>8, ConstantsAssumption DEF StartLog, TypeOK, Shape, EEPROM_WriteData
  <2> QED
    BY <2>2, <2>6, <2>7, <2>8 DEF EEPROM_WriteData
<1>6. CASE ProgramDirect
  <2>1. FlashOK'
    BY <1>0, <1>6, ProgramCellType DEF ProgramDirect, TypeOK
  <2> QED
    BY <1>6, <2>1 DEF ProgramDirect, TypeOK, Shape, FlashOK, Logs
<1>7. CASE EraseLogPage
  <2>1. empty_slot \div PageSlots + 1 \in Int
    BY ConstantsAssumption, SlotCount DEF TypeOK
  <2>2. FlashOK'
    BY <1>0, <1>7, <2>1, ErasePageType DEF EraseLogPage, TypeOK
  <2> QED
    BY <1>7, <2>2 DEF EraseLogPage, TypeOK, Shape, FlashOK, Logs
<1>8. CASE ProgramLog
  <2>1. NewEntry \in Slot
    BY <1>8, NewEntryFacts DEF Shape, ProgramLog
  <2>2. log' \in Logs
    BY <1>0, <1>8, <2>1 DEF ProgramLog, FlashOK, Logs
  <2>3. empty_slot' \in 0..LogSlots
    BY <1>8, SlotCount DEF ProgramLog, TypeOK, Shape
  <2> QED
    BY <1>8, <2>2, <2>3 DEF ProgramLog, TypeOK, Shape, Logs
<1>9. CASE PowerLoss
  <2>1. FlashOK'
    BY <1>9, CutOperationType DEF PowerLoss
  <2>2. harmed' \in BOOLEAN
    BY <1>9 DEF PowerLoss
  <2>3. 0 \in 0..LogSlots
    BY SlotCount
  <2> QED
    BY <1>9, <2>1, <2>2, <2>3, ErasedType DEF PowerLoss, TypeOK, Shape, FlashOK, Logs
<1>10. CASE UNCHANGED vars
  BY <1>10 DEF vars, TypeOK, Shape
<1> QED
  BY <1>1, <1>2, <1>3, <1>4, <1>5, <1>6, <1>7, <1>8, <1>9, <1>10 DEF Next

\* The variables keep their types: in particular EEPROM_Init always finds an end
\* of the log within it and reads bytes, whatever a loss of power has left, and the
\* log is never written past its last slot.
THEOREM TypeCorrect == Spec => []TypeOK
<1>1. Init => TypeOK /\ Shape
  BY TypesInit
<1>2. TypeOK /\ Shape /\ [Next]_vars => (TypeOK /\ Shape)'
  BY TypesNext
<1> QED
  BY <1>1, <1>2, PTL DEF Spec
-----------------------------------------------------------------------------
(***************************************************************************)
(* Only erased words are programmed.                                       *)
(***************************************************************************)
\* What erasing a page leaves.
LEMMA ErasePageEffect ==
    ASSUME FlashOK, NEW p \in Nat, ErasePage(p)
    PROVE  /\ p = 0 => comp' = Erased /\ badCells' = {} /\ log' = log
           /\ p # 0 => comp' = comp /\ badCells' = badCells
           /\ \A i \in 0..(LogSlots - 1) :
                log'[i] = IF p # 0 /\ i \div PageSlots = p - 1 THEN Blank ELSE log[i]
<1>1. DOMAIN log = 0..(LogSlots - 1)
  BY DEF FlashOK, Logs
<1> QED
  BY <1>1 DEF ErasePage, LogWithoutPage

\* What programming a cell leaves.
LEMMA ProgramCellEffect ==
    ASSUME FlashOK, NEW c, ProgramCell(c)
    PROVE  /\ \A a \in Addr : comp'[a] = IF a[1] = c THEN DataBuf[a] ELSE comp[a]
           /\ badCells' = badCells /\ log' = log
BY DEF FlashOK, ProgramCell

\* After the last round of eeprom_clear, everything is erased.
LEMMA ClearLast ==
    ASSUME TypeOK, Shape, Erasure, ClearPage, ~ (index < LogPages)
    PROVE  /\ comp' = Erased /\ badCells' = {}
           /\ \A i \in 0..(LogSlots - 1) : log'[i] = Blank
<1>1. FlashOK /\ index = LogPages
  BY ConstantsAssumption DEF FlashOK, TypeOK, Logs, ClearPage, Shape
<1>2. /\ comp' = comp /\ badCells' = badCells
      /\ \A i \in 0..(LogSlots - 1) :
           log'[i] = IF i \div PageSlots = index - 1 THEN Blank ELSE log[i]
  BY <1>1, ErasePageEffect, ConstantsAssumption DEF ClearPage, TypeOK
<1>3. ASSUME NEW i \in 0..(LogSlots - 1)
      PROVE  log'[i] = Blank
  <2>1. i \div PageSlots < index - 1 \/ i \div PageSlots = index - 1
    BY <1>1, PageOfSlot, ConstantsAssumption
  <2> QED
    BY <1>2, <2>1 DEF ClearPage, Erasure
<1> QED
  BY <1>1, <1>2, <1>3, ConstantsAssumption DEF ClearPage, Erasure

LEMMA ErasureInit == Init => Erasure
BY DEF Init, Erasure

LEMMA ErasureNext ==
    ASSUME TypeOK, Shape, Erasure, [Next]_vars
    PROVE  Erasure'
<1>0. FlashOK
  BY DEF FlashOK, TypeOK, Logs
<1>1. CASE EEPROM_Init
  <2>1. \A i \in 0..(LogSlots - 1) : ~ (i \div PageSlots < 0 - 1)
    BY PageOfSlot, ConstantsAssumption
  <2> QED
    BY <1>1, <2>1 DEF EEPROM_Init, Erasure
<1>2. CASE EEPROM_Erase
  <2>1. \A i \in 0..(LogSlots - 1) : ~ (i \div PageSlots < 0 - 1)
    BY PageOfSlot, ConstantsAssumption
  <2> QED
    BY <1>2, <2>1 DEF EEPROM_Erase, Erasure
<1>3. CASE ClearPage
  <2>1. /\ index = 0 => comp' = Erased /\ badCells' = {} /\ log' = log
        /\ index # 0 => comp' = comp /\ badCells' = badCells
        /\ \A i \in 0..(LogSlots - 1) :
             log'[i] = IF index # 0 /\ i \div PageSlots = index - 1 THEN Blank ELSE log[i]
    BY <1>0, <1>3, ErasePageEffect DEF ClearPage, TypeOK
  <2>2. comp' = Erased /\ badCells' = {}
    BY <1>3, <2>1 DEF ClearPage, Erasure, TypeOK
  <2>3. ASSUME NEW i \in 0..(LogSlots - 1), i \div PageSlots < index
        PROVE  log'[i] = Blank
    <3>1. i \div PageSlots \in Int /\ i \div PageSlots >= 0 /\ index \in Nat
      BY PageOfSlot DEF TypeOK
    <3>2. CASE i \div PageSlots = index - 1
      BY <2>1, <2>3, <3>1, <3>2
    <3>3. CASE i \div PageSlots < index - 1
      BY <1>3, <2>1, <3>3 DEF ClearPage, Erasure
    <3> QED
      BY <2>3, <3>1, <3>2, <3>3
  <2>4. CASE index < LogPages
    <3>1. pc' = "clear" /\ index' = index + 1
      BY <1>3, <2>4 DEF ClearPage
    <3>2. \A i \in 0..(LogSlots - 1) : i \div PageSlots < index' - 1 => log'[i] = Blank
      BY <2>3, <3>1 DEF TypeOK
    <3> QED
      BY <2>2, <3>1, <3>2 DEF Erasure
  <2>5. CASE ~ (index < LogPages)
    <3>1. pc' \in {"idle", "fill"}
      BY <1>3, <2>5 DEF ClearPage
    <3>2. \A i \in 0..(LogSlots - 1) : log'[i] = Blank
      BY <1>3, <2>5, ClearLast
    <3>3. \A c \in Cells : CellBlank(c)'
      BY <2>2 DEF CellBlank, Erased, Addr
    <3> QED
      BY <2>2, <3>1, <3>2, <3>3 DEF Erasure
  <2> QED
    BY <2>4, <2>5
<1>4. CASE FillCell
  <2>1. /\ \A a \in Addr : comp'[a] = IF a[1] = index THEN DataBuf[a] ELSE comp[a]
        /\ badCells' = badCells /\ log' = log
    BY <1>0, <1>4, ProgramCellEffect DEF FillCell
  <2>2. CASE index < NCells - 1
    <3>1. pc' = "fill" /\ index' = index + 1
      BY <1>4, <2>2 DEF FillCell
    <3>2. ASSUME NEW c \in Cells, c >= index'
          PROVE  CellBlank(c)'
      <4>1. c \in Int /\ index \in Int /\ c # index /\ c >= index
        BY <3>1, <3>2, ConstantsAssumption DEF Cells, TypeOK
      <4>2. CellBlank(c)
        BY <1>4, <4>1 DEF Erasure, FillCell
      <4> QED
        BY <2>1, <4>1, <4>2 DEF CellBlank, Addr
    <3> QED
      BY <1>4, <2>1, <3>1, <3>2 DEF Erasure, FillCell
  <2>3. CASE ~ (index < NCells - 1)
    <3>1. pc' \in {"idle", "log"} /\ empty_slot' = 0
      BY <1>4, <2>3 DEF FillCell, Shape, TypeOK
    <3>2. log'[0] = Blank
      BY <1>4, <2>1, SlotCount DEF FillCell, Erasure
    <3> QED
      BY <3>1, <3>2 DEF Erasure
  <2> QED
    BY <2>2, <2>3
<1>5. CASE WriteSome
  <2>1. PICK c \in Cells, s \in Spans : \E d \in [{c} \X s -> Value] : EEPROM_WriteData(c, d)
    BY <1>5 DEF WriteSome
  <2>2. PICK d \in [{c} \X s -> Value] : EEPROM_WriteData(c, d)
    BY <2>1
  <2>3. job' \in Units \ {{}} /\ job' = {c} \X s
    BY <2>2 DEF EEPROM_WriteData, Units
  <2>4. JobCell' = c
    BY <2>3 DEF JobCell
  <2>5. UNCHANGED <<comp, badCells, log, empty_slot>>
    BY <2>2 DEF EEPROM_WriteData, flash
  <2>6. CASE StartDirect(c)
    <3>1. CellBlank(c)'
      BY <2>5, <2>6 DEF StartDirect, CellBlank
    <3>2. pc' \in {"idle", "direct"}
      BY <2>6 DEF StartDirect
    <3> QED
      BY <2>4, <3>1, <3>2 DEF Erasure
  <2>7. ASSUME pc' = "clear", index' = 0
        PROVE  Erasure'
    <3>1. \A i \in 0..(LogSlots - 1) : ~ (i \div PageSlots < 0 - 1)
      BY PageOfSlot, ConstantsAssumption
    <3> QED
      BY <2>7, <3>1 DEF Erasure
  <2>8. CASE StartCompact(c)
    BY <2>7, <2>8 DEF StartCompact
  <2>9. CASE StartLog(c)
    BY <2>5, <2>7, <2>9 DEF StartLog, Erasure
  <2> QED
    BY <2>2, <2>6, <2>8, <2>9 DEF EEPROM_WriteData
<1>6. CASE ProgramDirect
  BY <1>6 DEF ProgramDirect, Erasure
<1>7. CASE EraseLogPage
  <2>1. empty_slot \in 0..(LogSlots - 1)
    BY <1>7, SlotCount DEF EraseLogPage, Shape, TypeOK
  <2>2. empty_slot \div PageSlots \in Nat
    BY <2>1, PageOfSlot, ConstantsAssumption
  <2>3. log'[empty_slot] = Blank
    BY <1>0, <1>7, <2>1, <2>2, ErasePageEffect DEF EraseLogPage
  <2> QED
    BY <1>7, <2>3 DEF EraseLogPage, Erasure
<1>8. CASE ProgramLog
  BY <1>8 DEF ProgramLog, Erasure
<1>9. CASE PowerLoss
  BY <1>9 DEF PowerLoss, Erasure
<1>10. CASE UNCHANGED vars
  BY <1>10 DEF vars, Erasure, CellBlank, JobCell
<1> QED
  BY <1>1, <1>2, <1>3, <1>4, <1>5, <1>6, <1>7, <1>8, <1>9, <1>10 DEF Next

\* What one step may do to a log slot and to a cell.
SlotStep(i) == log'[i] # log[i] => Blank \in {log[i], log'[i]}
CellStep(c) ==
    (\E o \in Offsets : comp'[<<c, o>>] # comp[<<c, o>>]) => CellBlank(c) \/ CellBlank(c)'
ErasedOnlyStep == (\A i \in DOMAIN log : SlotStep(i)) /\ (\A c \in Cells : CellStep(c))

LEMMA ErasePageStep ==
    ASSUME FlashOK, NEW p \in Nat, ErasePage(p)
    PROVE  ErasedOnlyStep
<1>1. \A i \in DOMAIN log : SlotStep(i)
  BY ErasePageEffect DEF SlotStep, FlashOK, Logs
<1>2. \A c \in Cells : CellStep(c)
  BY ErasePageEffect DEF CellStep, CellBlank, Erased, Addr
<1> QED
  BY <1>1, <1>2 DEF ErasedOnlyStep

LEMMA ProgramCellStep ==
    ASSUME FlashOK, NEW c, CellBlank(c), ProgramCell(c)
    PROVE  ErasedOnlyStep
<1>1. \A i \in DOMAIN log : SlotStep(i)
  BY ProgramCellEffect DEF SlotStep
<1>2. \A k \in Cells : CellStep(k)
  BY ProgramCellEffect DEF CellStep, Addr
<1> QED
  BY <1>1, <1>2 DEF ErasedOnlyStep

LEMMA ErasedOnlyNext ==
    ASSUME TypeOK, Shape, Erasure, [Next]_vars
    PROVE  ErasedOnlyStep
<1>0. FlashOK
  BY DEF FlashOK, TypeOK, Logs
<1>1. ASSUME UNCHANGED flash
      PROVE  ErasedOnlyStep
  BY <1>1 DEF flash, ErasedOnlyStep, SlotStep, CellStep
<1>2. ASSUME pc = "log", UNCHANGED comp, NEW s, log' = [log EXCEPT ![empty_slot] = s]
      PROVE  ErasedOnlyStep
  BY <1>0, <1>2 DEF ErasedOnlyStep, SlotStep, CellStep, Erasure, FlashOK, Logs
<1>3. pc = "page" => empty_slot \div PageSlots + 1 \in Nat
  <2>1. pc = "page" => empty_slot \in 0..(LogSlots - 1)
    BY SlotCount DEF Shape, TypeOK
  <2> QED
    BY <2>1, PageOfSlot, ConstantsAssumption
<1>4. CASE EEPROM_Init \/ EEPROM_Erase \/ WriteSome \/ UNCHANGED vars
  BY <1>1, <1>4 DEF EEPROM_Init, EEPROM_Erase, WriteSome, EEPROM_WriteData, vars, flash
<1>5. CASE ClearPage
  BY <1>0, <1>5, ErasePageStep DEF ClearPage, TypeOK
<1>6. CASE FillCell
  <2>1. CellBlank(index)
    BY <1>6 DEF FillCell, Shape, Erasure, TypeOK
  <2> QED
    BY <1>0, <1>6, <2>1, ProgramCellStep DEF FillCell
<1>7. CASE ProgramDirect
  BY <1>0, <1>7, ProgramCellStep DEF ProgramDirect, Erasure
<1>8. CASE EraseLogPage
  BY <1>0, <1>3, <1>8, ErasePageStep DEF EraseLogPage
<1>9. CASE ProgramLog
  BY <1>2, <1>9 DEF ProgramLog
<1>10. CASE PowerLoss
  <2>1. CASE UNCHANGED flash
    BY <1>1, <2>1
  <2>2. ASSUME NEW c, CellBlank(c), CutProgram(c)
        PROVE  ErasedOnlyStep
    <3>1. CASE ProgramCell(c)
      BY <1>0, <2>2, <3>1, ProgramCellStep
    <3> QED
      BY <2>2, <3>1 DEF CutProgram, ErasedOnlyStep, SlotStep, CellStep
  <2>3. CASE pc = "direct" /\ CutProgram(JobCell)
    BY <2>2, <2>3 DEF Erasure
  <2>4. CASE pc = "fill" /\ CutProgram(index)
    BY <2>2, <2>4 DEF Shape, Erasure, TypeOK
  <2>5. CASE pc = "clear" /\ ErasePage(index)
    BY <1>0, <2>5, ErasePageStep DEF TypeOK
  <2>6. CASE pc = "page" /\ ErasePage(empty_slot \div PageSlots + 1)
    BY <1>0, <1>3, <2>6, ErasePageStep
  <2>7. CASE /\ pc = "log"
             /\ \E s \in {NewEntry, Bad, Torn} : log' = [log EXCEPT ![empty_slot] = s]
             /\ UNCHANGED <<comp, badCells>>
    BY <1>2, <2>7
  <2> QED
    BY <1>10, <2>1, <2>3, <2>4, <2>5, <2>6, <2>7 DEF PowerLoss, CutOperation
<1> QED
  BY <1>4, <1>5, <1>6, <1>7, <1>8, <1>9, <1>10 DEF Next

\* A double word of flash is programmed only when it is erased, by completed and by
\* interrupted operations alike: blank_check, eeprom_write_direct_entry and the order
\* of eeprom_clear and eeprom_compact are enough, also after a loss of power.
THEOREM ErasedOnly == Spec => ProgramsErasedOnly
<1>1. Init => TypeOK /\ Shape /\ Erasure
  BY TypesInit, ErasureInit
<1>2. TypeOK /\ Shape /\ Erasure /\ [Next]_vars => (TypeOK /\ Shape /\ Erasure)'
  BY TypesNext, ErasureNext
<1>3. TypeOK /\ Shape /\ Erasure /\ [Next]_vars =>
        [/\ \A i \in DOMAIN log : log'[i] # log[i] => Blank \in {log[i], log'[i]}
         /\ \A c \in Cells :
              (\E o \in Offsets : comp'[<<c, o>>] # comp[<<c, o>>])
                  => CellBlank(c) \/ CellBlank(c)']_vars
  BY ErasedOnlyNext DEF ErasedOnlyStep, SlotStep, CellStep
<1> QED
  BY <1>1, <1>2, <1>3, PTL DEF Spec, ProgramsErasedOnly
-----------------------------------------------------------------------------
(***************************************************************************)
(* What the flash operations do to what a restart reads.                   *)
(***************************************************************************)
LEMMA LoggedEnd ==
    ASSUME NEW cp, NEW lg, NEW n \in 0..LogSlots, Logged(cp, lg, n),
           n < LogSlots => lg[n] \in {Blank, Bad}
    PROVE  EndsAt(lg, n)
BY SlotKinds DEF EndsAt, Logged

\* Slot n is erased when all slots from n on are.
LEMMA BlankAtEnd ==
    ASSUME NEW lg, NEW n \in 0..LogSlots, BlankFrom(lg, n)
    PROVE  n < LogSlots => lg[n] = Blank
BY SlotCount DEF BlankFrom

\* No entry is about an unprogrammed cell.
LEMMA BlankCellUnlogged ==
    ASSUME NEW cp, NEW lg, NEW n, Logged(cp, lg, n), NEW a, BlankIn(cp, a[1])
    PROVE  \A i \in 0..(n - 1) : a \notin DOMAIN lg[i].data
BY DEF Logged

\* Programming an unprogrammed cell hides no entry.
LEMMA FilledStillLogged ==
    ASSUME NEW cp, NEW cp2, NEW lg \in Logs, NEW n \in 0..LogSlots, Logged(cp, lg, n),
           NEW c, BlankIn(cp, c), \A a \in Addr : a[1] # c => cp2[a] = cp[a]
    PROVE  Logged(cp2, lg, n)
<1> SUFFICES ASSUME NEW i \in 0..(n - 1), NEW a \in DOMAIN lg[i].data
             PROVE  ~BlankIn(cp2, a[1])
  BY DEF Logged
<1>1. lg[i] \in Slot /\ lg[i].kind = "entry" /\ ~BlankIn(cp, a[1])
  BY SlotCount DEF Logged, Logs
<1>2. PICK u \in Units : lg[i].data \in [u -> Value]
  BY <1>1, EntryData
<1>3. a \in Addr
  BY <1>2, UnitInCell
<1>4. a[1] # c /\ a[1] \in Cells
  BY <1>1, <1>3 DEF Addr
<1> QED
  BY <1>1, <1>4 DEF BlankIn, Addr

\* A restart with an empty log reads the compacted area.
LEMMA EmptyLog ==
    ASSUME NEW cp \in [Addr -> Value], NEW lg \in Logs, BlankFrom(lg, 0)
    PROVE  PlayBack(cp, lg) = cp /\ Logged(cp, lg, 0)
<1>1. Logged(cp, lg, 0)
  BY DEF Logged
<1>2. 0 \in 0..LogSlots
  BY SlotCount
<1>3. EndsAt(lg, 0)
  BY <1>1, <1>2, BlankAtEnd, LoggedEnd
<1>4. ASSUME NEW a \in Addr
      PROVE  PlayBack(cp, lg)[a] = cp[a]
  BY <1>2, <1>3, PlayBackUnlogged
<1>5. PlayBack(cp, lg) \in [Addr -> Value]
  BY PlayBackType
<1> QED
  BY <1>1, <1>4, <1>5

\* A new entry at the end of the log changes what a restart reads in the bytes it
\* holds, and in no other.
LEMMA AppendEntry ==
    ASSUME NEW cp, NEW lg \in Logs, NEW n \in 0..(LogSlots - 1),
           Logged(cp, lg, n), BlankFrom(lg, n),
           NEW u \in Units, NEW d \in [u -> Value], \A a \in u : ~BlankIn(cp, a[1]),
           NEW s, s.kind = "entry", s.data = d,
           NEW lg2, lg2[n] = s, \A i \in 0..(LogSlots - 1) : i # n => lg2[i] = lg[i]
    PROVE  /\ Logged(cp, lg2, n + 1)
           /\ BlankFrom(lg2, n + 1)
           /\ \A a \in u : PlayBack(cp, lg2)[a] = d[a]
           /\ \A a \in Addr \ u : PlayBack(cp, lg2)[a] = PlayBack(cp, lg)[a]
<1> DEFINE m == n + 1
<1>0. n \in 0..LogSlots /\ m \in 0..LogSlots /\ n \in Nat /\ m = n + 1 /\ n = m - 1
  BY SlotCount
<1> HIDE DEF m
<1>1. lg2[n] = s /\ \A i \in 0..(LogSlots - 1) : i # n => lg2[i] = lg[i]
  OBVIOUS
<1>2. Logged(cp, lg2, m)
  BY <1>0, <1>1, SlotCount DEF Logged
<1>3. BlankFrom(lg2, m)
  BY <1>0, <1>1, SlotCount DEF BlankFrom
<1>4. EndsAt(lg, n)
  BY <1>0, BlankAtEnd, LoggedEnd
<1>5. EndsAt(lg2, m)
  BY <1>0, <1>2, <1>3, BlankAtEnd, LoggedEnd
<1>6. ASSUME NEW a \in u
      PROVE  PlayBack(cp, lg2)[a] = d[a]
  <2>1. LastOf(lg2, m, n, a)
    BY <1>0, <1>1, <1>6 DEF LastOf
  <2>2. a \in Addr /\ n \in 0..(m - 1)
    BY <1>0, UnitInCell
  <2> QED
    BY <1>0, <1>1, <1>5, <2>1, <2>2, PlayBackLogged
<1>7. ASSUME NEW a \in Addr \ u
      PROVE  PlayBack(cp, lg2)[a] = PlayBack(cp, lg)[a]
  <2>0. a \notin DOMAIN lg2[n].data
    BY <1>1, <1>7
  <2>1. CASE \A i \in 0..(n - 1) : a \notin DOMAIN lg[i].data
    <3>1. \A i \in 0..(m - 1) : a \notin DOMAIN lg2[i].data
      BY <1>0, <1>1, <2>0, <2>1, SlotCount
    <3>2. PlayBack(cp, lg2)[a] = cp[a]
      BY <1>0, <1>5, <3>1, PlayBackUnlogged
    <3>3. PlayBack(cp, lg)[a] = cp[a]
      BY <1>0, <1>4, <2>1, PlayBackUnlogged
    <3> QED
      BY <3>2, <3>3
  <2>2. CASE \E i \in 0..(n - 1) : a \in DOMAIN lg[i].data
    <3>1. PICK i \in 0..(n - 1) : LastOf(lg, n, i, a)
      BY <1>0, <2>2, LastExists
    <3>2. PlayBack(cp, lg)[a] = lg[i].data[a]
      BY <1>0, <1>4, <3>1, PlayBackLogged
    <3>3. LastOf(lg2, m, i, a) /\ i \in 0..(m - 1)
      BY <1>0, <1>1, <2>0, <3>1, SlotCount DEF LastOf
    <3>4. PlayBack(cp, lg2)[a] = lg2[i].data[a]
      BY <1>0, <1>5, <3>3, PlayBackLogged
    <3> QED
      BY <1>0, <1>1, <3>2, <3>4, SlotCount
  <2> QED
    BY <2>1, <2>2
<1> QED
  BY <1>0, <1>2, <1>3, <1>6, <1>7
-----------------------------------------------------------------------------
(***************************************************************************)
(* Durability.                                                             *)
(***************************************************************************)
\* CellBlank speaks of the compacted area as it is now.
LEMMA CellBlankIn ==
    \A c : CellBlank(c) = BlankIn(comp, c) /\ CellBlank(c)' = BlankIn(comp', c)
BY DEF CellBlank, BlankIn

\* An unharmed driver that is idle or about to program: what a restart would find.
LEMMA LiveLog ==
    ASSUME TypeOK, Faithful, ~harmed, pc \in {"idle", "direct", "log"}
    PROVE  /\ log \in Logs /\ badCells = {}
           /\ Logged(comp, log, empty_slot) /\ BlankFrom(log, empty_slot)
           /\ EndsAt(log, empty_slot) /\ ReplayEnd = empty_slot
           /\ empty_slot < LogSlots => log[empty_slot] = Blank
           /\ ~eccd
<1>1. log \in Logs /\ empty_slot \in 0..LogSlots
  BY DEF TypeOK, Logs
<1>2. badCells = {} /\ Logged(comp, log, empty_slot) /\ BlankFrom(log, empty_slot)
  BY DEF Faithful
<1>3. empty_slot < LogSlots => log[empty_slot] = Blank
  BY <1>1, <1>2, BlankAtEnd
<1>4. EndsAt(log, empty_slot)
  BY <1>1, <1>2, <1>3, LoggedEnd
<1>5. ReplayEnd = empty_slot
  BY <1>1, <1>4, EndUnique, ReplayIsPlayBack
<1> QED
  BY <1>1, <1>2, <1>3, <1>4, <1>5, SlotKinds DEF eccd

\* What an unharmed driver that is switched off will find.
LEMMA RestLog ==
    ASSUME TypeOK, Faithful, ~harmed, pc = "off"
    PROVE  /\ ReplayEnd \in 0..LogSlots
           /\ Logged(comp, log, ReplayEnd)
           /\ ~eccd => badCells = {} /\ BlankFrom(log, ReplayEnd)
<1>1. PICK n \in 0..LogSlots :
        /\ Logged(comp, log, n)
        /\ BlankFrom(log, n + 1)
        /\ n < LogSlots => log[n] \in {Blank, Bad}
  BY DEF Faithful
<1>2. ReplayEnd = n
  BY <1>1, LoggedEnd, EndUnique, ReplayIsPlayBack
<1>3. ~eccd => badCells = {} /\ BlankFrom(log, n)
  BY <1>1, <1>2, SlotCount DEF eccd, BlankFrom
<1> QED
  BY <1>1, <1>2, <1>3

\* The program of a cell from the RAM copy, seen by a restart: exactly that cell
\* changes.
LEMMA DirectEffect ==
    ASSUME TypeOK, Shape, Erasure, Faithful, ~harmed, pc = "direct", ProgramCell(JobCell)
    PROVE  /\ Logged(comp', log', empty_slot) /\ log' = log /\ badCells' = badCells
           /\ \A a \in Addr : Replay'[a] = IF a \in job THEN DataBuf[a] ELSE Replay[a]
           /\ \A a \in Addr : Replay'[a] = DataBuf[a]
<1>1. /\ log \in Logs /\ Logged(comp, log, empty_slot) /\ EndsAt(log, empty_slot)
      /\ empty_slot \in 0..LogSlots
  BY LiveLog DEF TypeOK
<1>2. /\ \A a \in Addr : comp'[a] = IF a[1] = JobCell THEN DataBuf[a] ELSE comp[a]
      /\ badCells' = badCells /\ log' = log
  BY ProgramCellEffect DEF FlashOK, TypeOK, Logs
<1>3. BlankIn(comp, JobCell)
  BY CellBlankIn DEF Erasure
<1>4. Logged(comp', log, empty_slot)
  BY <1>1, <1>2, <1>3, FilledStillLogged
<1>5. job \in Units \ {{}} /\ \A a \in job : a[1] = JobCell
  BY JobInCell DEF Shape
<1>6. ASSUME NEW a \in Addr
      PROVE  /\ Replay'[a] = DataBuf[a]
             /\ Replay'[a] = IF a \in job THEN DataBuf[a] ELSE Replay[a]
  <2>1. CASE a[1] = JobCell
    <3>1. \A i \in 0..(empty_slot - 1) : a \notin DOMAIN log[i].data
      BY <1>1, <1>3, <2>1, BlankCellUnlogged
    <3>2. PlayBack(comp', log)[a] = comp'[a]
      BY <1>1, <3>1, PlayBackUnlogged
    <3>3. a \notin job => Replay[a] = DataBuf[a]
      BY DEF Faithful
    <3> QED
      BY <1>2, <2>1, <3>2, <3>3, ReplayIsPlayBack
  <2>2. CASE a[1] # JobCell
    <3>1. PlayBack(comp', log)[a] = PlayBack(comp, log)[a]
      BY <1>2, <2>2 DEF PlayBack
    <3>2. a \notin job /\ Replay[a] = DataBuf[a]
      BY <1>5, <2>2 DEF Faithful
    <3> QED
      BY <1>2, <3>1, <3>2, ReplayIsPlayBack
  <2> QED
    BY <2>1, <2>2
<1> QED
  BY <1>2, <1>4, <1>6

\* The program of a log entry, seen by a restart: exactly the bytes of the entry
\* change.
LEMMA LogEffect ==
    ASSUME TypeOK, Shape, Faithful, ~harmed, pc = "log",
           comp' = comp, log'[empty_slot] = NewEntry,
           \A i \in 0..(LogSlots - 1) : i # empty_slot => log'[i] = log[i]
    PROVE  /\ Logged(comp', log', empty_slot + 1) /\ BlankFrom(log', empty_slot + 1)
           /\ \A a \in Addr : Replay'[a] = IF a \in job THEN DataBuf[a] ELSE Replay[a]
           /\ \A a \in Addr : Replay'[a] = DataBuf[a]
<1> DEFINE d == [a \in job |-> DataBuf[a]]
<1>1. /\ log \in Logs /\ Logged(comp, log, empty_slot) /\ BlankFrom(log, empty_slot)
      /\ empty_slot \in 0..(LogSlots - 1)
  BY LiveLog, SlotCount DEF TypeOK, Shape
<1>2. job \in Units /\ \A a \in job : a \in Addr /\ a[1] = JobCell
  BY JobInCell DEF Shape
<1>3. d \in [job -> Value] /\ \A a \in job : d[a] = DataBuf[a]
  BY <1>2 DEF TypeOK
<1>4. NewEntry.kind = "entry" /\ NewEntry.data = d
  BY NewEntryFacts DEF Shape
<1>5. \A a \in job : ~BlankIn(comp, a[1])
  BY <1>2, CellBlankIn DEF Faithful
<1> HIDE DEF d
<1>6. /\ Logged(comp, log', empty_slot + 1) /\ BlankFrom(log', empty_slot + 1)
      /\ \A a \in job : PlayBack(comp, log')[a] = d[a]
      /\ \A a \in Addr \ job : PlayBack(comp, log')[a] = PlayBack(comp, log)[a]
  BY <1>1, <1>2, <1>3, <1>4, <1>5, AppendEntry
<1>7. \A a \in Addr \ job : Replay[a] = DataBuf[a]
  BY DEF Faithful
<1> QED
  BY <1>2, <1>3, <1>6, <1>7, ReplayIsPlayBack

LEMMA FaithfulInit == Init => Faithful
<1> SUFFICES ASSUME Init
             PROVE  Faithful
  OBVIOUS
<1>1. Logged(comp, log, 0) /\ BlankFrom(log, 0 + 1) /\ log[0] = Blank
  BY SlotCount DEF Init, Logged, BlankFrom
<1>2. 0 \in 0..LogSlots
  BY SlotCount
<1>3. pc = "off"
  BY DEF Init
<1> QED
  BY <1>1, <1>2, <1>3 DEF Faithful

\* The switched-off part of Faithful, for a given end of the log.
LEMMA FaithfulOff ==
    ASSUME NEW n \in 0..LogSlots, pc' = "off",
           Logged(comp', log', n), BlankFrom(log', n + 1), n < LogSlots => log'[n] \in {Blank, Bad}
    PROVE  Faithful'
BY DEF Faithful

\* The idle part of Faithful.
LEMMA FaithfulIdle ==
    ASSUME pc' = "idle", badCells' = {}, Logged(comp', log', empty_slot'),
           BlankFrom(log', empty_slot'), Replay' = DataBuf'
    PROVE  Faithful'
BY DEF Faithful

\* While the pages are being cleared Faithful only excludes a pending log entry.
LEMMA FaithfulClear ==
    ASSUME pc' = "clear", after' # "log"
    PROVE  Faithful'
BY DEF Faithful

\* Replaying gives bytes, before and after a step.
LEMMA ReplayType ==
    /\ FlashOK => Replay \in [Addr -> Value]
    /\ FlashOK' => Replay' \in [Addr -> Value]
BY ReplayIsPlayBack, PlayBackType DEF FlashOK

LEMMA FaithfulStart ==
    ASSUME TypeOK, Shape, Erasure, Faithful, TypeOK', ~harmed, WriteSome
    PROVE  Faithful'
<1>1. PICK c \in Cells, s \in Spans : \E d \in [{c} \X s -> Value] : EEPROM_WriteData(c, d)
  BY DEF WriteSome
<1>2. PICK d \in [{c} \X s -> Value] : EEPROM_WriteData(c, d)
  BY <1>1
<1>3. /\ pc = "idle" /\ job' = {c} \X s /\ job' \in Units \ {{}}
      /\ UNCHANGED <<comp, badCells, log, empty_slot, harmed>>
  BY <1>2 DEF EEPROM_WriteData, Units, flash
<1>4. JobCell' = c
  BY <1>3 DEF JobCell
<1>5. /\ badCells = {} /\ Logged(comp, log, empty_slot) /\ BlankFrom(log, empty_slot)
      /\ EndsAt(log, empty_slot) /\ (empty_slot < LogSlots => log[empty_slot] = Blank)
      /\ empty_slot \in 0..LogSlots
  BY <1>3, LiveLog DEF TypeOK
<1>6. Replay = DataBuf /\ Replay' = Replay
  BY <1>3, ReplayIsPlayBack DEF Faithful
<1>7. \A a \in Addr \ job' : DataBuf'[a] = DataBuf[a]
  <2>1. {c} \X s \in Units
    BY DEF Units
  <2> QED
    BY <1>2, <1>3, <2>1, OverlayFacts DEF EEPROM_WriteData, TypeOK
<1>8. \A a \in Addr \ job' : Replay'[a] = DataBuf'[a]
  BY <1>6, <1>7
<1>9. CASE StartDirect(c)
  <2>1. CASE \A o \in Offsets : DataBuf'[<<c, o>>] = 0
    <3>1. pc' = "idle"
      BY <1>9, <2>1 DEF StartDirect
    <3>2. ASSUME NEW a \in Addr
          PROVE  Replay'[a] = DataBuf'[a]
      <4>1. CASE a[1] = c
        <5>1. BlankIn(comp, a[1])
          BY <1>9, <4>1, CellBlankIn DEF StartDirect
        <5>2. \A i \in 0..(empty_slot - 1) : a \notin DOMAIN log[i].data
          BY <1>5, <5>1, BlankCellUnlogged
        <5>3. PlayBack(comp, log)[a] = comp[a]
          BY <1>5, <5>2, PlayBackUnlogged
        <5>4. a = <<c, a[2]>> /\ a[2] \in Offsets
          BY <4>1 DEF Addr
        <5>5. comp[a] = 0 /\ DataBuf'[a] = 0
          BY <2>1, <4>1, <5>1, <5>4 DEF BlankIn
        <5> QED
          BY <1>6, <5>3, <5>5, ReplayIsPlayBack
      <4>2. CASE a[1] # c
        BY <1>3, <1>8, <4>2
      <4> QED
        BY <4>1, <4>2
    <3>3. Replay' = DataBuf'
      <4>1. Replay' \in [Addr -> Value] /\ DataBuf' \in [Addr -> Value]
        BY ReplayType DEF TypeOK, FlashOK, Logs
      <4> QED
        BY <3>2, <4>1
    <3> QED
      BY <1>3, <1>5, <3>1, <3>3, FaithfulIdle
  <2>2. CASE ~ \A o \in Offsets : DataBuf'[<<c, o>>] = 0
    <3>1. pc' = "direct"
      BY <1>9, <2>2 DEF StartDirect
    <3> QED
      BY <1>3, <1>5, <1>8, <3>1 DEF Faithful
  <2> QED
    BY <2>1, <2>2
<1>10. CASE StartCompact(c)
  BY <1>10, FaithfulClear DEF StartCompact
<1>11. CASE StartLog(c)
  <2>1. pc' = "log" /\ ~CellBlank(c)
    BY <1>5, <1>11 DEF StartLog
  <2>2. ~CellBlank(JobCell)'
    BY <1>3, <1>4, <2>1, CellBlankIn
  <2> QED
    BY <1>3, <1>5, <1>8, <2>1, <2>2 DEF Faithful
<1> QED
  BY <1>2, <1>9, <1>10, <1>11 DEF EEPROM_WriteData

LEMMA FaithfulPowerLoss ==
    ASSUME TypeOK, Shape, Erasure, Faithful, TypeOK', ~harmed', PowerLoss
    PROVE  Faithful'
<1>1. ~harmed /\ pc \in {"idle", "direct", "log"} /\ pc' = "off"
  BY DEF PowerLoss, Faithful, TypeOK
<1>2. /\ log \in Logs /\ Logged(comp, log, empty_slot) /\ BlankFrom(log, empty_slot)
      /\ (empty_slot < LogSlots => log[empty_slot] = Blank)
      /\ empty_slot \in 0..LogSlots
  BY <1>1, LiveLog DEF TypeOK
<1>3. BlankFrom(log, empty_slot + 1)
  BY <1>2, SlotCount DEF BlankFrom
<1>4. CASE UNCHANGED <<comp, log>>
  BY <1>1, <1>2, <1>3, <1>4, FaithfulOff
<1>5. CASE pc = "direct" /\ ProgramCell(JobCell)
  <2>1. Logged(comp', log', empty_slot) /\ log' = log
    BY <1>1, <1>5, DirectEffect
  <2> QED
    BY <1>1, <1>2, <1>3, <2>1, FaithfulOff
<1>6. ASSUME pc = "log", UNCHANGED comp, log' = [log EXCEPT ![empty_slot] = NewEntry]
      PROVE  Faithful'
  <2>1. empty_slot \in 0..(LogSlots - 1) /\ empty_slot + 1 \in 0..LogSlots
    BY <1>6, SlotCount DEF Shape, TypeOK
  <2>2. /\ log'[empty_slot] = NewEntry
        /\ \A i \in 0..(LogSlots - 1) : i # empty_slot => log'[i] = log[i]
    BY <1>2, <1>6, <2>1 DEF Logs
  <2>3. Logged(comp', log', empty_slot + 1) /\ BlankFrom(log', empty_slot + 1)
    BY <1>1, <1>6, <2>2, LogEffect
  <2>4. BlankFrom(log', empty_slot + 1 + 1)
    BY <2>1, <2>3, SlotCount DEF BlankFrom
  <2>5. empty_slot + 1 < LogSlots => log'[empty_slot + 1] = Blank
    BY <2>1, <2>3, BlankAtEnd
  <2> QED
    BY <1>1, <2>1, <2>3, <2>4, <2>5, FaithfulOff
<1>7. ASSUME pc = "log", UNCHANGED comp, log' = [log EXCEPT ![empty_slot] = Bad]
      PROVE  Faithful'
  <2>1. empty_slot \in 0..(LogSlots - 1)
    BY <1>7, SlotCount DEF Shape, TypeOK
  <2>2. /\ log'[empty_slot] = Bad
        /\ \A i \in 0..(LogSlots - 1) : i # empty_slot => log'[i] = log[i]
    BY <1>2, <1>7, <2>1 DEF Logs
  <2>3. Logged(comp', log', empty_slot)
    BY <1>2, <1>7, <2>1, <2>2, SlotCount DEF Logged
  <2>4. BlankFrom(log', empty_slot + 1)
    BY <1>2, <2>1, <2>2, SlotCount DEF BlankFrom
  <2> QED
    BY <1>1, <1>2, <2>2, <2>3, <2>4, FaithfulOff
<1>8. ASSUME pc = "log", log' = [log EXCEPT ![empty_slot] = Torn]
      PROVE  FALSE
  <2>1. empty_slot \in 0..(LogSlots - 1)
    BY <1>8, SlotCount DEF Shape, TypeOK
  <2>2. log'[empty_slot] = Torn /\ empty_slot \in DOMAIN log'
    BY <1>2, <1>8, <2>1 DEF Logs
  <2>3. Torn \in Range(log')
    BY <2>2 DEF Range
  <2> QED
    BY <2>3 DEF PowerLoss
<1>9. CASE pc = "direct" /\ CutProgram(JobCell)
  BY <1>4, <1>5, <1>9 DEF CutProgram
<1>10. CASE /\ pc = "log"
            /\ \E s \in {NewEntry, Bad, Torn} : log' = [log EXCEPT ![empty_slot] = s]
            /\ UNCHANGED <<comp, badCells>>
  BY <1>6, <1>7, <1>8, <1>10
<1> QED
  BY <1>1, <1>4, <1>9, <1>10 DEF PowerLoss, CutOperation, flash

LEMMA FaithfulNext ==
    ASSUME TypeOK, Shape, Erasure, Faithful, TypeOK', [Next]_vars
    PROVE  Faithful'
<1>0. FlashOK /\ FlashOK'
  BY DEF FlashOK, TypeOK, Logs
<1>1. CASE EEPROM_Init
  <2>1. CASE harmed
    BY <1>1, <2>1 DEF EEPROM_Init, Faithful
  <2>2. CASE ~harmed /\ eccd
    BY <1>1, <2>2, FaithfulClear DEF EEPROM_Init
  <2>3. CASE ~harmed /\ ~eccd
    <3>1. badCells = {} /\ Logged(comp, log, ReplayEnd) /\ BlankFrom(log, ReplayEnd)
      BY <1>1, <2>3, RestLog DEF EEPROM_Init
    <3>2. /\ UNCHANGED <<comp, badCells, log>> /\ empty_slot' = ReplayEnd
          /\ pc' = "idle" /\ DataBuf' = Replay
      BY <1>1, <2>3 DEF EEPROM_Init, flash
    <3>3. Replay' = Replay
      BY <3>2, ReplayIsPlayBack
    <3> QED
      BY <3>1, <3>2, <3>3, FaithfulIdle
  <2> QED
    BY <2>1, <2>2, <2>3
<1>2. CASE EEPROM_Erase
  BY <1>2, FaithfulClear DEF EEPROM_Erase
<1>3. CASE ClearPage
  <2>1. CASE index < LogPages
    BY <1>3, <2>1 DEF ClearPage, Faithful
  <2>2. CASE ~ (index < LogPages)
    <3>1. comp' = Erased /\ badCells' = {} /\ \A i \in 0..(LogSlots - 1) : log'[i] = Blank
      BY <1>3, <2>2, ClearLast
    <3>2. BlankFrom(log', 0)
      BY <3>1 DEF BlankFrom
    <3>3. CASE after = "init"
      <4>1. pc' = "idle" /\ DataBuf' = Erased /\ empty_slot' = 0
        BY <1>3, <2>2, <3>3 DEF ClearPage
      <4>2. Replay' = comp' /\ Logged(comp', log', 0)
        BY <1>0, <3>2, EmptyLog, ReplayIsPlayBack DEF FlashOK
      <4> QED
        BY <3>1, <3>2, <4>1, <4>2, FaithfulIdle
    <3>4. CASE after # "init"
      <4>1. pc' = "fill" /\ index' = 0 /\ after' = after /\ harmed' = harmed
        BY <1>3, <2>2, <3>4 DEF ClearPage
      <4>2. \A a \in Addr : ~ (a[1] < 0)
        BY ConstantsAssumption DEF Addr, Cells
      <4> QED
        BY <1>3, <4>1, <4>2 DEF Faithful, ClearPage
    <3> QED
      BY <3>3, <3>4
  <2> QED
    BY <2>1, <2>2
<1>4. CASE FillCell
  <2>1. CASE harmed
    BY <1>4, <2>1 DEF FillCell, Faithful
  <2>2. CASE ~harmed
    <3>1. /\ \A a \in Addr : comp'[a] = IF a[1] = index THEN DataBuf[a] ELSE comp[a]
          /\ badCells' = {} /\ log' = log
          /\ pc = "fill" /\ after = "idle" /\ index \in Cells /\ empty_slot = 0
          /\ UNCHANGED <<DataBuf, empty_slot, after>>
      BY <1>0, <1>4, <2>2, ProgramCellEffect DEF FillCell, Erasure, Faithful, Shape, TypeOK
    <3>2. ASSUME NEW a \in Addr, a[1] < index + 1
          PROVE  comp'[a] = DataBuf[a]
      <4>1. a[1] \in Int /\ index \in Int
        BY <3>1 DEF Addr, Cells
      <4>2. CASE a[1] = index
        BY <3>1, <4>2
      <4>3. CASE a[1] < index
        BY <2>2, <3>1, <4>1, <4>3 DEF Faithful
      <4> QED
        BY <3>2, <4>1, <4>2, <4>3
    <3>3. CASE index < NCells - 1
      BY <1>4, <2>2, <3>1, <3>2, <3>3 DEF FillCell, Faithful
    <3>4. CASE ~ (index < NCells - 1)
      <4>1. pc' = "idle"
        BY <1>4, <3>1, <3>4 DEF FillCell
      <4>2. \A a \in Addr : comp'[a] = DataBuf[a]
        BY <3>1, <3>2, <3>4, ConstantsAssumption DEF Addr, Cells
      <4>3. comp' = DataBuf
        BY <1>0, <4>2 DEF FlashOK, TypeOK
      <4>4. BlankFrom(log', 0)
        BY <3>1 DEF BlankFrom, Erasure
      <4>5. Replay' = comp' /\ Logged(comp', log', 0)
        BY <1>0, <4>4, EmptyLog, ReplayIsPlayBack DEF FlashOK
      <4> QED
        BY <3>1, <4>1, <4>3, <4>4, <4>5, FaithfulIdle
    <3> QED
      BY <3>3, <3>4
  <2> QED
    BY <2>1, <2>2
<1>5. CASE WriteSome
  <2>1. CASE harmed
    BY <1>5, <2>1 DEF WriteSome, EEPROM_WriteData, Faithful
  <2> QED
    BY <1>5, <2>1, FaithfulStart
<1>6. CASE ProgramDirect
  <2>1. CASE harmed
    BY <1>6, <2>1 DEF ProgramDirect, Faithful
  <2>2. CASE ~harmed
    <3>1. /\ Logged(comp', log', empty_slot) /\ log' = log /\ badCells' = badCells
          /\ \A a \in Addr : Replay'[a] = DataBuf[a]
      BY <1>6, <2>2, DirectEffect DEF ProgramDirect
    <3>2. Replay' = DataBuf
      BY <1>0, <3>1, ReplayType DEF TypeOK
    <3>3. badCells = {} /\ BlankFrom(log, empty_slot)
      BY <1>6, <2>2, LiveLog DEF ProgramDirect
    <3> QED
      BY <1>6, <3>1, <3>2, <3>3, FaithfulIdle DEF ProgramDirect
  <2> QED
    BY <2>1, <2>2
<1>7. CASE EraseLogPage
  BY <1>7 DEF EraseLogPage, Faithful
<1>8. CASE ProgramLog
  <2>1. CASE harmed
    BY <1>8, <2>1 DEF ProgramLog, Faithful
  <2>2. CASE ~harmed
    <3>1. empty_slot \in 0..(LogSlots - 1)
      BY <1>8, SlotCount DEF ProgramLog, Shape, TypeOK
    <3>2. /\ log'[empty_slot] = NewEntry
          /\ \A i \in 0..(LogSlots - 1) : i # empty_slot => log'[i] = log[i]
      BY <1>0, <1>8, <3>1 DEF ProgramLog, FlashOK, Logs
    <3>3. /\ Logged(comp', log', empty_slot + 1) /\ BlankFrom(log', empty_slot + 1)
          /\ \A a \in Addr : Replay'[a] = DataBuf[a]
      BY <1>8, <2>2, <3>2, LogEffect DEF ProgramLog
    <3>4. Replay' = DataBuf
      BY <1>0, <3>3, ReplayType DEF TypeOK
    <3>5. badCells = {}
      BY <1>8, <2>2, LiveLog DEF ProgramLog
    <3> QED
      BY <1>8, <3>3, <3>4, <3>5, FaithfulIdle DEF ProgramLog
  <2> QED
    BY <2>1, <2>2
<1>9. CASE PowerLoss
  <2>1. CASE harmed'
    BY <2>1 DEF Faithful
  <2> QED
    BY <1>9, <2>1, FaithfulPowerLoss
<1>10. CASE UNCHANGED vars
  <2>1. Replay' = Replay /\ JobCell' = JobCell /\ CellBlank(JobCell)' = CellBlank(JobCell)
    BY <1>10, ReplayIsPlayBack DEF vars, JobCell, CellBlank
  <2> QED
    BY <1>10, <2>1 DEF vars, Faithful
<1> QED
  BY <1>1, <1>2, <1>3, <1>4, <1>5, <1>6, <1>7, <1>8, <1>9, <1>10 DEF Next

LEMMA Invariance == Spec => []IInv
<1>1. Init => IInv
  BY TypesInit, ErasureInit, FaithfulInit DEF IInv
<1>2. IInv /\ [Next]_vars => IInv'
  BY TypesNext, ErasureNext, FaithfulNext DEF IInv
<1> QED
  BY <1>1, <1>2, PTL DEF Spec

\* A restart reads back exactly the bytes that every completed write has left,
\* unless power was lost during a compaction or left a torn slot.
THEOREM DurableHolds == Spec => []Durable
<1>1. IInv => Durable
  BY LiveLog DEF IInv, Durable, Faithful
<1> QED
  BY <1>1, Invariance, PTL
-----------------------------------------------------------------------------
(***************************************************************************)
(* The driver implements Eeprom.                                           *)
(***************************************************************************)
Powered == pc # "off" /\ ~harmed
Written == [a \in job |-> DataBuf[a]]

\* The refinement mapping, case by case, before and after a step.
LEMMA MappedHarmed ==
    /\ harmed => Stored = Erased /\ Unwritten = {} /\ ~Powered
    /\ harmed' => Stored' = Erased /\ Unwritten' = {} /\ ~Powered'
BY DEF Stored, Unwritten, Powered

LEMMA MappedOff ==
    /\ ~harmed /\ pc = "off" =>
         Stored = (IF eccd THEN Erased ELSE Replay) /\ Unwritten = {} /\ ~Powered
    /\ (~harmed /\ pc = "off")' =>
         Stored' = (IF eccd' THEN Erased ELSE Replay') /\ Unwritten' = {} /\ ~Powered'
BY DEF Stored, Unwritten, Powered

LEMMA MappedPending ==
    /\ ~harmed /\ pc \in {"direct", "page", "log"} =>
         Stored = Replay /\ Unwritten = {Written} /\ Powered
    /\ (~harmed /\ pc \in {"direct", "page", "log"})' =>
         Stored' = Replay' /\ Unwritten' = {Written'} /\ Powered'
BY DEF Stored, Unwritten, Powered, Written

LEMMA MappedIdle ==
    /\ ~harmed /\ pc = "idle" => Stored = DataBuf /\ Unwritten = {} /\ Powered
    /\ (~harmed /\ pc = "idle")' => Stored' = DataBuf' /\ Unwritten' = {} /\ Powered'
BY DEF Stored, Unwritten, Powered

LEMMA MappedClear ==
    /\ ~harmed /\ pc \in {"clear", "fill"} =>
         Stored = (IF after = "init" THEN Erased ELSE DataBuf) /\ Unwritten = {} /\ Powered
    /\ (~harmed /\ pc \in {"clear", "fill"})' =>
         Stored' = (IF after' = "init" THEN Erased ELSE DataBuf') /\ Unwritten' = {} /\ Powered'
BY DEF Stored, Unwritten, Powered

\* The steps of Eeprom, in terms of the mapping.
LEMMA AbstractSteps ==
    /\ ~Powered /\ Powered' /\ Stored' = Stored /\ Unwritten' = Unwritten => Abstract!Next
    /\ \A u \in Units : \A d \in [u -> Value] :
         /\ Powered /\ Powered' /\ Unwritten = {} /\ Unwritten' = {d} /\ Stored' = Stored
              => Abstract!Next
         /\ Powered /\ Powered' /\ Unwritten \subseteq {d} /\ Unwritten' = {}
              /\ Stored' = Overwrite(d, Stored) => Abstract!Next
    /\ Powered /\ Powered' /\ Unwritten = {} /\ Unwritten' = {} /\ Stored' = Erased
         => Abstract!Next
    /\ Powered /\ ~Powered' /\ Unwritten' = {}
         /\ (Stored' \in {Stored, Erased} \/ \E d \in Unwritten : Stored' = Overwrite(d, Stored))
         => Abstract!Next
<1>1. ASSUME ~Powered, Powered', Stored' = Stored, Unwritten' = Unwritten
      PROVE  Abstract!Next
  BY <1>1 DEF Abstract!Next, Abstract!PowerOn, Powered
<1>2. ASSUME NEW u \in Units, NEW d \in [u -> Value],
             Powered, Powered', Unwritten = {}, Unwritten' = {d}, Stored' = Stored
      PROVE  Abstract!Next
  BY <1>2 DEF Abstract!Next, Abstract!Request, Powered
<1>3. ASSUME NEW u \in Units, NEW d \in [u -> Value],
             Powered, Powered', Unwritten \subseteq {d}, Unwritten' = {},
             Stored' = Overwrite(d, Stored)
      PROVE  Abstract!Next
  BY <1>3 DEF Abstract!Next, Abstract!Write, Powered, Overwrite, Abstract!Overwrite
<1>4. ASSUME Powered, Powered', Unwritten = {}, Unwritten' = {}, Stored' = Erased
      PROVE  Abstract!Next
  BY <1>4 DEF Abstract!Next, Abstract!Erase, Powered, Erased, Abstract!Erased
<1>5. ASSUME Powered, ~Powered', Unwritten' = {},
             Stored' \in {Stored, Erased} \/ \E d \in Unwritten : Stored' = Overwrite(d, Stored)
      PROVE  Abstract!Next
  BY <1>5 DEF Abstract!Next, Abstract!PowerLoss, Powered, Erased, Abstract!Erased,
              Overwrite, Abstract!Overwrite
<1> QED
  BY <1>1, <1>2, <1>3, <1>4, <1>5

\* A step that leaves the mapped variables alone is a stuttering step of Eeprom.
LEMMA AbstractStutter ==
    ASSUME Stored' = Stored, Unwritten' = Unwritten, Powered' = Powered
    PROVE  UNCHANGED Abstract!vars
BY DEF Abstract!vars, Powered

\* Writing the pending bytes over what was read gives what is read afterwards.
LEMMA OverwriteIs ==
    ASSUME TypeOK, job \in Units, NEW f, NEW g \in [Addr -> Value],
           \A a \in Addr : g[a] = IF a \in job THEN DataBuf[a] ELSE f[a]
    PROVE  g = Overwrite(Written, f) /\ Written \in [job -> Value]
<1>1. job \subseteq Addr
  BY UnitInCell
<1>2. Written \in [job -> Value] /\ DOMAIN Written = job /\ \A a \in job : Written[a] = DataBuf[a]
  BY <1>1 DEF Written, TypeOK
<1>3. \A a \in Addr : g[a] = Overwrite(Written, f)[a]
  BY <1>2 DEF Overwrite
<1>4. g = [a \in Addr |-> g[a]]
  OBVIOUS
<1> QED
  BY <1>2, <1>3, <1>4 DEF Overwrite

LEMMA SimulatesInit == Init => Abstract!Init
<1> SUFFICES ASSUME Init
             PROVE  Abstract!Init
  OBVIOUS
<1>1. log \in Logs /\ comp \in [Addr -> Value] /\ comp = Erased /\ BlankFrom(log, 0)
  BY ErasedType, SlotKinds DEF Init, Logs, BlankFrom
<1>2. Replay = Erased
  BY <1>1, EmptyLog, ReplayIsPlayBack
<1>3. pc = "off" /\ ~harmed
  BY DEF Init
<1>4. Stored = Erased /\ Unwritten = {} /\ ~Powered
  BY <1>2, <1>3, MappedOff
<1> QED
  BY <1>4 DEF Abstract!Init, Powered, Erased, Abstract!Erased

LEMMA SimulatesWrite ==
    ASSUME TypeOK, Shape, Erasure, Faithful, TypeOK', ~harmed, WriteSome
    PROVE  Abstract!Next
<1>1. PICK c \in Cells, s \in Spans : \E d \in [{c} \X s -> Value] : EEPROM_WriteData(c, d)
  BY DEF WriteSome
<1>2. PICK d \in [{c} \X s -> Value] : EEPROM_WriteData(c, d)
  BY <1>1
<1> DEFINE u == {c} \X s
<1>3. /\ pc = "idle" /\ job' = u /\ u \in Units /\ d \in [u -> Value] /\ ~harmed'
      /\ UNCHANGED <<comp, badCells, log, empty_slot>> /\ DataBuf' = Overwrite(d, DataBuf)
  BY <1>2 DEF EEPROM_WriteData, Units, flash
<1> HIDE DEF u
<1>4. Stored = DataBuf /\ Unwritten = {} /\ Powered
  BY <1>3, MappedIdle
<1>5. ASSUME pc' = "idle" \/ (pc' = "clear" /\ after' # "init")
      PROVE  Abstract!Next
  <2>1. Stored' = DataBuf' /\ Unwritten' = {} /\ Powered'
    BY <1>3, <1>5, MappedIdle, MappedClear
  <2>2. Stored' = Overwrite(d, Stored) /\ Unwritten \subseteq {d}
    BY <1>3, <1>4, <2>1
  <2> QED
    BY <1>3, <1>4, <2>1, <2>2, AbstractSteps
<1>6. ASSUME pc' \in {"direct", "log"}
      PROVE  Abstract!Next
  <2>1. Stored' = Replay' /\ Unwritten' = {Written'} /\ Powered'
    BY <1>3, <1>6, MappedPending
  <2>2. Replay' = Replay /\ Replay = DataBuf
    BY <1>3, ReplayIsPlayBack DEF Faithful
  <2>3. \A a \in u : DataBuf'[a] = d[a]
    BY <1>3, OverlayFacts DEF TypeOK
  <2>4. Written' = d
    BY <1>3, <2>3 DEF Written
  <2> QED
    BY <1>3, <1>4, <2>1, <2>2, <2>4, AbstractSteps
<1>7. CASE StartDirect(c)
  BY <1>5, <1>6, <1>7 DEF StartDirect
<1>8. CASE StartCompact(c)
  BY <1>5, <1>8 DEF StartCompact
<1>9. CASE StartLog(c)
  <2>1. log[empty_slot] = Blank
    BY <1>3, <1>9, LiveLog DEF StartLog
  <2> QED
    BY <1>6, <1>9, <2>1 DEF StartLog
<1> QED
  BY <1>2, <1>7, <1>8, <1>9 DEF EEPROM_WriteData

\* Programming the pending unit, in place or in the log, is the abstract write.
LEMMA SimulatesProgram ==
    ASSUME TypeOK, Shape, Faithful, TypeOK', Faithful', ~harmed, ~harmed',
           pc \in {"direct", "log"}, pc' = "idle", DataBuf' = DataBuf,
           \A a \in Addr : Replay'[a] = IF a \in job THEN DataBuf[a] ELSE Replay[a]
    PROVE  Abstract!Next
<1>1. Stored = Replay /\ Unwritten = {Written} /\ Powered
  BY MappedPending
<1>2. Stored' = Replay' /\ Unwritten' = {} /\ Powered'
  BY MappedIdle DEF Faithful
<1>3. job \in Units /\ Replay' \in [Addr -> Value]
  BY ReplayType DEF Shape, FlashOK, TypeOK, Logs
<1>4. Replay' = Overwrite(Written, Replay) /\ Written \in [job -> Value]
  BY <1>3, OverwriteIs
<1> QED
  BY <1>1, <1>2, <1>3, <1>4, AbstractSteps

LEMMA SimulatesPowerLoss ==
    ASSUME TypeOK, Shape, Erasure, Faithful, TypeOK', ~harmed, PowerLoss
    PROVE  Abstract!Next
<1>1. Powered /\ pc # "off" /\ pc' = "off"
  BY DEF Powered, PowerLoss
<1>2. ~Powered' /\ Unwritten' = {}
  BY <1>1, MappedOff, MappedHarmed
<1>3. CASE harmed' \/ eccd'
  <2>1. Stored' = Erased
    BY <1>1, <1>3, MappedOff, MappedHarmed
  <2> QED
    BY <1>1, <1>2, <2>1, AbstractSteps
<1>4. CASE ~harmed' /\ ~eccd'
  <2>1. pc \in {"idle", "direct", "log"}
    BY <1>4 DEF PowerLoss, Faithful, TypeOK
  <2>2. Stored' = Replay'
    BY <1>1, <1>4, MappedOff
  <2>3. Stored = Replay
    BY <2>1, MappedIdle, MappedPending DEF Faithful
  <2>4. ASSUME pc \in {"direct", "log"},
               \A a \in Addr : Replay'[a] = IF a \in job THEN DataBuf[a] ELSE Replay[a]
        PROVE  Abstract!Next
    <3>1. job \in Units /\ Replay' \in [Addr -> Value]
      BY <2>4, ReplayType DEF Shape, FlashOK, TypeOK, Logs
    <3>2. Replay' = Overwrite(Written, Replay)
      BY <2>4, <3>1, OverwriteIs
    <3>3. Unwritten = {Written}
      BY <2>4, MappedPending
    <3> QED
      BY <1>1, <1>2, <2>2, <2>3, <3>2, <3>3, AbstractSteps
  <2>5. CASE UNCHANGED flash
    <3>1. Replay' = Replay
      BY <2>5, ReplayIsPlayBack DEF flash
    <3> QED
      BY <1>1, <1>2, <2>2, <2>3, <3>1, AbstractSteps
  <2>6. CASE pc = "direct" /\ CutProgram(JobCell)
    <3>1. ProgramCell(JobCell)
      BY <1>4, <2>6 DEF CutProgram, eccd
    <3> QED
      BY <2>4, <2>6, <3>1, DirectEffect
  <2>7. CASE /\ pc = "log"
             /\ \E s \in {NewEntry, Bad, Torn} : log' = [log EXCEPT ![empty_slot] = s]
             /\ UNCHANGED <<comp, badCells>>
    <3>1. PICK s \in {NewEntry, Bad, Torn} : log' = [log EXCEPT ![empty_slot] = s]
      BY <2>7
    <3>2. empty_slot \in 0..(LogSlots - 1) /\ log \in Logs
      BY <2>7, SlotCount DEF Shape, TypeOK, Logs
    <3>3. /\ log'[empty_slot] = s /\ empty_slot \in DOMAIN log'
          /\ \A i \in 0..(LogSlots - 1) : i # empty_slot => log'[i] = log[i]
      BY <3>1, <3>2 DEF Logs
    <3>4. s # Torn
      <4>1. s \in Range(log')
        BY <3>3 DEF Range
      <4> QED
        BY <1>4, <4>1 DEF PowerLoss
    <3>5. s # Bad
      <4> SUFFICES ASSUME s = Bad
                   PROVE  FALSE
        OBVIOUS
      <4>1. Logged(comp, log, empty_slot)
        BY <2>1, LiveLog
      <4>2. EndsAt(log', empty_slot)
        BY <3>2, <3>3, <4>1, SlotCount, SlotKinds DEF EndsAt, Logged
      <4>3. ReplayEnd' = empty_slot
        BY <3>2, <4>2, EndUnique, ReplayIsPlayBack, SlotCount
      <4>4. eccd'
        BY <3>2, <3>3, <4>3, SlotCount DEF eccd
      <4> QED
        BY <1>4, <4>4
    <3>6. log'[empty_slot] = NewEntry
      BY <3>3, <3>4, <3>5
    <3>7. \A a \in Addr : Replay'[a] = IF a \in job THEN DataBuf[a] ELSE Replay[a]
      BY <2>7, <3>3, <3>6, LogEffect
    <3> QED
      BY <2>4, <2>7, <3>7
  <2> QED
    BY <2>1, <2>5, <2>6, <2>7 DEF PowerLoss, CutOperation
<1> QED
  BY <1>3, <1>4

LEMMA SimulatesNext ==
    ASSUME IInv, IInv', [Next]_vars
    PROVE  [Abstract!Next]_(Abstract!vars)
<1> USE DEF IInv
<1>1. CASE harmed
  <2>1. Stored = Erased /\ Unwritten = {} /\ ~Powered
    BY <1>1, MappedHarmed
  <2>2. CASE harmed'
    <3>1. Stored' = Stored /\ Unwritten' = Unwritten /\ Powered' = Powered
      BY <1>1, <2>2, MappedHarmed DEF Powered
    <3> QED
      BY <3>1, AbstractStutter
  <2>3. CASE ~harmed'
    <3>1. ClearPage /\ pc' = "idle" /\ DataBuf' = Erased
      BY <1>1, <2>3 DEF Next, vars, EEPROM_Init, EEPROM_Erase, ClearPage, FillCell, WriteSome,
           EEPROM_WriteData, ProgramDirect, EraseLogPage, ProgramLog, PowerLoss
    <3>2. Stored' = Erased /\ Unwritten' = {} /\ Powered'
      BY <2>3, <3>1, MappedIdle
    <3> QED
      BY <2>1, <3>2, AbstractSteps
  <2> QED
    BY <2>2, <2>3
<1>2. CASE ~harmed
  <2>1. CASE EEPROM_Init
    <3>1. Stored = (IF eccd THEN Erased ELSE Replay) /\ Unwritten = {} /\ ~Powered /\ ~harmed'
      BY <1>2, <2>1, MappedOff DEF EEPROM_Init
    <3>2. CASE eccd
      BY <2>1, <3>1, <3>2, MappedClear, AbstractSteps DEF EEPROM_Init
    <3>3. CASE ~eccd
      BY <2>1, <3>1, <3>3, MappedIdle, AbstractSteps DEF EEPROM_Init
    <3> QED
      BY <3>2, <3>3
  <2>2. CASE EEPROM_Erase
    <3>1. Unwritten = {} /\ Powered
      BY <1>2, <2>2, MappedIdle DEF EEPROM_Erase
    <3>2. Stored' = Erased /\ Unwritten' = {} /\ Powered'
      BY <1>2, <2>2, MappedClear DEF EEPROM_Erase
    <3> QED
      BY <3>1, <3>2, AbstractSteps
  <2>3. CASE ClearPage
    <3>1. Stored = (IF after = "init" THEN Erased ELSE DataBuf) /\ Unwritten = {} /\ Powered
      BY <1>2, <2>3, MappedClear DEF ClearPage
    <3>2. ~harmed' /\ after' = after
      BY <1>2, <2>3 DEF ClearPage
    <3>3. CASE pc' \in {"clear", "fill"}
      <4>1. DataBuf' = DataBuf
        BY <2>3, <3>3 DEF ClearPage
      <4>2. Stored' = Stored /\ Unwritten' = Unwritten /\ Powered' = Powered
        BY <1>2, <2>3, <3>1, <3>2, <3>3, <4>1, MappedClear DEF Powered, ClearPage
      <4> QED
        BY <4>2, AbstractStutter
    <3>4. CASE pc' = "idle"
      <4>1. after = "init" /\ DataBuf' = Erased
        BY <2>3, <3>4 DEF ClearPage
      <4>2. Stored' = Stored /\ Unwritten' = Unwritten /\ Powered' = Powered
        BY <1>2, <2>3, <3>1, <3>2, <3>4, <4>1, MappedIdle DEF Powered, ClearPage
      <4> QED
        BY <4>2, AbstractStutter
    <3> QED
      BY <2>3, <3>3, <3>4 DEF ClearPage
  <2>4. CASE FillCell
    <3>1. /\ pc = "fill" /\ after = "idle" /\ pc' \in {"fill", "idle"}
          /\ ~harmed' /\ UNCHANGED <<DataBuf, after>>
      BY <1>2, <2>4 DEF FillCell, Faithful, Shape, TypeOK
    <3>2. Stored = DataBuf /\ Unwritten = {}
      BY <1>2, <3>1, MappedClear
    <3>3. Stored' = DataBuf' /\ Unwritten' = {}
      BY <3>1, MappedClear, MappedIdle
    <3>4. Powered' = Powered
      BY <1>2, <3>1 DEF Powered
    <3> QED
      BY <3>1, <3>2, <3>3, <3>4, AbstractStutter
  <2>5. CASE WriteSome
    BY <1>2, <2>5, SimulatesWrite
  <2>6. CASE ProgramDirect
    <3>1. ~harmed' /\ pc = "direct" /\ pc' = "idle" /\ DataBuf' = DataBuf
      BY <1>2, <2>6 DEF ProgramDirect
    <3>2. \A a \in Addr : Replay'[a] = IF a \in job THEN DataBuf[a] ELSE Replay[a]
      BY <1>2, <2>6, DirectEffect DEF ProgramDirect
    <3> QED
      BY <1>2, <3>1, <3>2, SimulatesProgram
  <2>7. CASE EraseLogPage
    BY <1>2, <2>7 DEF EraseLogPage, Faithful
  <2>8. CASE ProgramLog
    <3>1. ~harmed' /\ pc = "log" /\ pc' = "idle" /\ DataBuf' = DataBuf /\ comp' = comp
      BY <1>2, <2>8 DEF ProgramLog
    <3>2. empty_slot \in 0..(LogSlots - 1) /\ log \in Logs
      BY <3>1, SlotCount DEF Shape, TypeOK, Logs
    <3>3. /\ log'[empty_slot] = NewEntry
          /\ \A i \in 0..(LogSlots - 1) : i # empty_slot => log'[i] = log[i]
      BY <2>8, <3>2 DEF ProgramLog, Logs
    <3>4. \A a \in Addr : Replay'[a] = IF a \in job THEN DataBuf[a] ELSE Replay[a]
      BY <1>2, <3>1, <3>3, LogEffect
    <3> QED
      BY <1>2, <3>1, <3>4, SimulatesProgram
  <2>9. CASE PowerLoss
    BY <1>2, <2>9, SimulatesPowerLoss
  <2>10. CASE UNCHANGED vars
    <3>1. Replay' = Replay /\ ReplayEnd' = ReplayEnd
      BY <2>10, ReplayIsPlayBack DEF vars
    <3>2. Stored' = Stored /\ Unwritten' = Unwritten /\ Powered' = Powered
      BY <2>10, <3>1 DEF vars, Stored, Unwritten, Powered, eccd
    <3> QED
      BY <3>2, AbstractStutter
  <2> QED
    BY <2>1, <2>2, <2>3, <2>4, <2>5, <2>6, <2>7, <2>8, <2>9, <2>10 DEF Next
<1> QED
  BY <1>1, <1>2

\* The driver implements the abstract EEPROM: whatever the sizes and wherever power
\* is lost, a write is atomic and what has been written stays, until a compaction is
\* interrupted.
THEOREM Implementation == Spec => ImplementsEeprom
<1>1. Init => Abstract!Init
  BY SimulatesInit
<1>2. IInv /\ IInv' /\ [Next]_vars => [Abstract!Next]_(Abstract!vars)
  BY SimulatesNext
<1> QED
  BY <1>1, <1>2, Invariance, PTL DEF Spec, ImplementsEeprom, Abstract!Spec
=============================================================================
