--------------------------- MODULE EeConfigProofs ---------------------------
(***************************************************************************)
(* Proofs about EeConfig, for a keymap of any length and firmware builds   *)
(* of any dates, the same or not.                                          *)
(*                                                                         *)
(* The settings are written one EEPROM operation at a time, so the         *)
(* invariant speaks of the store together with the operations that are     *)
(* still to do: in which order they come is what makes the settings safe.  *)
(***************************************************************************)
EXTENDS EeConfig, TLAPS

Ops == {EraseAll} \cup [op : {"write"}, field : Fields, value : Value]

WritesTo(o, F) == o.op = "write" /\ o.field \in F

\* An operation that may complete a magic.
MakesValid(o) == WritesTo(o, ViaMagic) /\ o.value # FF

\* What a keymap byte written by firmware b holds.
Good(b) == {b, UserKey(b)}

\* What it may hold under the magic of firmware b.
Shared(b) == UNION {Good(c) : c \in SameDate(b)}

\* What the operations p of firmware b may be.
Plan(p, b) ==
    /\ p \in Seq(Ops)
    /\ \A i \in 1..Len(p) :
        /\ p[i].op = "erase" => i = 1
        /\ WritesTo(p[i], Keys) => p[i].value \in Good(b)
        /\ WritesTo(p[i], ViaMagic) => p[i].value \in {FF, MagicByte(p[i].field, b)}

Planned == Plan(todo, build)

\* Operations p write keymap byte k before the magic that is operation i.
WrittenBefore(p, k, i) == \E j \in 1..(i - 1) : WritesTo(p[j], {k})

Fills(p) ==
    \A i \in 1..Len(p) : MakesValid(p[i]) => \A k \in Keys : WrittenBefore(p, k, i)

\* When the magic is written, the whole keymap is in place.
Filled ==
    \A i \in 1..Len(todo) : MakesValid(todo[i]) =>
        \A k \in Keys :
            \/ store[k] \in Good(build) /\ todo[1].op # "erase"
            \/ WrittenBefore(todo, k, i)

\* Byte f of the magic is not that of another date.
MineAt(f) == store[f] \in {0, FF, MagicByte(f, build)}

Mine == \A f \in ViaMagic : MineAt(f)

\* Operations p remove byte f of the magic before they write the keymap, or a magic.
Removed(p, f) ==
    \E j \in 1..Len(p) :
        /\ p[j] = Set(f, FF)
        /\ \A i \in 1..(j - 1) : ~MakesValid(p[i]) /\ ~WritesTo(p[i], Keys)

Claims(p) == \A f \in ViaMagic : Removed(p, f)

\* The magic of another date is gone, or goes first, byte by byte.
Owned ==
    todo # <<>> \/ stage \in {"via", "magic", "run", "reset"} =>
        \A f \in ViaMagic : MineAt(f) \/ Removed(todo, f)

\* MagicMeansGoodData for all firmware, since another may be flashed.
GoodData ==
    \A b \in Firmware :
        (\A f \in ViaMagic : store[f] = MagicByte(f, b)) => \A k \in Keys : store[k] \in Shared(b)

Power ==
    /\ powered <=> stage # "off"
    /\ stage = "off" => todo = <<>>
    /\ damaged => stage = "off" /\ store = EE!Erased

\* Operation o leaves field f as it is, or makes it v.
Keeps(o, f, v) == o.op = "write" /\ (o.field = f => o.value = v)

\* Operations p leave v in field f.
Ends(p, f, v) ==
    \E j \in 1..Len(p) : p[j] = Set(f, v) /\ \A i \in (j + 1)..Len(p) : Keeps(p[i], f, v)

\* When operations p are done on store s, field f holds v.
Settled(s, p, f, v) ==
    \/ s[f] = v /\ \A i \in 1..Len(p) : Keeps(p[i], f, v)
    \/ Ends(p, f, v)

\* FactorySettings of firmware b.
Factory(b) ==
    [f \in Fields |-> CASE f \in Keys -> b
                        [] f \in ViaMagic -> MagicByte(f, b)
                        [] f \in {"layout", "macro"} -> 0
                        [] OTHER -> Default]

\* A pristine EEPROM lacks the core magic until the start reaches eeconfig_init.
Fresh ==
    pristine =>
        /\ ~damaged
        /\ stage \in {"off", "setup"} => todo = <<>> /\ store["magic"] # MagicNumber
        /\ stage = "via" => /\ store["magic"] # MagicNumber
                            /\ \A i \in 1..Len(todo) :
                                  todo[i].op = "write" /\ todo[i].field # "magic"
        /\ stage = "reset" => Settled(store, todo, "magic", FF)
        /\ stage \in {"magic", "run"} =>
              \A f \in Fields : Settled(store, todo, f, Factory(build)[f])

IInv == TypeOK /\ Planned /\ Filled /\ Owned /\ GoodData /\ Power /\ Fresh
-----------------------------------------------------------------------------
(***************************************************************************)
(* The plans: what the functions write, operation by operation.            *)
(***************************************************************************)
LEMMA FieldFacts ==
    /\ Keys \subseteq Fields /\ Settings \subseteq Fields /\ ViaMagic \subseteq Settings
    /\ Keys \cap Settings = {} /\ Keys \cap ViaMagic = {}
    /\ Len(KeyBytes) \in Nat /\ \A i \in 1..Len(KeyBytes) : KeyBytes[i] \in Keys
    /\ \A k \in Keys : \E i \in 1..Len(KeyBytes) : KeyBytes[i] = k
    /\ {"magic", "keymap", "audio", "layout", "macro", "via0", "via1", "via2"} \subseteq Settings
<1>1. KeyBytes \in Seq(Keys) /\ Keys \cap Settings = {}
  BY KeyBytesAssumption
<1>2. Len(KeyBytes) \in Nat /\ DOMAIN KeyBytes = 1..Len(KeyBytes)
  BY <1>1
<1>3. \A i \in 1..Len(KeyBytes) : KeyBytes[i] \in Keys
  BY <1>1, <1>2
<1>4. \A k \in Keys : \E i \in 1..Len(KeyBytes) : KeyBytes[i] = k
  BY <1>2 DEF Keys, Range
<1> QED
  BY <1>1, <1>2, <1>3, <1>4 DEF Fields, Settings, ViaMagic

LEMMA FunctionSeq ==
    ASSUME NEW n \in Nat, NEW p \in [1..n -> Ops]
    PROVE  p \in Seq(Ops) /\ Len(p) = n
OBVIOUS

\* Sequences of operations put together.
Joined(p, q, r) ==
    /\ r \in Seq(Ops) /\ Len(r) = Len(p) + Len(q)
    /\ \A i \in 1..Len(p) : r[i] = p[i]
    /\ \A i \in (Len(p) + 1)..(Len(p) + Len(q)) : r[i] = q[i - Len(p)]

LEMMA Concatenation ==
    ASSUME NEW p \in Seq(Ops), NEW q \in Seq(Ops)
    PROVE  Joined(p, q, p \o q)
BY DEF Joined

LEMMA SetOps ==
    ASSUME NEW f \in Fields, NEW v \in Value
    PROVE  /\ Set(f, v) \in Ops /\ Set(f, v).op = "write"
           /\ Set(f, v).field = f /\ Set(f, v).value = v
BY DEF Set, Ops

LEMMA SetValidPlan ==
    ASSUME NEW valid \in BOOLEAN, NEW b \in Firmware
    PROVE  LET p == via_eeprom_set_valid(valid, b)
               v(f) == IF valid THEN MagicByte(f, b) ELSE FF
           IN  /\ p \in Seq(Ops) /\ Len(p) = 3
               /\ p[1] = Set("via0", v("via0"))
               /\ p[2] = Set("via1", v("via1"))
               /\ p[3] = Set("via2", v("via2"))
<1> DEFINE p == via_eeprom_set_valid(valid, b)
           v(f) == IF valid THEN MagicByte(f, b) ELSE FF
           t == <<"via0", "via1", "via2">>
<1>1. \A f \in ViaMagic : MagicByte(f, b) \in 1..8
  BY DateAssumption DEF MagicByte
<1>2. \A f \in ViaMagic : v(f) \in Value
  BY <1>1 DEF FF, Value
<1>3. t[1] = "via0" /\ t[2] = "via1" /\ t[3] = "via2"
  OBVIOUS
<1>4. \A i \in 1..3 : t[i] \in ViaMagic
  BY DEF ViaMagic
<1>5. p = [i \in 1..3 |-> Set(t[i], v(t[i]))]
  BY DEF via_eeprom_set_valid
<1> HIDE DEF p, v, t
<1>6. \A i \in 1..3 : Set(t[i], v(t[i])) \in Ops
  BY <1>2, <1>4, SetOps, FieldFacts
<1>7. p \in Seq(Ops) /\ Len(p) = 3
  <2>1. p \in [1..3 -> Ops]
    BY <1>5, <1>6
  <2> QED
    BY <2>1, FunctionSeq
<1>8. /\ p[1] = Set("via0", v("via0"))
      /\ p[2] = Set("via1", v("via1"))
      /\ p[3] = Set("via2", v("via2"))
  BY <1>3, <1>5
<1> QED
  BY <1>7, <1>8 DEF p, v

LEMMA ResetPlan ==
    ASSUME NEW b \in Firmware
    PROVE  LET p == dynamic_keymap_reset(b)
           IN  /\ p \in Seq(Ops) /\ Len(p) = Len(KeyBytes)
               /\ \A i \in 1..Len(KeyBytes) : p[i] = Set(KeyBytes[i], b)
<1>1. b \in Value
  BY FirmwareAssumption DEF Value, FF
<1>2. \A i \in 1..Len(KeyBytes) : Set(KeyBytes[i], b) \in Ops
  BY <1>1, SetOps, FieldFacts
<1> QED
  BY <1>2, FieldFacts DEF dynamic_keymap_reset

LEMMA InitViaPlan ==
    ASSUME NEW b \in Firmware
    PROVE  LET p == eeconfig_init_via(b)
               n == Len(KeyBytes)
           IN  /\ p \in Seq(Ops) /\ Len(p) = n + 8
               /\ p[1] = Set("via0", FF) /\ p[2] = Set("via1", FF) /\ p[3] = Set("via2", FF)
               /\ p[4] = Set("layout", 0)
               /\ \A i \in 1..n : p[4 + i] = Set(KeyBytes[i], b)
               /\ p[n + 5] = Set("macro", 0)
               /\ p[n + 6] = Set("via0", MagicByte("via0", b))
               /\ p[n + 7] = Set("via1", MagicByte("via1", b))
               /\ p[n + 8] = Set("via2", MagicByte("via2", b))
<1> DEFINE n == Len(KeyBytes)
           s1 == via_eeprom_set_valid(FALSE, b)
           s2 == <<Set("layout", 0)>>
           s3 == dynamic_keymap_reset(b)
           s4 == dynamic_keymap_macro_reset
           s5 == via_eeprom_set_valid(TRUE, b)
           t2 == s1 \o s2
           t3 == t2 \o s3
           t4 == t3 \o s4
           p == t4 \o s5
<1>0. eeconfig_init_via(b) = p
  BY DEF eeconfig_init_via
<1>1. /\ s1 \in Seq(Ops) /\ Len(s1) = 3
      /\ s1[1] = Set("via0", FF) /\ s1[2] = Set("via1", FF) /\ s1[3] = Set("via2", FF)
  BY SetValidPlan
<1>2. s2 \in Seq(Ops) /\ Len(s2) = 1 /\ s2[1] = Set("layout", 0)
  <2>1. Set("layout", 0) \in Ops
    BY SetOps, FieldFacts DEF Value, FF
  <2> QED
    BY <2>1
<1>3. s3 \in Seq(Ops) /\ Len(s3) = n /\ \A i \in 1..n : s3[i] = Set(KeyBytes[i], b)
  BY ResetPlan
<1>4. s4 \in Seq(Ops) /\ Len(s4) = 1 /\ s4[1] = Set("macro", 0)
  <2>1. Set("macro", 0) \in Ops
    BY SetOps, FieldFacts DEF Value, FF
  <2> QED
    BY <2>1 DEF dynamic_keymap_macro_reset
<1>5. /\ s5 \in Seq(Ops) /\ Len(s5) = 3
      /\ s5[1] = Set("via0", MagicByte("via0", b))
      /\ s5[2] = Set("via1", MagicByte("via1", b))
      /\ s5[3] = Set("via2", MagicByte("via2", b))
  BY SetValidPlan
<1>6. n \in Nat
  BY FieldFacts
<1> HIDE DEF n, s1, s2, s3, s4, s5
<1>7. t2 \in Seq(Ops) /\ Joined(s1, s2, t2)
  BY <1>1, <1>2, Concatenation
<1> HIDE DEF t2
<1>8. t3 \in Seq(Ops) /\ Joined(t2, s3, t3)
  BY <1>3, <1>7, Concatenation
<1> HIDE DEF t3
<1>9. t4 \in Seq(Ops) /\ Joined(t3, s4, t4)
  BY <1>4, <1>8, Concatenation
<1> HIDE DEF t4
<1>10. p \in Seq(Ops) /\ Joined(t4, s5, p)
  BY <1>5, <1>9, Concatenation
<1> HIDE DEF p
<1>a. Len(t2) = 4 /\ t2[1] = s1[1] /\ t2[2] = s1[2] /\ t2[3] = s1[3] /\ t2[4] = s2[1]
  BY <1>1, <1>2, <1>7 DEF Joined
<1>b. /\ Len(t3) = n + 4
      /\ \A i \in 1..4 : t3[i] = t2[i]
      /\ \A i \in 1..n : t3[4 + i] = s3[i]
  BY <1>3, <1>6, <1>8, <1>a DEF Joined
<1>c. /\ Len(t4) = n + 5
      /\ \A i \in 1..(n + 4) : t4[i] = t3[i]
      /\ t4[n + 5] = s4[1]
  BY <1>4, <1>6, <1>9, <1>b DEF Joined
<1>d. /\ Len(p) = n + 8
      /\ \A i \in 1..(n + 5) : p[i] = t4[i]
      /\ p[n + 6] = s5[1] /\ p[n + 7] = s5[2] /\ p[n + 8] = s5[3]
  BY <1>5, <1>6, <1>10, <1>c DEF Joined
<1>11. /\ p[1] = s1[1] /\ p[2] = s1[2] /\ p[3] = s1[3] /\ p[4] = s2[1]
       /\ \A i \in 1..n : p[4 + i] = s3[i]
       /\ p[n + 5] = s4[1]
  BY <1>6, <1>a, <1>b, <1>c, <1>d
<1>12. /\ p \in Seq(Ops) /\ Len(p) = n + 8
       /\ p[1] = Set("via0", FF) /\ p[2] = Set("via1", FF) /\ p[3] = Set("via2", FF)
       /\ p[4] = Set("layout", 0)
       /\ \A i \in 1..n : p[4 + i] = Set(KeyBytes[i], b)
       /\ p[n + 5] = Set("macro", 0)
       /\ p[n + 6] = Set("via0", MagicByte("via0", b))
       /\ p[n + 7] = Set("via1", MagicByte("via1", b))
       /\ p[n + 8] = Set("via2", MagicByte("via2", b))
  BY <1>1, <1>2, <1>3, <1>4, <1>5, <1>10, <1>11, <1>d
<1> QED
  BY <1>0, <1>12 DEF n

LEMMA InitPlan ==
    ASSUME NEW b \in Firmware
    PROVE  LET p == eeconfig_init(b)
               q == eeconfig_init_via(b)
           IN  /\ p \in Seq(Ops) /\ Len(p) = Len(q) + 7
               /\ p[1] = EraseAll /\ p[2] = Set("magic", MagicNumber)
               /\ p[3] = Set("keymap", Default) /\ p[4] = Set("audio", Default)
               /\ p[5] = Set("via0", FF) /\ p[6] = Set("via1", FF) /\ p[7] = Set("via2", FF)
               /\ \A i \in 1..Len(q) : p[7 + i] = q[i]
<1> DEFINE q == eeconfig_init_via(b)
           s1 == <<EraseAll, Set("magic", MagicNumber), Set("keymap", Default), Set("audio", Default)>>
           s2 == via_eeprom_set_valid(FALSE, b)
           t2 == s1 \o s2
           p == t2 \o q
<1>0. eeconfig_init(b) = p
  BY DEF eeconfig_init
<1>1. /\ s1 \in Seq(Ops) /\ Len(s1) = 4
      /\ s1[1] = EraseAll /\ s1[2] = Set("magic", MagicNumber)
      /\ s1[3] = Set("keymap", Default) /\ s1[4] = Set("audio", Default)
  <2>1. /\ Set("magic", MagicNumber) \in Ops /\ Set("keymap", Default) \in Ops
        /\ Set("audio", Default) \in Ops
    BY SetOps, FieldFacts DEF MagicNumber, Default, Value, FF
  <2>2. EraseAll \in Ops
    BY DEF Ops
  <2> QED
    BY <2>1, <2>2
<1>2. /\ s2 \in Seq(Ops) /\ Len(s2) = 3
      /\ s2[1] = Set("via0", FF) /\ s2[2] = Set("via1", FF) /\ s2[3] = Set("via2", FF)
  BY SetValidPlan
<1>3. q \in Seq(Ops) /\ Len(q) \in Nat
  BY InitViaPlan, FieldFacts
<1> HIDE DEF s1, s2, q
<1>4. t2 \in Seq(Ops) /\ Joined(s1, s2, t2)
  BY <1>1, <1>2, Concatenation
<1> HIDE DEF t2
<1>5. p \in Seq(Ops) /\ Joined(t2, q, p)
  BY <1>3, <1>4, Concatenation
<1> HIDE DEF p
<1>a. /\ Len(t2) = 7 /\ \A i \in 1..4 : t2[i] = s1[i]
      /\ t2[5] = s2[1] /\ t2[6] = s2[2] /\ t2[7] = s2[3]
  BY <1>1, <1>2, <1>4 DEF Joined
<1>b. /\ Len(p) = Len(q) + 7
      /\ \A i \in 1..7 : p[i] = t2[i]
      /\ \A i \in 1..Len(q) : p[7 + i] = q[i]
  BY <1>3, <1>5, <1>a DEF Joined
<1>6. /\ p[1] = s1[1] /\ p[2] = s1[2] /\ p[3] = s1[3] /\ p[4] = s1[4]
      /\ p[5] = s2[1] /\ p[6] = s2[2] /\ p[7] = s2[3]
  BY <1>a, <1>b
<1> QED
  BY <1>0, <1>1, <1>2, <1>5, <1>6, <1>b DEF q

\* What an operation of eeconfig_init_via is.
ViaOp(o, i, b) ==
    LET n == Len(KeyBytes)
    IN  \/ i \in 1..3 /\ \E f \in ViaMagic : o = Set(f, FF)
        \/ i = 4 /\ o = Set("layout", 0)
        \/ i \in 5..(n + 4) /\ o = Set(KeyBytes[i - 4], b)
        \/ i = n + 5 /\ o = Set("macro", 0)
        \/ i \in (n + 6)..(n + 8) /\ \E f \in ViaMagic : o = Set(f, MagicByte(f, b))

LEMMA InitViaOps ==
    ASSUME NEW b \in Firmware, NEW i \in 1..Len(eeconfig_init_via(b))
    PROVE  ViaOp(eeconfig_init_via(b)[i], i, b)
<1> DEFINE p == eeconfig_init_via(b)
           n == Len(KeyBytes)
<1>1. /\ Len(p) = n + 8 /\ n \in Nat
      /\ p[1] = Set("via0", FF) /\ p[2] = Set("via1", FF) /\ p[3] = Set("via2", FF)
      /\ p[4] = Set("layout", 0)
      /\ \A j \in 1..n : p[4 + j] = Set(KeyBytes[j], b)
      /\ p[n + 5] = Set("macro", 0)
      /\ p[n + 6] = Set("via0", MagicByte("via0", b))
      /\ p[n + 7] = Set("via1", MagicByte("via1", b))
      /\ p[n + 8] = Set("via2", MagicByte("via2", b))
  BY InitViaPlan, FieldFacts
<1>2. i \in 1..Len(p)
  OBVIOUS
<1>n. ViaOp(p[i], i, b) <=>
        \/ i \in 1..3 /\ \E f \in ViaMagic : p[i] = Set(f, FF)
        \/ i = 4 /\ p[i] = Set("layout", 0)
        \/ i \in 5..(n + 4) /\ p[i] = Set(KeyBytes[i - 4], b)
        \/ i = n + 5 /\ p[i] = Set("macro", 0)
        \/ i \in (n + 6)..(n + 8) /\ \E f \in ViaMagic : p[i] = Set(f, MagicByte(f, b))
  BY DEF ViaOp
<1>v. {"via0", "via1", "via2"} = ViaMagic
  BY DEF ViaMagic
<1> HIDE DEF p, n
<1>3. \/ i \in {1, 2, 3} \/ i = 4 \/ i \in 5..(n + 4) \/ i = n + 5
      \/ i \in {n + 6, n + 7, n + 8}
  BY <1>1, <1>2
<1>4. CASE i \in {1, 2, 3}
  <2>1. i \in 1..3
    BY <1>4
  <2>2. \E f \in ViaMagic : p[i] = Set(f, FF)
    BY <1>1, <1>4, <1>v
  <2> QED
    BY <2>1, <2>2, <1>n DEF p
<1>5. CASE i = 4
  BY <1>1, <1>5, <1>n DEF p
<1>6. CASE i \in 5..(n + 4)
  <2>1. i - 4 \in 1..n /\ 4 + (i - 4) = i
    BY <1>1, <1>6
  <2>2. p[i] = Set(KeyBytes[i - 4], b)
    BY <1>1, <2>1
  <2> QED
    BY <1>6, <2>2, <1>n DEF p
<1>7. CASE i = n + 5
  BY <1>1, <1>7, <1>n DEF p
<1>8. CASE i \in {n + 6, n + 7, n + 8}
  <2>1. i \in (n + 6)..(n + 8)
    BY <1>1, <1>8
  <2>2. \E f \in ViaMagic : p[i] = Set(f, MagicByte(f, b))
    BY <1>1, <1>8, <1>v
  <2> QED
    BY <2>1, <2>2, <1>n DEF p
<1> QED
  BY <1>3, <1>4, <1>5, <1>6, <1>7, <1>8

\* The same by what is written, where it is written and what it may be.
LEMMA InitViaWrites ==
    ASSUME NEW b \in Firmware, NEW i \in 1..Len(eeconfig_init_via(b))
    PROVE  LET o == eeconfig_init_via(b)[i]
               n == Len(KeyBytes)
           IN  /\ o.op = "write"
               /\ o.field \notin {"magic", "keymap", "audio"}
               /\ o.field \in Keys => o.value = b
               /\ o.field = "layout" \/ o.field = "macro" => o.value = 0
               /\ o.field \in ViaMagic =>
                    \/ i =< 3 /\ o.value = FF
                    \/ i >= n + 6 /\ o.value = MagicByte(o.field, b)
<1> DEFINE o == eeconfig_init_via(b)[i]
           n == Len(KeyBytes)
<1>1. /\ Keys \cap Settings = {} /\ ViaMagic = {"via0", "via1", "via2"}
      /\ \A j \in 1..n : KeyBytes[j] \in Keys
      /\ \A f \in ViaMagic : f \notin Keys
      /\ {"magic", "keymap", "audio", "layout", "macro"} \cap Keys = {}
      /\ n \in Nat
  BY FieldFacts DEF ViaMagic, Settings
<1>2. \A f, v : Set(f, v).op = "write" /\ Set(f, v).field = f /\ Set(f, v).value = v
  BY DEF Set
<1>3. \/ i \in 1..3 /\ \E f \in ViaMagic : o = Set(f, FF)
      \/ i = 4 /\ o = Set("layout", 0)
      \/ i \in 5..(n + 4) /\ o = Set(KeyBytes[i - 4], b)
      \/ i = n + 5 /\ o = Set("macro", 0)
      \/ i \in (n + 6)..(n + 8) /\ \E f \in ViaMagic : o = Set(f, MagicByte(f, b))
  BY InitViaOps DEF ViaOp
<1> HIDE DEF o, n
<1>4. CASE i \in 1..3 /\ \E f \in ViaMagic : o = Set(f, FF)
  BY <1>1, <1>2, <1>4 DEF o, n
<1>5. CASE i = 4 /\ o = Set("layout", 0)
  BY <1>1, <1>2, <1>5 DEF o, n
<1>6. CASE i \in 5..(n + 4) /\ o = Set(KeyBytes[i - 4], b)
  <2>1. KeyBytes[i - 4] \in Keys
    BY <1>1, <1>6
  <2> QED
    BY <1>1, <1>2, <1>6, <2>1 DEF o, n
<1>7. CASE i = n + 5 /\ o = Set("macro", 0)
  BY <1>1, <1>2, <1>7 DEF o, n
<1>8. CASE i \in (n + 6)..(n + 8) /\ \E f \in ViaMagic : o = Set(f, MagicByte(f, b))
  <2>1. i >= n + 6
    BY <1>1, <1>8
  <2> QED
    BY <1>1, <1>2, <1>8, <2>1 DEF o, n
<1> QED
  BY <1>3, <1>4, <1>5, <1>6, <1>7, <1>8

\* eeconfig_init_via keeps the order that makes it safe.
LEMMA InitViaSafe ==
    ASSUME NEW b \in Firmware
    PROVE  LET p == eeconfig_init_via(b)
           IN  Plan(p, b) /\ Fills(p) /\ Claims(p)
<1> DEFINE p == eeconfig_init_via(b)
           n == Len(KeyBytes)
<1>1. /\ p \in Seq(Ops) /\ Len(p) = n + 8 /\ n \in Nat
      /\ p[1] = Set("via0", FF) /\ p[2] = Set("via1", FF) /\ p[3] = Set("via2", FF)
  BY InitViaPlan, FieldFacts
<1>2. \A i \in 1..Len(p) :
        /\ p[i].op = "write"
        /\ p[i].field \in Keys => p[i].value = b
        /\ p[i].field \in ViaMagic =>
              \/ i =< 3 /\ p[i].value = FF
              \/ i >= n + 6 /\ p[i].value = MagicByte(p[i].field, b)
  BY InitViaWrites
<1>3. \A j \in 1..n : p[4 + j] = Set(KeyBytes[j], b)
  BY InitViaPlan
<1>4. \A i \in 1..3 : p[i].field \in ViaMagic /\ p[i].field \notin Keys /\ p[i].value = FF
  <2>1. /\ p[1] = Set("via0", FF) /\ p[2] = Set("via1", FF) /\ p[3] = Set("via2", FF)
        /\ {"via0", "via1", "via2"} \cap Keys = {} /\ ViaMagic = {"via0", "via1", "via2"}
    BY InitViaPlan, FieldFacts DEF ViaMagic
  <2> QED
    BY <2>1 DEF Set
<1> HIDE DEF p, n
<1>5. Plan(p, b)
  BY <1>1, <1>2 DEF Plan, WritesTo, Good
<1>6. Claims(p)
  <2>1. \A j \in 1..3 : \A i \in 1..(j - 1) : ~MakesValid(p[i]) /\ ~WritesTo(p[i], Keys)
    BY <1>4 DEF MakesValid, WritesTo
  <2>2. \A j \in 1..3 : j \in 1..Len(p)
    BY <1>1
  <2>3. \A f \in ViaMagic : \E j \in 1..3 : p[j] = Set(f, FF)
    BY <1>1 DEF ViaMagic
  <2> QED
    BY <2>1, <2>2, <2>3 DEF Claims, Removed
<1>7. Fills(p)
  <2> SUFFICES ASSUME NEW i \in 1..Len(p), MakesValid(p[i]), NEW k \in Keys
               PROVE  WrittenBefore(p, k, i)
    BY DEF Fills
  <2>1. i >= n + 6
    BY <1>2 DEF MakesValid, WritesTo
  <2>2. PICK j \in 1..n : KeyBytes[j] = k
    BY FieldFacts DEF n
  <2>3. WritesTo(p[4 + j], {k})
    <3>1. p[4 + j] = Set(k, b)
      BY <1>3, <2>2
    <3> QED
      BY <3>1 DEF WritesTo, Set
  <2>4. 4 + j \in 1..(i - 1)
    BY <1>1, <2>1
  <2> QED
    BY <2>3, <2>4 DEF WrittenBefore
<1> QED
  BY <1>5, <1>6, <1>7 DEF p

LEMMA InitSafe ==
    ASSUME NEW b \in Firmware
    PROVE  LET p == eeconfig_init(b)
           IN  Plan(p, b) /\ Fills(p) /\ p # <<>> /\ p[1] = EraseAll
<1> DEFINE p == eeconfig_init(b)
           q == eeconfig_init_via(b)
<1>1. Plan(q, b) /\ Fills(q)
  BY InitViaSafe
<1>2. /\ p \in Seq(Ops) /\ Len(p) = Len(q) + 7
      /\ p[1] = EraseAll /\ p[2] = Set("magic", MagicNumber)
      /\ p[3] = Set("keymap", Default) /\ p[4] = Set("audio", Default)
      /\ p[5] = Set("via0", FF) /\ p[6] = Set("via1", FF) /\ p[7] = Set("via2", FF)
      /\ \A i \in 1..Len(q) : p[7 + i] = q[i]
  BY InitPlan
<1>3. q \in Seq(Ops) /\ Len(q) \in Nat /\ \A i \in 1..Len(q) : q[i].op = "write"
  BY InitViaPlan, InitViaWrites, FieldFacts
<1> HIDE DEF p, q
<1>4. ASSUME NEW i \in 1..Len(p)
      PROVE  \/ i \in {1, 2, 3, 4, 5, 6, 7}
             \/ i - 7 \in 1..Len(q) /\ p[i] = q[i - 7]
  <2>1. CASE i =< 7
    BY <1>2, <1>3, <2>1
  <2>2. CASE i > 7
    <3>1. i - 7 \in 1..Len(q) /\ 7 + (i - 7) = i
      BY <1>2, <1>3, <2>2
    <3> QED
      BY <1>2, <3>1
  <2> QED
    BY <1>2, <1>3, <2>1, <2>2
<1>5. \A i \in {1, 2, 3, 4, 5, 6, 7} :
        /\ ~WritesTo(p[i], Keys)
        /\ WritesTo(p[i], ViaMagic) => p[i].value = FF
        /\ p[i].op = "erase" => i = 1
  <2>1. {"magic", "keymap", "audio", "via0", "via1", "via2"} \cap Keys = {}
    BY FieldFacts
  <2>2. {"magic", "keymap", "audio"} \cap ViaMagic = {}
    BY DEF ViaMagic
  <2> QED
    BY <1>2, <2>1, <2>2 DEF WritesTo, Set, EraseAll
<1>6. Plan(p, b)
  <2> SUFFICES ASSUME NEW i \in 1..Len(p)
               PROVE  /\ p[i].op = "erase" => i = 1
                      /\ WritesTo(p[i], Keys) => p[i].value \in Good(b)
                      /\ WritesTo(p[i], ViaMagic) => p[i].value \in {FF, MagicByte(p[i].field, b)}
    BY <1>2 DEF Plan
  <2>1. CASE i \in {1, 2, 3, 4, 5, 6, 7}
    BY <1>5, <2>1
  <2>2. CASE i - 7 \in 1..Len(q) /\ p[i] = q[i - 7]
    BY <1>1, <1>3, <2>2 DEF Plan
  <2> QED
    BY <1>4, <2>1, <2>2
<1>7. Fills(p)
  <2> SUFFICES ASSUME NEW i \in 1..Len(p), MakesValid(p[i]), NEW k \in Keys
               PROVE  WrittenBefore(p, k, i)
    BY DEF Fills
  <2>1. i \notin {1, 2, 3, 4, 5, 6, 7}
    BY <1>5 DEF MakesValid
  <2>2. i - 7 \in 1..Len(q) /\ p[i] = q[i - 7]
    BY <1>4, <2>1
  <2>3. WrittenBefore(q, k, i - 7)
    BY <1>1, <2>2 DEF Fills
  <2>4. PICK j \in 1..(i - 7 - 1) : WritesTo(q[j], {k})
    BY <2>3 DEF WrittenBefore
  <2>5. 7 + j \in 1..(i - 1) /\ j \in 1..Len(q)
    BY <1>3, <2>2
  <2> QED
    BY <1>2, <2>4, <2>5 DEF WrittenBefore
<1> QED
  BY <1>2, <1>3, <1>6, <1>7 DEF p

LEMMA FactoryFacts ==
    ASSUME NEW b
    PROVE  /\ \A f \in Keys : Factory(b)[f] = b
           /\ \A f \in ViaMagic : Factory(b)[f] = MagicByte(f, b)
           /\ \A f \in {"layout", "macro"} : Factory(b)[f] = 0
           /\ \A f \in {"magic", "keymap", "audio"} : Factory(b)[f] = Default
<1>1. Keys \cap Settings = {} /\ Fields = Settings \cup Keys
  BY FieldFacts DEF Fields
<1>2. \A f \in Keys : Factory(b)[f] = b
  <2> SUFFICES ASSUME NEW f \in Keys PROVE Factory(b)[f] = b
    OBVIOUS
  <2>1. f \in Fields /\ f \notin ViaMagic /\ f \notin {"layout", "macro"}
    BY FieldFacts
  <2> QED
    BY <2>1 DEF Factory
<1>5. \A f \in ViaMagic : f \notin Keys => Factory(b)[f] = MagicByte(f, b)
  <2> SUFFICES ASSUME NEW f \in ViaMagic, f \notin Keys PROVE Factory(b)[f] = MagicByte(f, b)
    OBVIOUS
  <2>1. f \in Fields /\ f \notin {"layout", "macro"}
    BY FieldFacts DEF ViaMagic
  <2> QED
    BY <2>1 DEF Factory
<1>3. \A f \in {"layout", "macro"} : f \notin Keys => Factory(b)[f] = 0
  BY FieldFacts DEF Factory, ViaMagic
<1>4. \A f \in {"magic", "keymap", "audio"} : f \notin Keys => Factory(b)[f] = Default
  BY FieldFacts DEF Factory, ViaMagic
<1> QED
  BY <1>1, <1>2, <1>3, <1>4, <1>5, FieldFacts

\* eeconfig_init leaves the factory settings.
LEMMA InitEnds ==
    ASSUME NEW b \in Firmware, NEW f \in Fields
    PROVE  Ends(eeconfig_init(b), f, Factory(b)[f])
<1> DEFINE p == eeconfig_init(b)
           q == eeconfig_init_via(b)
           n == Len(KeyBytes)
           v == Factory(b)[f]
<1> SUFFICES Ends(p, f, v)
  OBVIOUS
<1>1. /\ Len(p) = Len(q) + 7 /\ Len(q) = n + 8 /\ n \in Nat
      /\ p[2] = Set("magic", MagicNumber)
      /\ p[3] = Set("keymap", Default) /\ p[4] = Set("audio", Default)
      /\ p[5] = Set("via0", FF) /\ p[6] = Set("via1", FF) /\ p[7] = Set("via2", FF)
      /\ \A i \in 1..Len(q) : p[7 + i] = q[i]
  BY InitPlan, InitViaPlan, FieldFacts
<1>2. /\ q[4] = Set("layout", 0)
      /\ \A i \in 1..n : q[4 + i] = Set(KeyBytes[i], b)
      /\ q[n + 5] = Set("macro", 0)
      /\ q[n + 6] = Set("via0", MagicByte("via0", b))
      /\ q[n + 7] = Set("via1", MagicByte("via1", b))
      /\ q[n + 8] = Set("via2", MagicByte("via2", b))
  BY InitViaPlan
<1>3. \A i \in 1..Len(q) :
        /\ q[i].op = "write"
        /\ q[i].field \notin {"magic", "keymap", "audio"}
        /\ q[i].field \in Keys => q[i].value = b
        /\ q[i].field = "layout" \/ q[i].field = "macro" => q[i].value = 0
        /\ q[i].field \in ViaMagic =>
            \/ i =< 3 /\ q[i].value = FF
            \/ i >= n + 6 /\ q[i].value = MagicByte(q[i].field, b)
  BY InitViaWrites
<1> HIDE DEF p, q, n, v
<1>4. \A i \in 8..Len(p) : i - 7 \in 1..Len(q) /\ p[i] = q[i - 7]
  <2> SUFFICES ASSUME NEW i \in 8..Len(p) PROVE i - 7 \in 1..Len(q) /\ p[i] = q[i - 7]
    OBVIOUS
  <2>1. i - 7 \in 1..Len(q) /\ 7 + (i - 7) = i
    BY <1>1
  <2> QED
    BY <1>1, <2>1
<1>5. ASSUME NEW m \in 1..Len(q), q[m] = Set(f, v),
             \A i \in (m + 1)..Len(q) : Keeps(q[i], f, v)
      PROVE  Ends(p, f, v)
  <2>1. 7 + m \in 1..Len(p) /\ p[7 + m] = Set(f, v)
    BY <1>1, <1>5
  <2>2. ASSUME NEW i \in (7 + m + 1)..Len(p) PROVE Keeps(p[i], f, v)
    <3>1. i \in 8..Len(p) /\ i - 7 \in (m + 1)..Len(q)
      BY <1>1
    <3> QED
      BY <1>4, <1>5, <3>1
  <2> QED
    BY <2>1, <2>2 DEF Ends
<1>6. CASE f \in Keys
  <2>1. v = b
    BY <1>6, FactoryFacts DEF v
  <2>2. PICK j \in 1..n : KeyBytes[j] = f
    BY <1>6, FieldFacts DEF n
  <2>3. q[4 + j] = Set(f, v) /\ 4 + j \in 1..Len(q)
    <3>1. q[4 + j] = Set(KeyBytes[j], b)
      BY <1>2
    <3>2. 4 + j \in 1..Len(q)
      BY <1>1
    <3> QED
      BY <2>1, <2>2, <3>1, <3>2
  <2>4. \A i \in 1..Len(q) : Keeps(q[i], f, v)
    BY <1>3, <1>6, <2>1 DEF Keeps
  <2>5. \A i \in (4 + j + 1)..Len(q) : Keeps(q[i], f, v)
    BY <1>1, <2>3, <2>4
  <2> QED
    BY <1>5, <2>3, <2>5
<1>7. CASE f \in {"layout", "macro"}
  <2>1. v = 0
    BY <1>7, FactoryFacts DEF v
  <2>2. \A i \in 1..Len(q) : Keeps(q[i], f, v)
    BY <1>3, <1>7, <2>1 DEF Keeps
  <2>3. PICK m \in {4, n + 5} : q[m] = Set(f, v)
    BY <1>2, <1>7, <2>1
  <2>4. m \in 1..Len(q)
    BY <1>1
  <2>5. \A i \in (m + 1)..Len(q) : Keeps(q[i], f, v)
    BY <1>1, <2>2, <2>4
  <2> QED
    BY <1>5, <2>3, <2>4, <2>5
<1>8. CASE f \in ViaMagic
  <2>1. v = MagicByte(f, b)
    BY <1>8, FactoryFacts DEF v
  <2>2. PICK m \in {n + 6, n + 7, n + 8} : q[m] = Set(f, v)
    BY <1>2, <1>8, <2>1 DEF ViaMagic
  <2>3. m \in 1..Len(q) /\ m >= n + 6
    BY <1>1
  <2>4. ASSUME NEW i \in (m + 1)..Len(q) PROVE Keeps(q[i], f, v)
    <3>1. i \in 1..Len(q) /\ ~(i =< 3)
      BY <1>1, <2>3
    <3> QED
      BY <1>3, <1>8, <2>1, <3>1 DEF Keeps
  <2> QED
    BY <1>5, <2>2, <2>3, <2>4
<1>9. CASE f \in {"magic", "keymap", "audio"}
  <2>1. v = Default /\ MagicNumber = Default
    BY <1>9, FactoryFacts DEF v, MagicNumber, Default
  <2>2. PICK m \in {2, 3, 4} : p[m] = Set(f, v) /\ \A x \in {3, 4} : x > m => p[x].field # f
    <3>1. CASE f = "magic"
      BY <1>1, <2>1, <3>1 DEF Set
    <3>2. CASE f = "keymap"
      BY <1>1, <2>1, <3>2 DEF Set
    <3>3. CASE f = "audio"
      BY <1>1, <2>1, <3>3 DEF Set
    <3> QED
      BY <1>9, <3>1, <3>2, <3>3
  <2>3. \A i \in {3, 4, 5, 6, 7} : p[i].op = "write"
    BY <1>1 DEF Set
  <2>4. \A i \in {5, 6, 7} : p[i].field \in {"via0", "via1", "via2"}
    BY <1>1 DEF Set
  <2>5. \A i \in {5, 6, 7} : p[i].field # f
    BY <1>9, <2>4
  <2>6. ASSUME NEW i \in (m + 1)..Len(p) PROVE Keeps(p[i], f, v)
    <3>1. i \in 8..Len(p) \/ i \in {3, 4, 5, 6, 7}
      BY <1>1
    <3>2. CASE i \in 8..Len(p)
      BY <1>3, <1>4, <1>9, <3>2 DEF Keeps
    <3>3. CASE i \in {3, 4, 5, 6, 7}
      BY <2>2, <2>3, <2>5, <3>3 DEF Keeps
    <3> QED
      BY <3>1, <3>2, <3>3
  <2>7. m \in 1..Len(p)
    BY <1>1
  <2> QED
    BY <2>2, <2>6, <2>7 DEF Ends
<1> QED
  BY <1>6, <1>7, <1>8, <1>9 DEF Fields, Settings
-----------------------------------------------------------------------------
(***************************************************************************)
(* One EEPROM operation.                                                   *)
(***************************************************************************)
\* What an operation does to the plan and to the store.
Shift ==
    /\ Len(todo) \in Nat /\ Len(todo) >= 1 /\ todo[1] \in Ops
    /\ todo' \in Seq(Ops) /\ Len(todo') = Len(todo) - 1
    /\ \A i \in 1..Len(todo') : i + 1 \in 1..Len(todo) /\ todo'[i] = todo[i + 1]

Done(o) ==
    \/ o.op = "erase" /\ store' = EE!Erased
    \/ /\ o.op = "write" /\ o.field \in Fields /\ o.value \in Value
       /\ store' = [f \in Fields |-> IF f = o.field THEN o.value ELSE store[f]]

LEMMA OpFacts ==
    ASSUME NEW o \in Ops
    PROVE  \/ o = EraseAll /\ o.op = "erase"
           \/ o.op = "write" /\ o.field \in Fields /\ o.value \in Value
BY DEF Ops, EraseAll

LEMMA StepFacts ==
    ASSUME IInv, Step
    PROVE  /\ Shift /\ Done(todo[1]) /\ powered /\ powered' = powered /\ pending' = {}
           /\ build' = build /\ stage' = stage /\ pristine' = pristine /\ damaged' = damaged
<1>1. todo \in Seq(Ops) /\ todo # <<>> /\ pending = {}
  BY DEF IInv, Planned, Plan, Step, TypeOK
<1>2. Shift
  BY <1>1 DEF Step, Shift
<1>3. Head(todo) = todo[1] /\ todo[1] \in Ops
  BY <1>1
<1>4. CASE todo[1].op = "erase"
  BY <1>1, <1>2, <1>3, <1>4 DEF Step, EE!Erase, Done
<1>5. CASE todo[1].op = "write" /\ todo[1].field \in Fields /\ todo[1].value \in Value
  <2> DEFINE d == [f \in {todo[1].field} |-> todo[1].value]
  <2>1. EE!Write(d)
    BY <1>3, <1>5 DEF Step
  <2>2. store' = EE!Overwrite(d, store) /\ powered /\ powered' = powered /\ pending' = {}
    BY <2>1 DEF EE!Write
  <2>3. EE!Overwrite(d, store) =
          [f \in Fields |-> IF f \in DOMAIN d THEN d[f] ELSE store[f]]
    BY DEF EE!Overwrite
  <2>4. EE!Overwrite(d, store) =
          [f \in Fields |-> IF f = todo[1].field THEN todo[1].value ELSE store[f]]
    BY <2>3
  <2> QED
    BY <1>2, <1>5, <2>2, <2>4 DEF Step, Done
<1> QED
  BY <1>3, <1>4, <1>5, OpFacts

LEMMA ErasedFacts == \A f \in Fields : EE!Erased[f] = 0
BY DEF EE!Erased

LEMMA DoneFacts ==
    ASSUME NEW o \in Ops, Done(o), store \in [Fields -> Value]
    PROVE  /\ store' \in [Fields -> Value]
           /\ o.op = "erase" => \A f \in Fields : store'[f] = 0
           /\ o.op = "write" => \A f \in Fields :
                  store'[f] = IF f = o.field THEN o.value ELSE store[f]
<1>1. CASE o.op = "erase" /\ store' = EE!Erased
  <2>1. store' \in [Fields -> Value]
    BY <1>1 DEF EE!Erased, Value, FF
  <2> QED
    BY <1>1, <2>1, ErasedFacts
<1>2. CASE /\ o.op = "write" /\ o.field \in Fields /\ o.value \in Value
           /\ store' = [f \in Fields |-> IF f = o.field THEN o.value ELSE store[f]]
  BY <1>2
<1> QED
  BY <1>1, <1>2 DEF Done

LEMMA SettledStep ==
    ASSUME Shift, Done(todo[1]), store \in [Fields -> Value], NEW f \in Fields, NEW v,
           Settled(store, todo, f, v)
    PROVE  Settled(store', todo', f, v)
<1> DEFINE h == todo[1]
<1>1. /\ h \in Ops
      /\ h.op = "write" => store'[f] = IF f = h.field THEN h.value ELSE store[f]
  BY DoneFacts DEF Shift
<1>2. CASE store[f] = v /\ \A i \in 1..Len(todo) : Keeps(todo[i], f, v)
  <2>1. store'[f] = v
    <3>1. Keeps(h, f, v)
      BY <1>2 DEF Shift
    <3> QED
      BY <1>1, <1>2, <3>1 DEF Keeps
  <2>2. \A i \in 1..Len(todo') : Keeps(todo'[i], f, v)
    BY <1>2 DEF Shift
  <2> QED
    BY <2>1, <2>2 DEF Settled
<1>3. CASE Ends(todo, f, v)
  <2>1. PICK j \in 1..Len(todo) :
          todo[j] = Set(f, v) /\ \A i \in (j + 1)..Len(todo) : Keeps(todo[i], f, v)
    BY <1>3 DEF Ends
  <2>2. CASE j = 1
    <3>1. store'[f] = v
      BY <1>1, <2>1, <2>2 DEF Set
    <3>2. \A i \in 1..Len(todo') : i + 1 \in (j + 1)..Len(todo)
      BY <2>2 DEF Shift
    <3>3. \A i \in 1..Len(todo') : Keeps(todo'[i], f, v)
      BY <2>1, <3>2 DEF Shift
    <3> QED
      BY <3>1, <3>3 DEF Settled
  <2>3. CASE j # 1
    <3>1. j - 1 \in 1..Len(todo') /\ todo'[j - 1] = todo[j]
      <4>1. j - 1 \in 1..Len(todo') /\ j - 1 + 1 = j
        BY <2>3 DEF Shift
      <4> QED
        BY <4>1 DEF Shift
    <3>2. \A i \in (j - 1 + 1)..Len(todo') : i \in 1..Len(todo') /\ i + 1 \in (j + 1)..Len(todo)
      BY <2>3 DEF Shift
    <3>3. \A i \in (j - 1 + 1)..Len(todo') : Keeps(todo'[i], f, v)
      BY <2>1, <3>2 DEF Shift
    <3>4. Ends(todo', f, v)
      BY <2>1, <3>1, <3>3 DEF Ends
    <3> QED
      BY <3>4 DEF Settled
  <2> QED
    BY <2>2, <2>3
<1> QED
  BY <1>2, <1>3 DEF Settled

LEMMA BuildFacts ==
    ASSUME TypeOK
    PROVE  /\ build \in Firmware /\ build \in SameDate(build)
           /\ FF = 9 /\ \A b \in Firmware, f \in ViaMagic : MagicByte(f, b) \in 1..8
           /\ ViaMagic \subseteq Fields
BY DateAssumption, FieldFacts DEF TypeOK, MagicByte, FF, SameDate

\* Firmware with the same magic shares what may be under it.
LEMMA SharedFacts ==
    ASSUME NEW b \in Firmware, NEW c \in Firmware,
           \A f \in ViaMagic : MagicByte(f, b) = MagicByte(f, c)
    PROVE  Good(c) \subseteq Shared(b)
<1>1. Date[b] \in [ViaMagic -> 1..8] /\ Date[c] \in [ViaMagic -> 1..8]
  BY DateAssumption
<1>2. Date[c] = Date[b]
  BY <1>1 DEF MagicByte
<1> QED
  BY <1>2 DEF Shared, SameDate

LEMMA TodoTypes ==
    ASSUME NEW p \in Seq(Ops)
    PROVE  \A i \in DOMAIN p :
             p[i] = EraseAll \/ p[i] \in [op : {"write"}, field : Fields, value : Value]
<1>1. \A i \in DOMAIN p : p[i] \in Ops
  OBVIOUS
<1> QED
  BY <1>1 DEF Ops

LEMMA StepFilled ==
    ASSUME IInv, Shift, Done(todo[1]), build' = build
    PROVE  Planned' /\ Filled'
<1>1. Plan(todo, build) /\ store \in [Fields -> Value] /\ Filled
  BY DEF IInv, Planned, TypeOK
<1>2. \A i \in 1..Len(todo') : todo'[i].op # "erase"
  BY <1>1 DEF Shift, Plan
<1>3. Plan(todo', build)
  BY <1>1, <1>2 DEF Shift, Plan
<1>4. Planned'
  BY <1>3 DEF Planned, Plan, WritesTo, Good, UserKey, MagicByte, FF
<1>5. ASSUME NEW i \in 1..Len(todo'), MakesValid(todo'[i]), NEW k \in Keys
      PROVE  store'[k] \in Good(build) \/ WrittenBefore(todo', k, i)
  <2>1. i + 1 \in 1..Len(todo) /\ MakesValid(todo[i + 1]) /\ k \in Fields
    BY <1>5, FieldFacts DEF Shift
  <2>2. \/ store[k] \in Good(build) /\ todo[1].op # "erase"
        \/ WrittenBefore(todo, k, i + 1)
    BY <1>1, <2>1 DEF Filled
  <2>3. /\ todo[1] \in Ops
        /\ todo[1].op = "write" => store'[k] = IF k = todo[1].field THEN todo[1].value ELSE store[k]
    BY <1>1, <2>1, DoneFacts DEF Shift
  <2>4. WritesTo(todo[1], Keys) => todo[1].value \in Good(build)
    BY <1>1 DEF Plan, Shift
  <2>5. CASE store[k] \in Good(build) /\ todo[1].op # "erase"
    <3>1. todo[1].op = "write"
      BY <2>3, <2>5, OpFacts
    <3> QED
      BY <2>3, <2>4, <2>5, <3>1 DEF WritesTo
  <2>6. CASE WrittenBefore(todo, k, i + 1)
    <3>1. PICK j \in 1..(i + 1 - 1) : WritesTo(todo[j], {k})
      BY <2>6 DEF WrittenBefore
    <3>2. CASE j = 1
      BY <2>3, <2>4, <3>1, <3>2 DEF WritesTo
    <3>3. CASE j # 1
      <4>1. j - 1 \in 1..(i - 1) /\ j - 1 \in 1..Len(todo') /\ j - 1 + 1 = j
        BY <3>3 DEF Shift
      <4>2. todo'[j - 1] = todo[j]
        BY <4>1 DEF Shift
      <4> QED
        BY <3>1, <4>1, <4>2 DEF WrittenBefore
    <3> QED
      BY <3>2, <3>3
  <2> QED
    BY <2>2, <2>5, <2>6
<1>6. Filled'
  <2>1. \A i \in 1..Len(todo') : MakesValid(todo'[i]) => todo'[1].op # "erase"
    BY <1>2 DEF Shift
  <2>2. \A i \in 1..Len(todo') : MakesValid(todo'[i]) =>
          \A k \in Keys : \/ store'[k] \in Good(build') /\ todo'[1].op # "erase"
                          \/ WrittenBefore(todo', k, i)
    BY <1>5, <2>1
  <2> QED
    BY <2>2 DEF Filled, MakesValid, WritesTo, Good, UserKey, WrittenBefore, FF, ViaMagic
<1> QED
  BY <1>4, <1>6

LEMMA StepOwned ==
    ASSUME IInv, Shift, Done(todo[1]), build' = build
    PROVE  Owned' /\ GoodData'
<1>1. /\ Plan(todo, build) /\ store \in [Fields -> Value] /\ Filled /\ GoodData
      /\ TypeOK
  BY DEF IInv, Planned, TypeOK
<1>2. \A f \in ViaMagic : MineAt(f) \/ Removed(todo, f)
  <2>1. todo # <<>>
    BY <1>1 DEF Shift
  <2> QED
    BY <2>1 DEF IInv, Owned
<1> DEFINE h == todo[1]
<1>3. /\ h \in Ops
      /\ h.op = "erase" => \A f \in Fields : store'[f] = 0
      /\ h.op = "write" => \A f \in Fields :
            store'[f] = IF f = h.field THEN h.value ELSE store[f]
  BY <1>1, DoneFacts DEF Shift
<1>4. /\ WritesTo(h, Keys) => h.value \in Good(build)
      /\ WritesTo(h, ViaMagic) => h.value \in {FF, MagicByte(h.field, build)}
  BY <1>1 DEF Plan, Shift
<1>5. h.op = "erase" \/ h.op = "write"
  BY <1>3, OpFacts
<1>b. /\ build \in Firmware /\ build \in SameDate(build)
      /\ FF = 9 /\ \A b \in Firmware, f \in ViaMagic : MagicByte(f, b) \in 1..8
      /\ ViaMagic \subseteq Fields
  BY <1>1, BuildFacts
<1> HIDE DEF h
<1>6. ASSUME NEW f \in ViaMagic, MineAt(f)
      PROVE  store'[f] \in {0, FF, MagicByte(f, build)}
  BY <1>3, <1>4, <1>5, <1>6, <1>b DEF MineAt, WritesTo
<1>7. ASSUME NEW f \in ViaMagic, Removed(todo, f)
      PROVE  store'[f] \in {0, FF, MagicByte(f, build)} \/ Removed(todo', f)
  <2>1. PICK j \in 1..Len(todo) :
          /\ todo[j] = Set(f, FF)
          /\ \A i \in 1..(j - 1) : ~MakesValid(todo[i]) /\ ~WritesTo(todo[i], Keys)
    BY <1>7 DEF Removed
  <2>2. CASE j = 1
    <3>1. h.op = "write" /\ h.field = f /\ h.value = FF
      BY <2>1, <2>2 DEF Set, h
    <3> QED
      BY <1>3, <1>b, <3>1
  <2>3. CASE j # 1
    <3>1. j - 1 \in 1..Len(todo') /\ j - 1 + 1 = j
      BY <2>3 DEF Shift
    <3>2. todo'[j - 1] = todo[j]
      BY <3>1 DEF Shift
    <3>3. \A i \in 1..(j - 1 - 1) : i \in 1..Len(todo') /\ i + 1 \in 1..(j - 1)
      BY <3>1 DEF Shift
    <3>4. \A i \in 1..(j - 1 - 1) : ~MakesValid(todo'[i]) /\ ~WritesTo(todo'[i], Keys)
      BY <2>1, <3>3 DEF Shift
    <3> QED
      BY <2>1, <3>1, <3>2, <3>4 DEF Removed
  <2> QED
    BY <2>2, <2>3
<1>8. Owned'
  <2>1. \A f \in ViaMagic : store'[f] \in {0, FF, MagicByte(f, build')} \/ Removed(todo', f)
    BY <1>2, <1>6, <1>7
  <2> QED
    BY <2>1 DEF Owned, MineAt, Removed, MakesValid, WritesTo, Set, FF, ViaMagic, MagicByte
<1>9. MakesValid(h) \/ WritesTo(h, Keys) => Mine
  <2>1. ASSUME NEW f \in ViaMagic, Removed(todo, f), MakesValid(h) \/ WritesTo(h, Keys)
        PROVE  MineAt(f)
    <3>1. PICK j \in 1..Len(todo) :
            /\ todo[j] = Set(f, FF)
            /\ \A i \in 1..(j - 1) : ~MakesValid(todo[i]) /\ ~WritesTo(todo[i], Keys)
      BY <2>1 DEF Removed
    <3>2. j = 1
      BY <2>1, <3>1 DEF h
    <3>3. ~MakesValid(h) /\ ~WritesTo(h, Keys)
      BY <3>1, <3>2, <1>b, FieldFacts DEF h, MakesValid, WritesTo, Set
    <3> QED
      BY <2>1, <3>3
  <2> QED
    BY <1>2, <2>1 DEF Mine
<1>10. ASSUME NEW b \in Firmware, \A f \in ViaMagic : store'[f] = MagicByte(f, b), NEW k \in Keys
       PROVE  store'[k] \in Shared(b)
  <2>0. k \in Fields /\ Keys \cap ViaMagic = {} /\ "via2" \in ViaMagic
    BY FieldFacts DEF ViaMagic
  <2>1. \A f \in ViaMagic : store'[f] \in 1..8
    BY <1>10, <1>b
  <2>2. h.op = "write"
    BY <1>3, <1>5, <1>b, <2>0, <2>1
  <2>m. MakesValid(h) \/ WritesTo(h, Keys) => Good(build) \subseteq Shared(b)
    <3> SUFFICES ASSUME MakesValid(h) \/ WritesTo(h, Keys) PROVE Good(build) \subseteq Shared(b)
      OBVIOUS
    <3>1. \A f \in ViaMagic : store'[f] \in {0, FF, MagicByte(f, build)}
      BY <1>6, <1>9 DEF Mine
    <3>2. \A f \in ViaMagic : MagicByte(f, b) = MagicByte(f, build)
      BY <1>10, <1>b, <2>1, <3>1
    <3> QED
      BY <1>b, <3>2, SharedFacts
  <2>3. CASE h.field \in ViaMagic
    <3>1. h.value # FF
      <4>1. h.value = MagicByte(h.field, b)
        BY <1>3, <1>10, <1>b, <2>2, <2>3
      <4> QED
        BY <1>b, <2>3, <4>1
    <3>2. MakesValid(h)
      BY <2>2, <2>3, <3>1 DEF MakesValid, WritesTo
    <3>3. store[k] \in Good(build)
      <4>1. ~WrittenBefore(todo, k, 1)
        BY DEF WrittenBefore
      <4>2. 1 \in 1..Len(todo) /\ MakesValid(todo[1])
        BY <3>2 DEF Shift, h
      <4> QED
        BY <1>1, <4>1, <4>2 DEF Filled
    <3>4. store'[k] = store[k]
      BY <1>3, <2>0, <2>2, <2>3
    <3> QED
      BY <2>m, <3>2, <3>3, <3>4
  <2>4. CASE h.field \in Keys
    <3>1. WritesTo(h, Keys)
      BY <2>2, <2>4 DEF WritesTo
    <3>2. \A f \in ViaMagic : store[f] = MagicByte(f, b)
      BY <1>3, <1>10, <1>b, <2>0, <2>2, <2>4
    <3>3. store[k] \in Shared(b)
      BY <1>1, <3>2 DEF GoodData
    <3> QED
      BY <1>3, <1>4, <2>0, <2>2, <2>m, <3>1, <3>3
  <2>5. CASE h.field \notin ViaMagic /\ h.field \notin Keys
    <3>1. \A f \in ViaMagic : store[f] = MagicByte(f, b)
      BY <1>3, <1>10, <1>b, <2>0, <2>2, <2>5
    <3>2. store[k] \in Shared(b)
      BY <1>1, <3>1 DEF GoodData
    <3> QED
      BY <1>3, <2>0, <2>2, <2>5, <3>2
  <2> QED
    BY <2>3, <2>4, <2>5
<1>11. GoodData'
  BY <1>10 DEF GoodData
<1> QED
  BY <1>8, <1>11

LEMMA StepLemma ==
    ASSUME IInv, Step
    PROVE  IInv'
<1>1. /\ Shift /\ Done(todo[1]) /\ powered /\ powered' = powered /\ pending' = {}
      /\ build' = build /\ stage' = stage /\ pristine' = pristine /\ damaged' = damaged
  BY StepFacts
<1>2. Planned' /\ Filled' /\ Owned' /\ GoodData'
  BY <1>1, StepFilled, StepOwned
<1>3. store \in [Fields -> Value] /\ TypeOK /\ Power /\ Fresh
  BY DEF IInv, TypeOK
<1>4. store' \in [Fields -> Value]
  BY <1>1, <1>3, DoneFacts DEF Shift
<1>5. TypeOK'
  <2>1. todo' \in Seq(Ops)
    BY <1>1 DEF Shift
  <2>2. \A i \in DOMAIN todo' :
          todo'[i] = EraseAll \/ todo'[i] \in [op : {"write"}, field : Fields, value : Value]
    BY <2>1, TodoTypes
  <2> QED
    BY <1>1, <1>3, <1>4, <2>2 DEF TypeOK, EraseAll
<1>6. Power'
  <2>1. stage # "off" /\ ~damaged
    BY <1>1, <1>3 DEF Power
  <2> QED
    BY <1>1, <1>3, <2>1 DEF Power
<1>7. Fresh'
  <2> SUFFICES ASSUME pristine PROVE Fresh'
    BY <1>1 DEF Fresh
  <2>1. ~damaged /\ stage \notin {"off", "setup"}
    <3>1. todo # <<>>
      BY DEF Step
    <3> QED
      BY <1>3, <3>1 DEF Fresh
  <2>2. stage = "via" => /\ store'["magic"] # MagicNumber
                         /\ \A i \in 1..Len(todo') :
                              todo'[i].op = "write" /\ todo'[i].field # "magic"
    <3> SUFFICES ASSUME stage = "via"
                 PROVE  /\ store'["magic"] # MagicNumber
                        /\ \A i \in 1..Len(todo') :
                              todo'[i].op = "write" /\ todo'[i].field # "magic"
      OBVIOUS
    <3>1. /\ store["magic"] # MagicNumber
          /\ \A i \in 1..Len(todo) : todo[i].op = "write" /\ todo[i].field # "magic"
      BY <1>3 DEF Fresh
    <3>2. todo[1].op = "write" /\ todo[1].field # "magic" /\ "magic" \in Fields
      BY <1>1, <3>1, FieldFacts DEF Shift
    <3>3. store'["magic"] = store["magic"]
      BY <1>1, <1>3, <3>2, DoneFacts DEF Shift
    <3> QED
      BY <1>1, <3>1, <3>3 DEF Shift
  <2>3. stage = "reset" => Settled(store', todo', "magic", FF)
    <3>1. "magic" \in Fields
      BY FieldFacts
    <3>2. stage = "reset" => Settled(store, todo, "magic", FF)
      BY <1>3 DEF Fresh
    <3> QED
      BY <1>1, <1>3, <3>1, <3>2, SettledStep
  <2>4. stage \in {"magic", "run"} =>
          \A f \in Fields : Settled(store', todo', f, Factory(build)[f])
    BY <1>1, <1>3, SettledStep DEF Fresh
  <2> QED
    BY <1>1, <2>1, <2>2, <2>3, <2>4 DEF Fresh
<1> QED
  BY <1>2, <1>5, <1>6, <1>7 DEF IInv
-----------------------------------------------------------------------------
(***************************************************************************)
(* The other actions: they leave the store alone and start a plan, or take *)
(* the power away.                                                         *)
(***************************************************************************)
LEMMA EmptyPlan ==
    ASSUME NEW b
    PROVE  /\ Plan(<<>>, b) /\ Fills(<<>>) /\ <<>> \in Seq(Ops)
           /\ \A f \in ViaMagic : ~Removed(<<>>, f)
<1>1. <<>> \in Seq(Ops) /\ Len(<<>>) = 0
  OBVIOUS
<1> QED
  BY <1>1 DEF Plan, Fills, Removed

\* A function that writes no magic and no bad keymap byte.
LEMMA UserPlan ==
    ASSUME NEW b \in Firmware, NEW p \in Seq(Ops),
           \A i \in 1..Len(p) : /\ p[i].op = "write" /\ p[i].field \notin ViaMagic
                                /\ p[i].field \in Keys => p[i].value \in Good(b)
    PROVE  Plan(p, b) /\ Fills(p)
BY DEF Plan, Fills, MakesValid, WritesTo

\* A new plan on an unchanged store keeps the part of the invariant that the
\* firmware does not start anew at every stage.
LEMMA NewPlan ==
    ASSUME IInv, NEW p, todo' = p, Plan(p, build), Fills(p), store' = store, build' = build,
           p # <<>> \/ stage' \in {"via", "magic", "run", "reset"} => Mine \/ Claims(p)
    PROVE  /\ Planned' /\ Filled' /\ Owned' /\ GoodData'
           /\ \A i \in DOMAIN todo' :
                 todo'[i] = EraseAll \/ todo'[i] \in [op : {"write"}, field : Fields, value : Value]
<1>1. Planned'
  BY DEF Planned
<1>2. Filled'
  BY DEF Fills, Filled
<1>3. Owned'
  BY DEF Owned, Mine, MineAt, Claims
<1>4. GoodData'
  BY DEF IInv, GoodData
<1>5. p \in Seq(Ops)
  BY DEF Plan
<1> QED
  BY <1>1, <1>2, <1>3, <1>4, <1>5, TodoTypes

\* The rest of the invariant, where only the plan and the stage change.
LEMMA RestOfTypes ==
    ASSUME TypeOK, Power, stage # "off", stage' \in {"setup", "via", "magic", "run", "reset"},
           store' = store, pending' = pending, powered' = powered, build' = build,
           damaged' = damaged, pristine' \in BOOLEAN,
           \A i \in DOMAIN todo' :
              todo'[i] = EraseAll \/ todo'[i] \in [op : {"write"}, field : Fields, value : Value]
    PROVE  TypeOK' /\ Power' /\ ~damaged
<1>1. ~damaged /\ powered
  BY DEF Power
<1> QED
  BY <1>1 DEF TypeOK, Power, EraseAll

LEMMA StartLemma ==
    ASSUME IInv, keyboard_setup \/ via_init \/ magic \/ Started \/ soft_reset_keyboard
    PROVE  IInv'
<1>0. /\ TypeOK /\ Planned /\ Power /\ Fresh /\ Owned /\ build \in Firmware
      /\ ViaMagic \subseteq Fields
      /\ pristine \in BOOLEAN
  BY BuildFacts DEF IInv, TypeOK
<1>e. /\ Plan(<<>>, build) /\ Fills(<<>>) /\ Len(<<>>) = 0
      /\ \A f \in ViaMagic : ~Removed(<<>>, f)
  BY EmptyPlan
<1>1. CASE keyboard_setup
  <2>1. /\ ~powered /\ powered' = TRUE /\ store' = store /\ pending' = pending
        /\ stage' = "setup" /\ todo' = (IF damaged THEN eeconfig_init(build) ELSE <<>>)
        /\ damaged' = FALSE /\ build' = build /\ pristine' = pristine
    BY <1>1 DEF keyboard_setup, EE!PowerOn
  <2>2. stage = "off"
    BY <1>0, <2>1 DEF Power
  <2>3. damaged => Mine
    BY <1>0, ErasedFacts DEF Power, Mine, MineAt
  <2>4. /\ Planned' /\ Filled' /\ Owned' /\ GoodData'
        /\ \A i \in DOMAIN todo' :
             todo'[i] = EraseAll \/ todo'[i] \in [op : {"write"}, field : Fields, value : Value]
    <3>1. CASE damaged
      BY <1>0, <2>1, <2>3, <3>1, InitSafe, NewPlan
    <3>2. CASE ~damaged
      BY <1>0, <1>e, <2>1, <3>2, NewPlan
    <3> QED
      BY <3>1, <3>2
  <2>5. TypeOK'
    BY <1>0, <2>1, <2>4 DEF TypeOK, EraseAll
  <2>6. Power'
    BY <2>1 DEF Power
  <2>7. Fresh'
    BY <1>0, <2>1, <2>2 DEF Fresh
  <2> QED
    BY <2>4, <2>5, <2>6, <2>7 DEF IInv
<1>2. CASE via_init
  <2> DEFINE p == IF via_eeprom_is_valid THEN <<>> ELSE eeconfig_init_via(build)
  <2>1. /\ stage = "setup" /\ todo = <<>> /\ stage' = "via" /\ todo' = p
        /\ store' = store /\ pending' = pending /\ powered' = powered /\ build' = build
        /\ pristine' = pristine /\ damaged' = damaged
    BY <1>2 DEF via_init, Enter
  <2>2. Plan(p, build) /\ Fills(p) /\ (Mine \/ Claims(p))
    <3>1. CASE via_eeprom_is_valid
      <4>1. Mine
        BY <3>1 DEF via_eeprom_is_valid, Mine, MineAt
      <4> QED
        BY <1>e, <3>1, <4>1
    <3>2. CASE ~via_eeprom_is_valid
      BY <1>0, <3>2, InitViaSafe
    <3> QED
      BY <3>1, <3>2
  <2>p. \A i \in 1..Len(p) : p[i].op = "write" /\ p[i].field # "magic"
    <3>1. CASE via_eeprom_is_valid
      BY <1>e, <3>1
    <3>2. CASE ~via_eeprom_is_valid
      BY <1>0, <3>2, InitViaWrites
    <3> QED
      BY <3>1, <3>2
  <2> HIDE DEF p
  <2>4. /\ Planned' /\ Filled' /\ Owned' /\ GoodData'
        /\ \A i \in DOMAIN todo' :
             todo'[i] = EraseAll \/ todo'[i] \in [op : {"write"}, field : Fields, value : Value]
    BY <2>1, <2>2, NewPlan
  <2>5. TypeOK' /\ Power'
    BY <1>0, <2>1, <2>4, RestOfTypes
  <2>6. Fresh'
    BY <1>0, <2>1, <2>p DEF Fresh
  <2> QED
    BY <2>4, <2>5, <2>6 DEF IInv
<1>3. CASE magic
  <2> DEFINE p == IF eeconfig_is_enabled THEN <<>> ELSE eeconfig_init(build)
  <2>1. /\ stage = "via" /\ todo = <<>> /\ stage' = "magic" /\ todo' = p
        /\ store' = store /\ pending' = pending /\ powered' = powered /\ build' = build
        /\ pristine' = pristine /\ damaged' = damaged
    BY <1>3 DEF magic, Enter
  <2>2. Mine
    BY <1>0, <1>e, <2>1 DEF Owned, Mine
  <2>3. Plan(p, build) /\ Fills(p)
    BY <1>0, <1>e, InitSafe
  <2>p. pristine => \A f \in Fields : Ends(p, f, Factory(build)[f])
    <3> SUFFICES ASSUME pristine, NEW f \in Fields PROVE Ends(p, f, Factory(build)[f])
      OBVIOUS
    <3>1. ~eeconfig_is_enabled
      BY <1>0, <2>1 DEF Fresh, eeconfig_is_enabled
    <3>2. Ends(eeconfig_init(build), f, Factory(build)[f])
      BY <1>0, InitEnds
    <3> QED
      BY <3>1, <3>2
  <2> HIDE DEF p
  <2>4. /\ Planned' /\ Filled' /\ Owned' /\ GoodData'
        /\ \A i \in DOMAIN todo' :
             todo'[i] = EraseAll \/ todo'[i] \in [op : {"write"}, field : Fields, value : Value]
    BY <2>1, <2>2, <2>3, NewPlan
  <2>5. TypeOK' /\ Power' /\ ~damaged
    BY <1>0, <2>1, <2>4, RestOfTypes
  <2>6. Fresh'
    BY <2>1, <2>5, <2>p DEF Fresh, Settled
  <2> QED
    BY <2>4, <2>5, <2>6 DEF IInv
<1>4. CASE Started \/ soft_reset_keyboard
  <2>1. /\ todo = <<>> /\ todo' = <<>> /\ store' = store /\ pending' = pending
        /\ powered' = powered /\ build' = build /\ pristine' = pristine /\ damaged' = damaged
        /\ \/ stage = "magic" /\ stage' = "run"
           \/ stage = "reset" /\ stage' = "setup"
    BY <1>4 DEF Started, soft_reset_keyboard, Enter
  <2>2. Mine
    BY <1>0, <1>e, <2>1 DEF Owned, Mine
  <2>4. /\ Planned' /\ Filled' /\ Owned' /\ GoodData'
        /\ \A i \in DOMAIN todo' :
             todo'[i] = EraseAll \/ todo'[i] \in [op : {"write"}, field : Fields, value : Value]
    BY <1>e, <2>1, <2>2, NewPlan
  <2>5. TypeOK' /\ Power' /\ ~damaged
    BY <1>0, <2>1, <2>4, RestOfTypes
  <2>6. Fresh'
    <3>1. CASE stage = "magic" /\ stage' = "run"
      BY <1>0, <2>1, <2>5, <3>1 DEF Fresh
    <3>2. CASE stage = "reset" /\ stage' = "setup"
      <4>1. pristine => Settled(store, <<>>, "magic", FF)
        BY <1>0, <2>1, <3>2 DEF Fresh
      <4>2. ~Ends(<<>>, "magic", FF)
        BY <1>e DEF Ends
      <4>3. pristine => store["magic"] # MagicNumber
        BY <4>1, <4>2 DEF Settled, MagicNumber, FF
      <4> QED
        BY <2>1, <2>5, <3>2, <4>3 DEF Fresh
    <3> QED
      BY <2>1, <3>1, <3>2
  <2> QED
    BY <2>4, <2>5, <2>6 DEF IInv
<1> QED
  BY <1>1, <1>2, <1>3, <1>4

\* A command writes settings of the user, or resets all of them.
LEMMA CommandLemma ==
    ASSUME IInv, NEW p, NEW fresh \in BOOLEAN, NEW s \in {"run", "reset"},
           Command(p, fresh, s), Plan(p, build), Fills(p),
           fresh /\ s = "reset" => Ends(p, "magic", FF),
           fresh /\ s = "run" => \A f \in Fields : Ends(p, f, Factory(build)[f])
    PROVE  IInv'
<1>1. /\ stage = "run" /\ todo = <<>> /\ todo' = p /\ pristine' = fresh /\ stage' = s
      /\ store' = store /\ pending' = pending /\ powered' = powered /\ build' = build
      /\ damaged' = damaged
  BY DEF Command
<1>2. TypeOK /\ Power /\ Owned /\ \A f \in ViaMagic : ~Removed(<<>>, f)
  BY EmptyPlan DEF IInv
<1>3. Mine
  BY <1>1, <1>2 DEF Owned, Mine
<1>4. /\ Planned' /\ Filled' /\ Owned' /\ GoodData'
      /\ \A i \in DOMAIN todo' :
           todo'[i] = EraseAll \/ todo'[i] \in [op : {"write"}, field : Fields, value : Value]
  BY <1>1, <1>3, NewPlan
<1>5. TypeOK' /\ Power' /\ ~damaged
  BY <1>1, <1>2, <1>4, RestOfTypes
<1>6. Fresh'
  BY <1>1, <1>5 DEF Fresh, Settled
<1> QED
  BY <1>4, <1>5, <1>6 DEF IInv

\* The commands that change some settings.
LEMMA UserLemma ==
    ASSUME IInv, NEW p \in Seq(Ops), Command(p, FALSE, "run"),
           \A i \in 1..Len(p) : /\ p[i].op = "write" /\ p[i].field \notin ViaMagic
                                /\ p[i].field \in Keys => p[i].value \in Good(build)
    PROVE  IInv'
<1>1. build \in Firmware
  BY DEF IInv, TypeOK
<1>2. Plan(p, build) /\ Fills(p)
  BY <1>1, UserPlan
<1> DEFINE fresh == FALSE
<1>3. fresh \in BOOLEAN /\ ~fresh /\ Command(p, fresh, "run")
  OBVIOUS
<1> HIDE DEF fresh
<1> QED
  BY <1>2, <1>3, CommandLemma

\* One setting is written.
LEMMA OneSetting ==
    ASSUME IInv, NEW f \in Fields, NEW v \in Value, Command(<<Set(f, v)>>, FALSE, "run"),
           f \notin ViaMagic, f \in Keys => v \in Good(build)
    PROVE  IInv'
<1> DEFINE p == <<Set(f, v)>>
<1>1. /\ Set(f, v) \in Ops /\ Set(f, v).op = "write"
      /\ Set(f, v).field = f /\ Set(f, v).value = v
  BY SetOps
<1>2. p \in Seq(Ops) /\ Len(p) = 1 /\ p[1] = Set(f, v)
  BY <1>1
<1>3. Command(p, FALSE, "run")
  OBVIOUS
<1> HIDE DEF p
<1>4. \A i \in 1..Len(p) : /\ p[i].op = "write" /\ p[i].field \notin ViaMagic
                           /\ p[i].field \in Keys => p[i].value \in Good(build)
  <2>1. \A i \in 1..Len(p) : p[i] = Set(f, v)
    BY <1>2
  <2> QED
    BY <1>1, <2>1
<1> QED
  BY <1>2, <1>3, <1>4, UserLemma

LEMMA CommandsLemma ==
    ASSUME IInv,
           \/ eeconfig_update_keymap \/ dynamic_keymap_set_keycode
           \/ dynamic_keymap_set_buffer \/ via_set_layout_options
           \/ dynamic_keymap_macro_set_buffer \/ KeymapReset \/ MacroReset
           \/ FactoryReset \/ ClearEeprom
    PROVE  IInv'
<1>0. /\ build \in Firmware /\ build \in 1..4 /\ User \in Value /\ 0 \in Value /\ FF \in Value
      /\ build \in Value /\ UserKey(build) \in Value
      /\ UserKey(build) \in Good(build) /\ build \in Good(build)
  BY FirmwareAssumption DEF IInv, TypeOK, User, Value, FF, UserKey, Good
<1>f. /\ {"magic", "keymap", "layout", "macro"} \subseteq Fields
      /\ {"magic", "keymap", "layout", "macro"} \cap Keys = {}
      /\ {"magic", "keymap", "layout", "macro"} \cap ViaMagic = {}
      /\ Keys \subseteq Fields /\ Keys \cap ViaMagic = {}
      /\ Len(KeyBytes) \in Nat /\ \A i \in 1..Len(KeyBytes) : KeyBytes[i] \in Keys
  BY FieldFacts DEF ViaMagic
<1>1. CASE eeconfig_update_keymap
  BY <1>0, <1>1, <1>f, OneSetting DEF eeconfig_update_keymap
<1>2. CASE via_set_layout_options
  BY <1>0, <1>2, <1>f, OneSetting DEF via_set_layout_options
<1>3. CASE dynamic_keymap_macro_set_buffer
  BY <1>0, <1>3, <1>f, OneSetting DEF dynamic_keymap_macro_set_buffer
<1>4. CASE MacroReset
  BY <1>0, <1>4, <1>f, OneSetting DEF MacroReset, dynamic_keymap_macro_reset
<1>5. CASE dynamic_keymap_set_buffer
  <2>1. PICK k \in Keys : Command(<<Set(k, UserKey(build))>>, FALSE, "run")
    BY <1>5 DEF dynamic_keymap_set_buffer
  <2> QED
    BY <1>0, <1>f, <2>1, OneSetting
<1>6. CASE dynamic_keymap_set_keycode
  <2>1. PICK i \in {n \in 1..(Len(KeyBytes) - 1) : n % 2 = 1} :
          Command(<<Set(KeyBytes[i], UserKey(build)), Set(KeyBytes[i + 1], UserKey(build))>>,
                  FALSE, "run")
    BY <1>6 DEF dynamic_keymap_set_keycode
  <2>2. KeyBytes[i] \in Keys /\ KeyBytes[i + 1] \in Keys
    <3>1. i \in 1..Len(KeyBytes) /\ i + 1 \in 1..Len(KeyBytes)
      BY <1>f
    <3> QED
      BY <1>f, <3>1
  <2> DEFINE a == Set(KeyBytes[i], UserKey(build))
             c == Set(KeyBytes[i + 1], UserKey(build))
             p == <<a, c>>
  <2>3. /\ a \in Ops /\ a.op = "write" /\ a.field \in Keys /\ a.value = UserKey(build)
        /\ c \in Ops /\ c.op = "write" /\ c.field \in Keys /\ c.value = UserKey(build)
    BY <1>0, <1>f, <2>2 DEF Set, Ops
  <2>4. Command(p, FALSE, "run")
    BY <2>1
  <2> HIDE DEF a, c
  <2>5. p \in Seq(Ops) /\ Len(p) = 2 /\ p[1] = a /\ p[2] = c
    BY <2>3
  <2> HIDE DEF p
  <2>6. \A n \in 1..Len(p) : p[n] \in {a, c}
    BY <2>5
  <2>7. \A n \in 1..Len(p) : /\ p[n].op = "write" /\ p[n].field \notin ViaMagic
                             /\ p[n].field \in Keys => p[n].value \in Good(build)
    BY <1>0, <1>f, <2>3, <2>6
  <2> QED
    BY <2>4, <2>5, <2>7, UserLemma
<1>7. CASE KeymapReset
  <2> DEFINE p == dynamic_keymap_reset(build)
  <2>1. p \in Seq(Ops) /\ Len(p) = Len(KeyBytes) /\ \A i \in 1..Len(KeyBytes) : p[i] = Set(KeyBytes[i], build)
    BY <1>0, ResetPlan
  <2>2. Command(p, FALSE, "run")
    BY <1>7 DEF KeymapReset
  <2> HIDE DEF p
  <2>3. \A i \in 1..Len(p) : /\ p[i].op = "write" /\ p[i].field \in Keys /\ p[i].value = build
    <3> SUFFICES ASSUME NEW i \in 1..Len(p)
                 PROVE  p[i].op = "write" /\ p[i].field \in Keys /\ p[i].value = build
      OBVIOUS
    <3>1. p[i] = Set(KeyBytes[i], build) /\ KeyBytes[i] \in Keys
      BY <1>f, <2>1
    <3> QED
      BY <1>0, <1>f, <3>1, SetOps
  <2>4. \A i \in 1..Len(p) : /\ p[i].op = "write" /\ p[i].field \notin ViaMagic
                             /\ p[i].field \in Keys => p[i].value \in Good(build)
    BY <1>0, <1>f, <2>3
  <2> QED
    BY <2>1, <2>2, <2>4, UserLemma
<1>8. CASE FactoryReset
  <2> DEFINE p == eeconfig_init(build)
             fresh == TRUE
  <2>1. /\ Command(p, fresh, "run") /\ fresh \in BOOLEAN
        /\ Plan(p, build) /\ Fills(p) /\ \A f \in Fields : Ends(p, f, Factory(build)[f])
    BY <1>0, <1>8, InitSafe, InitEnds DEF FactoryReset
  <2> HIDE DEF p, fresh
  <2> QED
    BY <2>1, CommandLemma
<1>9. CASE ClearEeprom
  <2> DEFINE a == Set("magic", FF)
             p == <<EraseAll, a>>
             fresh == TRUE
  <2>1. Command(p, fresh, "reset") /\ fresh \in BOOLEAN
    BY <1>9 DEF ClearEeprom
  <2>2. a \in Ops /\ a.op = "write" /\ a.field = "magic" /\ EraseAll \in Ops /\ EraseAll.op = "erase"
    BY <1>0, <1>f, SetOps DEF Ops, EraseAll
  <2>3. a = Set("magic", FF)
    OBVIOUS
  <2> HIDE DEF a, fresh
  <2>4. p \in Seq(Ops) /\ Len(p) = 2 /\ p[1] = EraseAll /\ p[2] = a
    BY <2>2
  <2> HIDE DEF p
  <2>5. \A i \in 1..Len(p) : (i = 1 /\ p[i] = EraseAll) \/ (i = 2 /\ p[i] = a)
    BY <2>4
  <2>6. Plan(p, build) /\ Fills(p)
    BY <1>f, <2>2, <2>4, <2>5 DEF Plan, Fills, MakesValid, WritesTo
  <2>7. Ends(p, "magic", FF)
    <3>1. 2 \in 1..Len(p) /\ \A i \in (2 + 1)..Len(p) : Keeps(p[i], "magic", FF)
      BY <2>4
    <3> QED
      BY <2>3, <2>4, <3>1 DEF Ends
  <2> QED
    BY <2>1, <2>6, <2>7, CommandLemma
<1> QED
  BY <1>1, <1>2, <1>3, <1>4, <1>5, <1>6, <1>7, <1>8, <1>9

LEMMA PowerLemma ==
    ASSUME IInv, PowerLoss \/ Flash
    PROVE  IInv'
<1>0. TypeOK /\ Power /\ GoodData /\ Fresh /\ pending = {}
  BY DEF IInv, TypeOK
<1>e. /\ \A b : Plan(<<>>, b) /\ Fills(<<>>)
      /\ Len(<<>>) = 0 /\ <<>> \in Seq(Ops)
      /\ \A i \in DOMAIN <<>> :
            <<>>[i] = EraseAll \/ <<>>[i] \in [op : {"write"}, field : Fields, value : Value]
  BY EmptyPlan, TodoTypes
<1>1. ASSUME todo' = <<>>, stage' = "off"
      PROVE  Planned' /\ Filled' /\ Owned'
  BY <1>1, <1>e DEF Planned, Filled, Owned
<1>2. CASE PowerLoss
  <2>1. /\ powered /\ powered' = FALSE /\ pending' = {} /\ stage' = "off" /\ todo' = <<>>
        /\ pristine' = FALSE /\ build' = build
        /\ \/ store' = store /\ damaged' = damaged
           \/ store' = EE!Erased /\ damaged' = TRUE
    BY <1>2 DEF PowerLoss, EE!PowerLoss
  <2>2. GoodData'
    <3>1. CASE store' = store
      BY <1>0, <3>1 DEF GoodData
    <3>2. CASE store' = EE!Erased
      <4>1. ASSUME NEW b \in Firmware PROVE store'["via2"] # MagicByte("via2", b)
        <5>1. store'["via2"] = 0 /\ MagicByte("via2", b) \in 1..8
          BY <1>0, <3>2, ErasedFacts, BuildFacts DEF ViaMagic
        <5> QED
          BY <5>1
      <4> QED
        BY <4>1 DEF GoodData, ViaMagic
    <3> QED
      BY <2>1, <3>1, <3>2
  <2>3. TypeOK'
    <3>1. store' \in [Fields -> Value]
      BY <1>0, <2>1 DEF TypeOK, EE!Erased, Value, FF
    <3>2. damaged' \in BOOLEAN
      BY <1>0, <2>1 DEF TypeOK
    <3> QED
      BY <1>0, <1>e, <2>1, <3>1, <3>2 DEF TypeOK, EraseAll
  <2>4. Power'
    <3>1. ~damaged
      BY <1>0, <2>1 DEF Power
    <3> QED
      BY <2>1, <3>1 DEF Power, EE!Erased
  <2>5. Fresh'
    BY <2>1 DEF Fresh
  <2> QED
    BY <1>1, <2>1, <2>2, <2>3, <2>4, <2>5 DEF IInv
<1>3. CASE Flash
  <2>1. /\ stage = "off" /\ stage' = "off" /\ build' \in Firmware /\ store' = store
        /\ pending' = pending /\ powered' = powered /\ damaged' = damaged /\ todo' = todo
        /\ pristine' = pristine
    BY <1>3 DEF Flash
  <2>2. todo = <<>>
    BY <1>0, <2>1 DEF Power
  <2>3. TypeOK' /\ Power'
    BY <1>0, <2>1 DEF TypeOK, Power, EE!Erased, EraseAll
  <2>4. GoodData'
    BY <1>0, <2>1 DEF GoodData
  <2>5. Fresh'
    BY <1>0, <2>1 DEF Fresh
  <2> QED
    BY <1>1, <2>1, <2>2, <2>3, <2>4, <2>5 DEF IInv
<1> QED
  BY <1>2, <1>3
-----------------------------------------------------------------------------
(***************************************************************************)
(* The theorems.                                                           *)
(***************************************************************************)
LEMMA InitLemma == Init => IInv
<1> SUFFICES ASSUME Init PROVE IInv
  OBVIOUS
<1>1. /\ store = EE!Erased /\ pending = {} /\ powered = FALSE /\ damaged = FALSE
      /\ stage = "off" /\ todo = <<>> /\ build \in Firmware /\ pristine = TRUE
  BY DEF Init, EE!Init
<1>2. Plan(<<>>, build) /\ Len(<<>>) = 0 /\ <<>> \in Seq(Ops)
  BY EmptyPlan
<1>3. TypeOK
  <2>1. store \in [Fields -> Value]
    BY <1>1 DEF EE!Erased, Value, FF
  <2>2. \A i \in DOMAIN todo :
          todo[i] = EraseAll \/ todo[i] \in [op : {"write"}, field : Fields, value : Value]
    BY <1>1, <1>2, TodoTypes
  <2> QED
    BY <1>1, <2>1, <2>2 DEF TypeOK
<1>4. Planned /\ Filled /\ Owned
  BY <1>1, <1>2 DEF Planned, Filled, Owned
<1>5. store["via2"] = 0 /\ store["magic"] = 0
  BY <1>1, ErasedFacts, FieldFacts
<1>6. GoodData
  <2>1. \A b \in Firmware : store["via2"] # MagicByte("via2", b)
    BY <1>3, <1>5, BuildFacts DEF ViaMagic
  <2> QED
    BY <2>1 DEF GoodData, ViaMagic
<1>7. Power /\ Fresh
  BY <1>1, <1>5 DEF Power, Fresh, MagicNumber
<1> QED
  BY <1>3, <1>4, <1>6, <1>7 DEF IInv

LEMMA NextLemma == IInv /\ [Next]_vars => IInv'
<1> SUFFICES ASSUME IInv, [Next]_vars PROVE IInv'
  OBVIOUS
<1>1. CASE Step
  BY <1>1, StepLemma
<1>2. CASE keyboard_setup \/ via_init \/ magic \/ Started \/ soft_reset_keyboard
  BY <1>2, StartLemma
<1>3. CASE \/ eeconfig_update_keymap \/ dynamic_keymap_set_keycode
           \/ dynamic_keymap_set_buffer \/ via_set_layout_options
           \/ dynamic_keymap_macro_set_buffer \/ KeymapReset \/ MacroReset
           \/ FactoryReset \/ ClearEeprom
  BY <1>3, CommandsLemma
<1>4. CASE PowerLoss \/ Flash
  BY <1>4, PowerLemma
<1>5. CASE UNCHANGED vars
  <2> USE <1>5 DEF vars
  <2>1. TypeOK' /\ Planned' /\ Filled'
    BY DEF IInv, TypeOK, Planned, Filled, EraseAll
  <2>2. Owned' /\ GoodData' /\ Power' /\ Fresh'
    BY DEF IInv, Owned, MineAt, GoodData, Power, Fresh, EE!Erased
  <2> QED
    BY <2>1, <2>2 DEF IInv
<1> QED
  BY <1>1, <1>2, <1>3, <1>4, <1>5 DEF Next

LEMMA Invariance == Spec => []IInv
BY InitLemma, NextLemma, PTL DEF Spec

\* The settings and the operations under way keep their types: whatever is written to
\* the EEPROM, by a start or by a command, is a value of one of its fields.
THEOREM TypeCorrect == Spec => []TypeOK
<1>1. IInv => TypeOK
  BY DEF IInv
<1> QED
  BY <1>1, Invariance, PTL

\* "If the EEPROM has the magic, the data is good" (via_init), as far as it goes: a
\* keymap of any length that the installed firmware finds marked with its magic holds
\* only keycodes that it or other firmware of the same date wrote, wherever power was lost
\* and whichever firmware, of this date or others, was flashed in between.
THEOREM MagicHolds == Spec => []MagicMeansGoodData
<1>1. IInv => MagicMeansGoodData
  <2> SUFFICES ASSUME IInv, via_eeprom_is_valid, NEW k \in Keys
               PROVE  \E c \in SameDate(build) : store[k] \in {c, UserKey(c)}
    BY DEF MagicMeansGoodData
  <2>1. build \in Firmware /\ GoodData
    BY DEF IInv, TypeOK
  <2>2. store[k] \in Shared(build)
    BY <2>1 DEF GoodData, via_eeprom_is_valid
  <2> QED
    BY <2>2 DEF Shared, Good
<1> QED
  BY <1>1, Invariance, PTL

\* After the first start, a factory reset or EE_CLR (eeconfig_init_quantum), a keyboard
\* that has not lost power meanwhile runs with exactly the factory settings.
THEOREM FreshHolds == Spec => []FreshAfterReset
<1>1. IInv => FreshAfterReset
  <2> SUFFICES ASSUME IInv, pristine, stage = "run", todo = <<>>
               PROVE  store = FactorySettings
    BY DEF FreshAfterReset
  <2>1. \A f \in Fields : Settled(store, <<>>, f, Factory(build)[f])
    BY DEF IInv, Fresh
  <2>2. \A f, v : ~Ends(<<>>, f, v)
    <3>1. Len(<<>>) = 0
      OBVIOUS
    <3> QED
      BY <3>1 DEF Ends
  <2>3. \A f \in Fields : store[f] = Factory(build)[f]
    BY <2>1, <2>2 DEF Settled
  <2>4. FactorySettings = Factory(build)
    BY DEF FactorySettings, Factory
  <2>5. store \in [Fields -> Value]
    BY DEF IInv, TypeOK
  <2>6. \E c : Factory(build) = [f \in Fields |-> c[f]]
    <3>1. Factory(build) = [f \in Fields |-> Factory(build)[f]]
      BY DEF Factory
    <3> QED
      BY <3>1
  <2> QED
    BY <2>3, <2>4, <2>5, <2>6
<1> QED
  BY <1>1, Invariance, PTL
=============================================================================
