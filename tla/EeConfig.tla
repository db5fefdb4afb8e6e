------------------------------ MODULE EeConfig ------------------------------
(***************************************************************************)
(* The persistent settings of the keyboard and how a start makes sure that *)
(* they are initialised: keyboard_setup, keyboard_init, via_init, magic,   *)
(* eeconfig_init_quantum, eeconfig_init_via and the commands that change   *)
(* settings afterwards.  The code runs on one thread, one EEPROM write     *)
(* after the other; power may be lost between any two of them, and other   *)
(* firmware may be flashed while the keyboard is off.                      *)
(*                                                                         *)
(* The EEPROM is the one Eeprom specifies: each write of a field is        *)
(* atomic.  A field stands for the bytes that the code treats alike; the   *)
(* fields whose default is zero are left out, since an erased EEPROM       *)
(* already holds them.                                                     *)
(***************************************************************************)
EXTENDS Integers, Sequences, Functions

CONSTANTS
    KeyBytes,   \* the sequence of keymap bytes, in the order of dynamic_keymap_reset
    Firmware,   \* the builds that may be flashed, as numbers
    Date        \* the date of each build, as the three bytes of the magic

ASSUME FirmwareAssumption == Firmware \subseteq 1..4

Keys == Range(KeyBytes)
ViaMagic == {"via0", "via1", "via2"}
Settings == {"magic", "keymap", "audio", "layout", "macro"} \cup ViaMagic
Fields == Settings \cup Keys

\* The keymap lies behind the settings (DYNAMIC_KEYMAP_EEPROM_ADDR).
ASSUME KeyBytesAssumption == KeyBytes \in Seq(Keys) /\ Keys \cap Settings = {}

\* Year, month and day in BCD, as small numbers: neither 0 (erased) nor 0xFF.  Builds
\* may have the same date.
ASSUME DateAssumption == Date \in [Firmware -> [ViaMagic -> 1..8]]

\* Contents of fields.  A keymap byte holds b by default under firmware b, and
\* UserKey(b) once VIA has set it under firmware b.
MagicNumber == 1
Default == 1
User == 2
FF == 9
UserKey(b) == b + 4
Value == 0..FF

VARIABLES
    store, pending, powered,    \* the EEPROM
    damaged,    \* the driver's initialisation will report an ECC error
    stage,      \* how far the start has come: off, setup, via, magic, run, reset
    todo,       \* the EEPROM operations that the running function has still to do
    build,      \* the firmware that is installed
    pristine    \* history: settings reset, and since then neither changed nor cut short

vars == <<store, pending, powered, damaged, stage, todo, build, pristine>>

EE == INSTANCE Eeprom WITH Addr <- Fields, Units <- {{f} : f \in Fields}

Set(f, v) == [op |-> "write", field |-> f, value |-> v]
EraseAll == [op |-> "erase"]
-----------------------------------------------------------------------------
(***************************************************************************)
(* The functions, as sequences of EEPROM operations.                       *)
(***************************************************************************)
\* Byte i of the magic of firmware b: QMK_BUILDDATE without the time of day.
MagicByte(i, b) == Date[b][i]

via_eeprom_is_valid == \A i \in ViaMagic : store[i] = MagicByte(i, build)

via_eeprom_set_valid(valid, b) ==
    [i \in 1..3 |-> LET f == <<"via0", "via1", "via2">>[i]
                    IN  Set(f, IF valid THEN MagicByte(f, b) ELSE FF)]

dynamic_keymap_reset(b) == [i \in 1..Len(KeyBytes) |-> Set(KeyBytes[i], b)]

dynamic_keymap_macro_reset == <<Set("macro", 0)>>

\* Mutant of eeconfig_init_via: the magic is saved first.
InitViaMagicFirst(b) ==
    via_eeprom_set_valid(FALSE, b) \o via_eeprom_set_valid(TRUE, b)
        \o <<Set("layout", 0)>> \o dynamic_keymap_reset(b) \o dynamic_keymap_macro_reset

eeconfig_init_via(b) ==
    via_eeprom_set_valid(FALSE, b) \o <<Set("layout", 0)>> \o dynamic_keymap_reset(b)
        \o dynamic_keymap_macro_reset \o via_eeprom_set_valid(TRUE, b)

\* Mutant of eeconfig_init: the audio settings are not written.
InitWithoutAudio(b) ==
    <<EraseAll, Set("magic", MagicNumber), Set("keymap", Default)>>
        \o via_eeprom_set_valid(FALSE, b) \o eeconfig_init_via(b)

eeconfig_init(b) ==
    <<EraseAll, Set("magic", MagicNumber), Set("keymap", Default), Set("audio", Default)>>
        \o via_eeprom_set_valid(FALSE, b) \o eeconfig_init_via(b)

eeconfig_is_enabled == store["magic"] = MagicNumber /\ via_eeprom_is_valid
-----------------------------------------------------------------------------
\* The next EEPROM operation of the running function.
Step ==
    /\ todo # <<>>
    /\ IF Head(todo).op = "erase"
       THEN EE!Erase
       ELSE EE!Write([f \in {Head(todo).field} |-> Head(todo).value])
    /\ todo' = Tail(todo)
    /\ UNCHANGED <<damaged, stage, build, pristine>>

\* Continue the start with function p, at stage s.
Enter(from, s, p) ==
    /\ stage = from /\ todo = <<>>
    /\ stage' = s
    /\ todo' = p
    /\ UNCHANGED <<store, pending, powered, build, pristine>>

\* keyboard_setup: settings that cannot be read are replaced.
keyboard_setup ==
    /\ EE!PowerOn
    /\ stage' = "setup"
    /\ todo' = IF damaged THEN eeconfig_init(build) ELSE <<>>
    /\ damaged' = FALSE
    /\ UNCHANGED <<build, pristine>>

\* keyboard_init calls via_init before quantum_init calls magic.
via_init ==
    /\ Enter("setup", "via",
             IF via_eeprom_is_valid THEN <<>> ELSE eeconfig_init_via(build))
    /\ UNCHANGED damaged

magic ==
    /\ Enter("via", "magic", IF eeconfig_is_enabled THEN <<>> ELSE eeconfig_init(build))
    /\ UNCHANGED damaged

Started ==
    /\ Enter("magic", "run", <<>>)
    /\ UNCHANGED damaged
-----------------------------------------------------------------------------
\* A command of the running keyboard: what it writes, whether the settings are the
\* factory ones when it is done, and the stage that it leaves the keyboard in.
Command(p, fresh, s) ==
    /\ stage = "run" /\ todo = <<>>
    /\ todo' = p
    /\ pristine' = fresh
    /\ stage' = s
    /\ UNCHANGED <<store, pending, powered, damaged, build>>

\* process_magic and the other callers of eeconfig_update_keymap.
eeconfig_update_keymap == Command(<<Set("keymap", User)>>, FALSE, "run")

\* raw_hid_receive: VIA changes a keymap byte, the layout options or the macros,
\* or resets keymap or macros.
dynamic_keymap_set_keycode ==
    \E i \in {n \in 1..(Len(KeyBytes) - 1) : n % 2 = 1} :
        Command(<<Set(KeyBytes[i], UserKey(build)), Set(KeyBytes[i + 1], UserKey(build))>>,
                FALSE, "run")
dynamic_keymap_set_buffer ==
    \E k \in Keys : Command(<<Set(k, UserKey(build))>>, FALSE, "run")
via_set_layout_options == Command(<<Set("layout", User)>>, FALSE, "run")
dynamic_keymap_macro_set_buffer == Command(<<Set("macro", User)>>, FALSE, "run")
KeymapReset == Command(dynamic_keymap_reset(build), FALSE, "run")
MacroReset == Command(dynamic_keymap_macro_reset, FALSE, "run")

\* factory_timer_check: reset of all settings without a restart.
FactoryReset == Command(eeconfig_init(build), TRUE, "run")

\* QK_CLEAR_EEPROM: eeconfig_disable, then soft_reset_keyboard.
ClearEeprom == Command(<<EraseAll, Set("magic", FF)>>, TRUE, "reset")

soft_reset_keyboard ==
    /\ Enter("reset", "setup", <<>>)
    /\ UNCHANGED damaged
-----------------------------------------------------------------------------
\* Power is lost; the EEPROM may be damaged when it was being written.
PowerLoss ==
    /\ EE!PowerLoss
    /\ \/ store' = store /\ UNCHANGED damaged
       \/ store' = EE!Erased /\ todo # <<>> /\ damaged' = TRUE
    /\ stage' = "off" /\ todo' = <<>> /\ pristine' = FALSE
    /\ UNCHANGED build

\* Other firmware is flashed.
Flash ==
    /\ stage = "off"
    /\ build' \in Firmware \ {build}
    /\ UNCHANGED <<store, pending, powered, damaged, stage, todo, pristine>>

Init ==
    /\ EE!Init
    /\ damaged = FALSE /\ stage = "off" /\ todo = <<>>
    /\ build \in Firmware /\ pristine = TRUE

Next ==
    \/ Step \/ keyboard_setup \/ via_init \/ magic \/ Started
    \/ eeconfig_update_keymap \/ dynamic_keymap_set_keycode
    \/ dynamic_keymap_set_buffer \/ via_set_layout_options
    \/ dynamic_keymap_macro_set_buffer \/ KeymapReset \/ MacroReset
    \/ FactoryReset \/ ClearEeprom \/ soft_reset_keyboard
    \/ PowerLoss \/ Flash

Spec == Init /\ [][Next]_vars
-----------------------------------------------------------------------------
(***************************************************************************)
(* Properties.                                                             *)
(***************************************************************************)
\* The types of the variables.
TypeOK ==
    /\ store \in [Fields -> Value] /\ pending = {} /\ powered \in BOOLEAN
    /\ damaged \in BOOLEAN
    /\ stage \in {"off", "setup", "via", "magic", "run", "reset"}
    /\ \A i \in DOMAIN todo :
        todo[i] = EraseAll \/ todo[i] \in [op : {"write"}, field : Fields, value : Value]
    /\ build \in Firmware /\ pristine \in BOOLEAN

\* The builds that share the magic of firmware b.
SameDate(b) == {c \in Firmware : Date[c] = Date[b]}

\* Whenever the firmware that is installed would find its magic, every keymap byte is
\* one that firmware of its date wrote: never an erased one, one of an initialisation
\* cut short, or one of another date, wherever power was lost and whichever firmware
\* ran before.
MagicMeansGoodData ==
    via_eeprom_is_valid =>
        \A k \in Keys : \E c \in SameDate(build) : store[k] \in {c, UserKey(c)}

\* "If the EEPROM has the magic, the data is good.  OK to load from EEPROM" (via_init),
\* taken at its word: every keymap byte is one that the installed firmware wrote.  The
\* code does not keep it, since the magic leaves out the time of day of the build.
MagicMeansOwnData ==
    via_eeprom_is_valid =>
        \A k \in Keys : store[k] \in {build, UserKey(build)}

FactorySettings ==
    [f \in Fields |-> CASE f \in Keys -> build
                        [] f \in ViaMagic -> MagicByte(f, build)
                        [] f \in {"layout", "macro"} -> 0
                        [] OTHER -> Default]

\* After the first start, a factory reset or EE_CLR, a keyboard that has not lost
\* power meanwhile runs with exactly the factory settings, nothing left over.
FreshAfterReset ==
    pristine /\ stage = "run" /\ todo = <<>> => store = FactorySettings

\* A keyboard that has started has its core settings initialised, also when power
\* was lost in the middle of their initialisation ("Just in case if power is lost
\* mid init, this makes sure that it pets properly re-initialized").
Reinitialised ==
    stage = "run" /\ todo = <<>> => store["keymap"] # 0 /\ store["audio"] # 0
=============================================================================
