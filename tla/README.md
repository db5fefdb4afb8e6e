# A TLA+ development of the Keychron K3 Pro firmware

This directory models, model-checks and proves properties of the firmware in this
repository: QMK with the Bluetooth layer of the Keychron K3 Pro. It covers the parts
that are hard to test: the path of a key report over the Bluetooth module, the
connection manager with its switch, keys, timers and interrupts, the packet receiver,
the EEPROM emulation under power loss and what is stored in it, tapping, actions and
one-shot keys, debouncing, and the table of deferred callbacks. Everything is
translated from the C code; the Bluetooth module (CKBT51) and the hosts are outside the
repository and are modelled from how the code uses them.

Contents: 1 inventory, 2 modules and their correspondence to the code, 3 runs, bounds
and fairness, 4 finding, 5 further disagreements, 6 proofs, 7 what is not modelled,
8 plan.

## 1. Inventory

### How the parts work together

The main loop (`quantum/keyboard.c`) scans the matrix, processes key events into
actions, and calls `housekeeping_task_kb`, which is `bluetooth_tasks`
(`bluetooth_main.c`). Actions change the keyboard or consumer report;
`host_keyboard_send` and `host_consumer_send` (`tmk_core/protocol/host.c`) hand it to
the driver in charge: USB, or the functions `bluetooth_send_*`. A round of
`bluetooth_tasks` reads the mode switch, reads at most one packet of the module
(`ckbt51_task`), handles the connection event in it (`bluetooth_event_queue_task`),
lets the report buffer send (`report_buffer_task`), looks at the battery and perhaps
enters low power mode (`lpm_task`). Everything runs in one thread, except the virtual
timer of the host keys, whose callback runs in interrupt context, and the module and
the hosts, which act at any time.

| Component | State | Operations | Hard about it | What makes it correct |
|---|---|---|---|---|
| Report buffer (`report_buffer.c`) | ring, `kb_rpt`, `retry`, two timers, interval | init, enqueue, dequeue, task | full ring, retries, clock that restarts | reports stay in order and none disappears |
| Report path (`bluetooth.c`, `ckbt51.c`) | `bt_state`, the last report | send keyboard / consumer, acknowledgement | late, repeated and negative answers; link lost in between | what the host believes pressed is what is pressed |
| Connection manager (`bluetooth.c`, `k3_pro.c`) | `bt_state`, `host_index`, `pincodeEntry`, pairing timer | connect, pair, disconnect, seven events | user, timer interrupt and module act at once | agreement with the module; reports go to the right host |
| Transport switch (`transport.c`) | `transport`, driver, two NKRO settings | `set_transport` | a switch moved at the wrong moment | no stuck key, settings kept apart |
| Battery (`battery.c`) | counters of low voltage | `battery_task` | becomes critical at any time | no connection attempt while critical |
| Low power (`lpm.c`, `lpm_stm32l432.c`) | timer, clock | `lpm_task`, `enter_power_mode` | waking resets buffer, UART and clock | never sleeps on work in progress |
| Deferred execution (`deferred_exec.c`) | table of executors, token counter | defer, extend, cancel, task | callbacks change the table during the walk; tokens and clock wrap | each job exactly once in the table, on time, with its own token |
| Module receiver (`ckbt51.c`) | byte queue, parser state | `ckbt51_task`, event handler, acknowledgement | lost and garbled bytes, payloads that look like headers, restart of the serial driver | events are neither made up nor lost, and handled in order |
| EEPROM emulation (`eeprom_stm32_l4.c`, `flash_stm32.c`) | compacted page, log, RAM copy | init, write byte / word / double word / block, compact, erase | power loss during programming, erasing, compacting; full log | an atomic, durable array of bytes |
| Wear levelling (`quantum/wear_leveling`) | consolidated data and hash, log, cache | init, playback, write, consolidate, erase | the same, with entries of several words | the same |
| EEPROM contents (`eeconfig.c`, `via.c`, `dynamic_keymap.c`) | magic numbers, settings, keymap, macros | init, reset, VIA commands, factory reset | power loss between two writes; firmware of another build | a magic number vouches for what it covers |
| Tapping (`action_tapping.c`) | tapping key, waiting ring | process event, tick | events reinterpreted later, ring overflow | every role that was registered is unregistered; order and delay |
| Actions (`action.c`, `action_util.c`, `action_layer.c`) | keys, modifiers, one-shot state, layers, layer cache | press and release of every action | layers change while keys are held; one-shots overlap | releases undo presses, one-shots apply once |
| Debounce (`quantum/debounce`) | counters, raw and cooked matrix | `debounce` | scans at irregular times, bounces near the end of a counter, 8-bit times | no change lost, no chatter, stated latency |
| Matrix scan, indicator, combos, tap dance, leader, RGB, split, USB stack, drivers | | | | see section 7 |

The list of hazards, each at its line and with the properties that guard against it,
is `hazards` in `PROJECT.json`.

## 2. Modules

Names of the code are kept. Operators whose comment says "Seeded fault" or
"Mutant of" are deliberately wrong variants: putting
one in place of the original must violate the property named for it in `PROJECT.json`
under `mutants`.

**ReportBuffer** is `report_buffer.c`. Every function is an operator from one state of
the microcontroller (a record: ring, indices, `kb_rpt`, `retry`, elapsed times, UART)
to the next, so that a handler that calls several is their composition. Time is the
elapsed time of each timer, saturating at `MaxTime`, beyond every threshold. A report
is its kind, a serial number for its contents, and whether something is pressed in it.

**ReportLink** composes the ring with its users and its environment. `Key` is
`process_record_kb` plus the report it leads to. `RoundQuiet`, `RoundAck`,
`RoundConnected` and `RoundDisconnected` are one whole round of `bluetooth_task` each,
named for the packet read in it; all end in `EndRound`: `report_buffer_task`, then
`lpm_task`, which may sleep (whether backlight, battery sampling and cable allow it is
left open). `Module*` and `HostReceive` are the external side: a FIFO of `FifoSize`
that answers success, half full or full; a link that comes, fails and is lost.
`AckBound` is the time in which the module answers.

**Bluetooth** is the connection manager. The firmware is one record `k`; event
handlers, `set_transport`, `clear_keyboard` and the senders are operators on it. Here
the report buffer is abstracted to a FIFO with a flag for "the interval has passed":
ring indices, retries and low power mode belong to ReportLink. Actions: a round of
`bluetooth_tasks` (`Round`, with or without the switch moved), a key (`Key`), the
host keys (`HostKeyPress`, and the release in two steps, `HostKeyRelease` and
`HostKeyTimerReset`, because the interrupt `pairing_key_timer_cb` may come between),
and the module (`Module*`), which answers each command with the events the firmware
handles. A report on its way carries the host it was made for, so that one can ask
who receives it. Arguments `zero` and `early` stand for the tests of the clock.

**DeferredExec** is `deferred_exec.c`. The task is one step per executor (`Start`,
`Skip`, `Call`, `Return`, `Repeat`), so that a callback may use the API in the middle of
the walk. Jobs are numbered in the order they were deferred; `wait` is a history
variable that says for each pending job how long it has yet to wait, or how late it is,
in numbers that do not wrap. The main loop calls the task at least every `MaxLag`
milliseconds, and `ClockAssumption` says that no delay with that lateness comes near
half a period of the clock, as the signed difference of two times requires. `Rush`
allows a callback to cancel itself and then to defer.

**Eeprom** is the abstract specification of an EEPROM driver (`eeprom_driver.c`): an
array of bytes; a write is requested and then done as a whole. When power is lost the
pending write has been done as a whole or not at all, and nothing else changes, or
everything is erased (what both drivers do when they find a damaged image). Never is a
part of a write, an older value or a mixture read back. Both drivers below are shown to
implement it.

**FlashEeprom** is the driver of this keyboard (STM32L432). Flash is a compacted page
and a log of slots; each action is one flash operation (`ClearPage`, `FillCell`,
`ProgramDirect`, `EraseLogPage`, `ProgramLog`), and `PowerLoss` may come before, in the
middle of or after each: an interrupted programming leaves the cell unwritten, written,
with an ECC error, or torn. `EEPROM_Init` replays the log. The history variable
`harmed` notes that power was lost during a compaction or left a torn slot; the two
cases of section 5 start there. Refinement mapping: the abstract array is what replay
would give (while a write is on its way) or the RAM copy; a harmed EEPROM counts as
switched off until it is erased.

**WearLeveling** is QMK's general driver, which this keyboard does not use (it is part
of the repository's core and has its own tests). Log words are the real bytes of the
three encodings; a build (`Stores`) is chosen in the initial state: write size, backing
size, flash pages, whether a locked flash can be erased, and what power loss may
interrupt. An address of the long encoding is in three parts, as in
`LOG_ENTRY_MAKE_MULTIBYTE`: three bits in the first byte and two bytes, whose radix is a
constant so that all three are used by small addresses. The FNV hash is the array it was
computed from, so that collisions are left out. Refinement mapping: the abstract array
is the cache, the former cache while an entry is being appended, and what playback would
give while power is off.

**EeConfig** is what the firmware keeps in the EEPROM. A field is blank, at its default,
changed by the user, or a byte of the keymap of some build; an operation is the list of
its EEPROM writes, made one per step, with `PowerLoss` between any two and `Flash` to
put another build on the keyboard. The magic of a build is its date (`Date`: year, month
and day, as in `via_eeprom_is_valid`), so that builds of one day share it. VIA commands,
factory reset, bootmagic and `QK_CLEAR_EEPROM` are the actions.

**Tapping** is `process_tapping` and its waiting ring. A call has an outcome (result,
record, tapping key, records processed), and the loop over the waiting events is one
step per event. Times are ages, one unit of `Clock` at a time. `options`, one of
`Builds`, is the set of compile-time options; `Crowded` are the builds in which several
keys may change in one scan or in successive ones. What is registered is a set of
pairs of key and role; `owed` lists the presses not yet processed, oldest first.

**Actions** is `process_action` and what it calls: the firmware is one record `kb`
(keys, real, weak and one-shot modifiers, layers, the last report). Tapping is
abstracted to a queue that holds events only while its head is an undecided dual-role
key, and taps to a number chosen when the event leaves the queue. `keymap` is chosen
from `Keymaps` in the initial state; `KeymapAssumption` says that its actions name
layers that it has, among the 32 of `layer_state_t`.

**Debounce** has the seven algorithms of `quantum/debounce`, on the same variables, with
any raw matrix and any time since the last scan as inputs of `matrix_scan`. Per-row
algorithms keep one counter per row, represented at each key of the row.

**Uart** is the receiving side of `ckbt51.c`, byte by byte: a queue of bytes, the static
variables of `ckbt51_task`, the frame with its complemented length and checksum. The
line may lose or garble a byte, an acknowledgement may be lost, waking restarts the
serial driver. The module (external) repeats an unacknowledged event twice, and gives a
packet any of the serial numbers in `Serials`; `sn` of `ckbt51_task`, which is only passed
on to the firmware update, is left out. `misled` records that a length byte was lost right
before an equal serial number (section 5).

**ReportLinkProofs**, **BluetoothProofs**, **DeferredExecProofs**,
**FlashEepromProofs**, **EeConfigProofs**, **DebounceProofs**, **ActionsProofs** and
**WearLevelingProofs** hold the theorems of section 6, each about the module in its
name. **MC...** modules hold the constants of a run that a cfg cannot write.

## 3. Runs, bounds, fairness

| Run | Shows | Bounds (distinct states) |
|---|---|---|
| `report_link` | types; order; nothing lost; no stuck key; a burst shorter than the ring fits; every report arrives or is given up by design | ring of 3 (holds 2), FIFO of 2, 4 reports, times shrunk in proportion (437,000) |
| `report_link_slow` | never asleep on an unread answer, when answers come after the retry gap or report errors (order in that case is the theorem `NkroInOrder`) | FIFO of 1, 3 reports |
| `report_link_direct` | a violation, section 4 | 6KRO |
| `bluetooth` | agreement with the module; reports reach the right host; no stuck key on any host after switch, host change, lost link, reset; battery guard | 2 hosts, both kinds of report, 4 chances, PIN entry (1,084,000) |
| `deferred_exec` | unique tokens, no forgotten job, on time across wraps, every job runs unless cancelled | 2 executors, 4 tokens (3 usable), clock of 13, at most 2 late, 4 jobs (200,000) |
| `flash_eeprom` | durable, atomic writes (refinement of Eeprom); only erased double words are programmed | 2 cells of 2 bytes, writes of 1 and 2 bytes, log of 3 slots (1,320,000) |
| `eeconfig` | a valid VIA magic covers a complete keymap, written by builds of this date; a reset leaves factory settings | 2 builds of one day and one of another, 2 bytes of keymap (35,000) |
| `tapping` | no role stays registered; no event waits longer than the term; presses in order | one key of each type, term 6, quick tap 4, ring of 8, three builds (451,000) |
| `debounce` | no change lost, no chatter, noise rejected, prompt | a row of 2 keys, DEBOUNCE 3, 8-bit limit 4, up to 5 ms between scans (19,000) |
| `uart` | no overflow of the packet buffer; no event made up or out of order; but for the case of section 5, the retries make up for a fault and every event is handled | 2 events, 1 fault, 1 other packet behind each transmission, serial numbers equal to a length, to its complement or to neither (329,000) |
| `wear_leveling` | playback returns what was written; only blank words are written; refinement of Eeprom | 8 logical bytes, stores of 2, 4 and 8 bytes per write, 3 writes (112,000) |
| `actions` | releases undo presses; the host and the layers settle; one-shots apply once | 4 keys, 3 layers, two keymaps, queue of 2 (431,000) |

Why the bounds are enough. A ring of 3 wraps after three reports, is full after two and
empty again, with a third report refused; retry counts of 2 run out within a behaviour;
the time constants keep the order of the real ones (interval < retry gap, both well
below the time before sleeping), which is all the code compares. Four reports are a
press and a release on each side of a lost link, or two in the ring behind one being
sent. In Bluetooth a *chance* is spent for whatever the user, the radio or the battery
does of its own accord (switch, host key, link up or lost, PIN, reset, critical
battery); ordinary keys, rounds and answers are free. Four chances hold, for example,
host key, pairing, PIN, link. `RingRoom` and `WireRoom` bound how many reports
and commands may be waiting when a handler starts. With 4 jobs and 3 usable tokens the
token counter wraps around jobs that are still pending, and a clock of 13 wraps while
jobs wait; every starting time is an initial state.

In FlashEeprom three slots hold a log that fills up within two calls and is compacted;
two cells make a compaction that is cut between cells, and a span of two bytes an entry
that could be torn. Instances with two log pages (one cell with two slots per page, two
cells with one, and two cells with two slots and only double-byte writes, 3.9 million
states) were checked too and hold. In Tapping a term of 6 leaves room for every other
key to go down and up within it, and QUICK_TAP_TERM differs from it. In Debounce
the time between two scans may exceed the 8-bit limit, so that times saturate; an
instance with three keys in two rows and DEBOUNCE 2 (156,000 states) holds too. In
WearLeveling a radix of 2 and 2 small addresses make all encodings and all three parts
of an address occur within 8 bytes; 4 writes (1.4 million states) hold too. In Uart a
fault can hit each byte of each transmission, payloads contain bytes that look like
headers, and every packet, a retry too, takes any of the serial numbers: 6 is the length
of a connection or battery event, 5 that of an acknowledgement, 249 the complement of 6.
The serial numbers 1, 6, 87, 170 and 250 (764,000 states), and all 256 with one event and
nothing in between (237,000), hold too. `RxRoom` is less than what the driver queues, so a
parser that waits for more bytes than that is not followed further: it stays as it is.

`NothingLost` and `NoStuckKey` need an answer to come within the retry gap
(`AckBound <= RetryGap`, 7 ms in the code; an assumption on the module):
answers are not matched with reports, and a late answer to the first copy of a report
would be taken as the answer to the next one. `InOrder` needs no such bound.

Fairness. `Delivered` assumes that the main loop keeps running (weak fairness of
`Round`), the clock advances, the module takes commands, and the host polls its
module; the first two hold by construction of the firmware, the last two are what
"connected" means, and losing the link is always possible. The key presses, link
changes and sleep are not fair. `Runs` assumes that the main loop calls the task, that
callbacks return, and that time passes. `EventsHandled` assumes that the main loop calls
`ckbt51_task`, that bytes on the line arrive, and that the module repeats an event that
was not acknowledged; faults, other packets and restarts are not fair.

Deadlock is checked in all runs but `uart` and `wear_leveling`, where the bound on the
number of events or writes ends a behaviour.

## 4. Finding

**6KRO reports can be lost** (`report_link_direct`). With NKRO off, and for consumer
reports always, `bluetooth_send_*` sends past an empty ring without remembering the
report. If the module answers that its FIFO is full, the retry sends what `kb_rpt`
held before. TLC shows a release lost and a key that stays pressed.

## 5. Further disagreements

These were met while modelling: a property that a comment or a document of the
repository suggests, and that TLC refutes on the instance named. They are not kept as
runs; the passing runs exclude exactly these cases, by a condition that the property
states or by the constants. So `tapping` does not fill its ring of 8, `wear_leveling` has
stores that can be erased while locked, and `actions` a queue of two.

| Where | What happens | To see it |
|---|---|---|
| `report_buffer.c:63` | `report_buffer.c:23-26` allows a macro of half the queue size in characters; the ring holds one report less than its size, and the last release is dropped | `ReportLink.cfg` with `MacroPromise` |
| `transport.c:109` | moving the switch to USB during PIN entry stores the temporarily disabled NKRO setting as the Bluetooth one; `bluetooth.c:210` then restores FALSE | `Bluetooth.cfg` with `NkroRestored`, one host, `Kinds = {"KB"}`, 6 chances |
| `deferred_exec.c:143` | a callback that cancels its own token, defers another job and returns 0 unregisters that new job, which had reused the executor (`docs/custom_quantum_functions.md:250`) | `DeferredExec.cfg` with `Rush = TRUE`: `NotForgotten` |
| `eeprom_stm32_l4.c:331` | a torn slot makes `blank_check` compact, and the caller then logs a value for a cell that compaction left blank; a later direct write is hidden by that entry at the next start | `FlashEeprom.cfg` with `Retained` |
| `eeprom_stm32_l4.c:251` | `eeprom_clear` erases the compacted page before the log; power lost in between leaves old entries over a blank image (`docs/feature_eeprom.md:3`: settings "are retained even after power loss") | the same |
| `via.c:41` | "If the EEPROM has the magic, the data is good" (`via.c:77`), but the magic is only year, month and day of the build: of two builds of one day, the second takes over the keymap that the first wrote, also when its layout is another one | `EeConfig.cfg` with `MagicMeansOwnData` |
| `eeconfig.c:49` | `eeconfig_init` writes its magic number before the settings: power lost in between, they are never initialised, though the comment at `eeconfig.c:82-84` relies on it | `EeConfig.cfg` with `Reinitialised` |
| `ckbt51.c:591` | "Check wheather len is valid" (`ckbt51.c:590`) compares two adjacent bytes only: when the length byte of `AA 57 06 F9 06` (serial number 6) is lost, `AA 57 F9 06` passes, with a length of 249 for `buf[32]`; see below | `Uart.cfg` with `PacketFits` |
| `action_tapping.c:112` | with PERMISSIVE_HOLD, or several keys changing at once, the loop over the waiting events stops behind a decision, and the next event is processed before those that still wait | `Tapping.cfg` with `Builds = {{"PERMISSIVE_HOLD"}}`, or `Builds = Crowded = {{}}`: `PressesInOrder` |
| `action_tapping.c:97` | "clear all in case of overflow" leaves on the layer of a held layer-tap key whose release was waiting | `Tapping.cfg` with `Builds = Crowded = {{}}` and a ring of 3: `NothingStuck` |
| `sym_eager_pr.c:131` | compares a row with itself after copying it, and returns "no change" (`debounce.h:10`) | `Debounce.cfg` with `ReturnsChange` |
| `wear_leveling.c:374` | with words of 2 bytes, power lost after the first word of an entry: the start completes the address from the blank next word and writes zeros elsewhere | a 2-byte store with `CutDuring` `idle`, `log`: `OthersKept` |
| `wear_leveling.c:512` | an entry cut at the very end of the log makes playback read behind the backing store | the same with 5 writes: `ReadsInside` |
| `wear_leveling.c:306` | a log found full at a start is consolidated without unlocking the store; a flash that needs it is not erased, and the start ends with an empty cache | `LockedErase = FALSE`, 5 writes: `LogPlaysBack` |
| `wear_leveling_legacy.c:28` | power lost between two pages of an erasure: the log seems empty and its later words are not blank | an 8-byte store of two pages, cut in `erase` and `wipe`, 6 writes: `WritesBlank` |
| `action_util.c:159` | a second one-shot layer key overwrites the state of a held one, whose layer stays on | keymap `TwoOSL`: `LayersSettle` |
| `action_util.c:84` | the one-shot layer is kept in a signed byte: layer 16 and above is read back wrong and stays on | `HighOSL`: `LayersSettle` |
| `action.c:857` | a tap-toggle key pressed on a one-shot layer is released twice and leaves its layer on | `TapToggleOSL`, at most one tap: `LayersSettle` |
| `action_util.c:208` | turning one-shot keys off while a one-shot layer waits leaves that layer on | `OffOSL`: `LayersSettle` |
| `action.c:439` | one one-shot modifier tapped, another held: the first is registered and never unregistered | `TwoOSM`: `NothingStuck` |
| `action.c:469` | two taps of a one-shot modifier: the last report still has it, and none follows | `RollOSM`, two taps: `HostSettles` |
| `action.c:911` | a key whose code is pressed already, by another key, is first taken out of the report; that report has the one-shot modifiers and uses them up before the key is sent | `SharedCode`: `OneShotUsedOnce` |
| `action_util.c:260` | one-shot modifiers are used up by the release of another key while a third is held (`docs/one_shot_keys.md:3`) | `RollOSM`: `OneShotKept` |
| `action.c:84` | weak modifiers are cleared when an event arrives, not when it leaves the tapping queue: a waiting plain key is sent with those of the key before it | `Shifted`, queue of 4: `OneShotUsedOnce` |

After that lost byte, `buf[32]` does not overflow, since the serial driver queues 128
bytes (`SERIAL_BUFFERS_SIZE`, `platforms/chibios/boards/common/configs/halconf.h:418`)
and a payload is read only when all of it is there; for the same reason the parser waits
for ever. Retries, later events and answers to reports are dropped, also after
waking up, since `ckbt51_init` resets the queue and not the parser. `RetriesSuffice` and
`EventsHandled` except this case (`misled`); `TypeOK` says that there is no other way to
such a length and that it is always more than the driver queues. `MagicMeansGoodData` is
what holds of the magic: the keymap is complete, and written by builds of one date.

The keymaps are in MCActions. Seen, but contradicted by no documentation: a PIN digit
typed in pairing mode waits in the ring until the link is up and is typed into the host;
releasing a host key after the switch was moved to USB does not stop the pairing timer;
a media key during pairing ends pairing; a deferred token kept for long may name another
job; a failed write of the wear-levelling log leaves the cache newer than the store.

## 6. Proofs

All theorems hold for every value of the constants that satisfies the `ASSUME`s
(sizes are positive, the default interval is not shorter than the settling time, and
so on: in each module next to the constants, and evaluated by TLC in every run). Where
a theorem has further hypotheses, they are given here. TLC finds the
inductive invariants to hold on the instances of the modules' runs as well.

**ReportLinkProofs.** One lemma per function of ReportBuffer says what it does to the
record, one per round composes them.

- `TypeCorrect`: `Spec => []TypeOK`.
- `NkroInOrder`: with NKRO on and no consumer reports, `Spec => []InOrder`. `InOrder` is
  the inductive invariant together with the types: the host's last report <= those in
  the module's FIFO <= those on the UART <= `kb_rpt` < those in the ring, oldest first
  (`RingOrdered`, `WireOrdered`). It is stated over the occupied slots of the ring and
  their distance from the tail, so that the proof reduces to how enqueue and dequeue
  change `Occupied` and `Ahead`, for wrapped and unwrapped rings. The argument is that a
  new report is sent at once only if nothing is unanswered, so that what is sent is
  always `kb_rpt`, and `kb_rpt` only moves forward. On the other path this is false.
- `MacroFitsAlways`: `Spec => []MacroFits`, on both paths. The invariant (`Fits`) bounds
  the number of waiting reports by the number of reports since the buffer was idle.
- `SleepsAnsweredAlways`: `Spec => SleepsAnswered`, on both paths. The invariant relates
  timers: after every report the keyboard stays awake longer than the module may take to
  answer (`Pace`), and what is unread or unsent agrees with the state of the link
  (`Linkage`).
- `NkroNothingLost`, `NkroNoStuckKey`: with NKRO on and no consumer reports, if the module
  answers within `RetryGap` and never with a checksum error (`AckBound <= RetryGap`,
  `~Noise`), then `[]NothingLost` and `[]NoStuckKey`. The invariant (`Exchange`) says that
  at most one report is unanswered, that it is `kb_rpt`, and that it has been accepted
  when its answer says so; hence `kb_rpt` is overwritten only after it has left the
  firmware's hands (`AllHeld`). For stuck keys, `Told` says what the host will believe
  once FIFO, UART, `kb_rpt` and ring are delivered in this order. Both conditions are
  needed: TLC finds `NothingLost` violated by `ReportLink.cfg` with `AckBound = 3`, beyond
  its `RetryGap = 2` (the late answer to a repeated report is taken for the answer to the
  next one), and with `Noise = TRUE` (errors use up the retry counter). `ReportLink.cfg`
  itself satisfies them.

**BluetoothProofs.** `TypeCorrect`, `RightHostAlways`, `AgreementAlways`,
`KeysReleasedAlways` (`Spec => []P`) and `BatteryGuardAlways` (an action property), for
all sets of hosts and all bounds on rings, wires and chances. One invariant, `IInv`,
serves the first four. Its parts: reports in the ring and on the UART are for the host
of the link, and there are none without a link unless an unread event says it was lost
(`Right`); the firmware's state is the module's unless an event is unread or a command
is under way (`Agree`); each host will believe what the keyboard holds once all that is
on its way has arrived (`Usb`, `Keys`); the events under way tell a consistent story: a
link that is up is the first thing the firmware reads of it, and what is read last is
what the module is doing (`Heard`, `Resets`). The proof has two layers. Each function of
the firmware is shown to preserve the part about the firmware, `Safe(f, e, D)`, whatever
the surroundings `e`, so that a handler is a chain of such lemmas. Each step of the
module is reduced to few effects: an event is appended, a link comes up, a command is
taken. For `BatteryGuard` the functions are shown to leave the positions of connecting
and pairing commands on the UART unchanged while the battery is critically low (`Calm`).
`KindAssumption` says that the kinds of report are those `report_buffer.h` has, with
keyboard reports among them.

**DeferredExecProofs.** `TypeCorrect`; `TokensUniqueAlways`: `Spec => []TokensUnique`,
because a token is looked up before it is stored, and nothing else writes one;
`NeverForgotten`: without `Rush`, `Spec => []NotForgotten`. The property counts
executors; the inductive invariant `JobsPlaced` says where jobs are: a used executor
holds a pending job that no other holds, each pending job has an executor, and the
callback that runs is in the executor the task is at, or has cancelled itself and left
it free. The last part is what `Rush` breaks. That `Min` of a non-empty set of numbers
is in the set is derived from the well-foundedness of `<` (`LeastExists`).
`RunsOnTimeAlways`: without `Rush`, `Spec => RunsOnTime`, for every period of the clock.
The invariant (`OnTime`) relates the wrapping clock to the waiting times that do not
wrap: trigger time and `now + wait` are equal modulo the period (`Timed`), the task is at
most `MaxLag` late (`Lag`), and a waiting time is never longer than two delays, since a
callback may extend its own job before it returns a further delay (`WasDue`). All that
the task compares then lies within half a period, where the sign of the wrapped
difference is that of the real one.

**FlashEepromProofs.** `TypeCorrect`; `ErasedOnly`: `Spec => ProgramsErasedOnly`;
`DurableHolds`: `Spec => []Durable`; `Implementation`: `Spec => ImplementsEeprom`, the
refinement of Eeprom, with one lemma per action that names the abstract step it is. The
invariant is `TypeOK /\ Shape /\ Erasure /\ Faithful`. `Shape` says which local values
are in use in the middle of an operation; `Erasure` which cells and slots are erased when
the driver relies on it, during a clearing that power may cut; `Faithful` that, unless
harmed, a replay would give the RAM copy but for the write under way, that the slots
before `empty_slot` hold entries about cells that are programmed already, and that all
behind them is blank. The last two are needed because a restart finds the end of the log
by its first blank slot, and because a direct write must not be hidden by an older entry.
What the replay leaves at an address is its last entry for it, so that the proof needs
no induction over the log.

**EeConfigProofs.** `TypeCorrect`; `MagicHolds`: `Spec => []MagicMeansGoodData`;
`FreshHolds`: `Spec => []FreshAfterReset`, for keymaps of any length. Since power may be
lost after any write, the invariant is about the writes still to be made: whenever the
magic is among them, every keymap byte is good already or written before it (`Filled`);
each byte of the magic of another date is removed before the keymap is touched or a magic
written (`Owned`), which keeps bytes of two dates from forming a third; and `GoodData` is
the property for every build, since another may be flashed next. Builds may have any
dates, the same ones too (`DateAssumption`: no byte of a date is 0 or 0xFF). `Fresh` says that a field holds its factory value or will when the list is done.
`KeyBytesAssumption`, that the keymap does not overlap the settings, is how
`DYNAMIC_KEYMAP_EEPROM_ADDR` is defined (`dynamic_keymap.c:63-70`).

**DebounceProofs.** `TypeCorrect`, `SettlesHolds`, `NoChatterHolds`, `PromptHolds` and
`NoiseResistantHolds`, for every matrix, debounce time and length of a scan. The
invariant has one part per algorithm that relates the counter of a key or a row to the
age of its last raw change and of its last report: they add up to DEBOUNCE, exactly or
at least, depending on what starts the counter. `Ticking` says that a running counter is
updated at every scan, without which the sum is not kept.

**ActionsProofs.** The properties of Actions are false of some keymaps (section 5). The
theorems say of which keymaps they are true, for any number of keys and layers, any
length of the tapping queue and any number of counted taps:

- `NothingStuckAlways`: the one-shot modifier keys have the same modifiers, and there is
  no key that turns one-shot keys off beside them (`OneShotAlike`; `TwoOSM` shows why);
- `HostSettlesAlways`: besides, a one-shot modifier key counts one tap (`RollOSM`);
- `LayersSettleAlways`: the one-shot layer keys name one layer below 16, and there is no
  tap-toggle key and no key that turns one-shot keys off beside them (`OneLayer`; `TwoOSL`,
  `HighOSL`, `TapToggleOSL`, `OffOSL`). Of a keymap that toggles layers `LayersSettle` says
  nothing;
- `OneShotUsedOnceAlways`: no two keys have a code in common other than a modifier
  (`SharedCode`), and no key has modifiers of its own or at most two events wait
  (`Shifted`);
- `ActionsTyped`: the types, for every keymap.

The keymaps of the run `actions` satisfy all of these. What the keyboard holds is what
the keys held have added, where a key counts as held until its release has left the
tapping queue, and its action is the one of the layer it was pressed on. So the invariant
`HeldInv` has a witness `H`: which keys are held before each event that waits (`Replay`).
`Held(H[0])` says that keys, modifiers, weak modifiers and layers are within what the
actions of those keys add, with the one-shot state accounted for, and that the last
report shows them. Each action is shown to add what `KeysOf`, `ModsOf` and `LayersOf` say
and to remove as much, in one lemma per function of `action.c` and its helpers. `Paced`
says that weak modifiers are gone when a press is next in a queue of two.

**WearLevelingProofs.** `WritesBlankAlways`, `LogPlaysBackAlways`, `ReadsInsideAlways` and
`Implementation` (the refinement of Eeprom, one lemma per operation), for logs and blocks
of any length and all write sizes. The hypotheses are on the stores:

- `Roomy`: the log has at least one word. The static assertions of
  `wear_leveling_internal.h` alone allow 8 logical and 16 backing bytes, which leave none;
- `Guarded`: power is not lost inside an entry of several words, between two pages of an
  erasure, or before an erasure that the next start could not repeat: the four rows of
  section 5;
- `Atomic`, for the refinement: where power may be lost during a write or before the
  erasure that it causes, a block is no longer than one entry.

The stores of the run `wear_leveling` satisfy them. First, what `EntryBytes` encodes is
decoded by `PlayEntry` as what it was, for each of the three encodings and write sizes
(`PlayHeld`). A log is then described by a `Tape`: a list of positions and caches in which
each entry leads from one to the next. That `Playback` goes along this list needs no
induction: the list itself satisfies the recursive definition, which has one solution
(`TapePlays`, `PlayUnique`). The invariant `Inv` says where the tape ends while each
operation is under way, and that all behind it is blank: with `n` words of an entry
written (`LogInv`), with some pages erased (`EraseInv`), with a part of the consolidated
data written (`DataInv`, `HashInv`), and while power is off (`OffInv`).

**Only model-checked.**

- The liveness properties `Delivered`, `Runs` and `EventsHandled`: liveness under
  fairness is beyond the proof system's backends.
- The safety properties of Uart: what the parser makes of a queue with lost, garbled and
  misleading bytes depends on all frames in it, and a checksum computed with a fold
  needs an induction that the provers cannot do.
- Tapping, whose calls and debts are evaluated with recursive operators, with which the
  prover loses its SMT backend.

## 7. Not modelled

Nearly all of the 378,000 lines of the repository are vendored (CMSIS, device packs),
generated, data (keymaps, fonts, animations), drivers of other microcontrollers, or
features that this keyboard does not enable. There is nothing to state about them that
a state machine would show, and the map covers a small part of the total for that
reason, not because parts of the core were passed over. In particular:

- hardware access (pins, registers, ADC, LED drivers, USB peripheral), animations and
  indicator patterns, factory test commands, the split keyboard transport, and the
  independent quantum features (combos, tap dance, leader, Unicode);
- of the modelled files: LED indication, remote wake-up of the USB host, module
  settings and firmware update; mouse and system reports, which are sent directly and
  never wait; the sending side of the framing, where the pairing interrupt may hit
  the 3 ms in which `ckbt51_send_cmd` waits with a static payload and serial number; AUTO_SHIFT, RETRO_TAPPING and per-key variants of
  the tapping options; swap hands, mouse and consumer actions, one-shot timeouts, and
  the limit of six keys in a report; VIA's lighting and macro playback; the timeouts of
  `flash_stm32.c`; hash collisions of the wear-levelling store.

## 8. Plan

Done: ReportBuffer, ReportLink, Bluetooth, DeferredExec, Eeprom, FlashEeprom, EeConfig,
Tapping, Debounce, Uart, WearLeveling, Actions; the proofs about all of them but Tapping
and Uart. Next, in order:

1. Tapping with folds in place of its recursive operators, and then `PressesInOrder` and
   `NothingStuck` as theorems.
2. Types and bounds of the receiver in Uart.
3. Candidates for further modules: the indicator and battery counters with the timers
   that delay low power mode; the sending side of `ckbt51.c` with the interrupt.
