------------------------------ MODULE Actions ------------------------------
(***************************************************************************)
(* What a key does: quantum/action.c looks up the action of a key event on *)
(* the layer that is active, and carries it out on the modifiers, the      *)
(* layers, the one-shot state (action_util.c) and the report the host sees.*)
(*                                                                         *)
(* A key event first goes through action_exec, then waits in the tapping   *)
(* queue (module Tapping) until the dual-role keys before it are decided,  *)
(* and is processed with the number of taps the queue has counted for it.  *)
(* Here the queue is a FIFO of at most Waiting events and the tap count is *)
(* any number up to its bound: 0 is a hold.                                *)
(*                                                                         *)
(* kb is the state process_action works on.  Bit masks (modifiers, layers, *)
(* keys of a report) are sets.  ONESHOT_TAP_TOGGLE and ONESHOT_TIMEOUT are *)
(* not defined, as in the default configuration.                           *)
(***************************************************************************)
EXTENDS Naturals, Sequences, FiniteSets

CONSTANTS Keys,         \* the physical keys
          Mods,         \* the modifiers: also the keycodes of modifier keys
          Keymaps,      \* keymaps: keymap[layer][key] is an action
          MaxTaps,      \* MaxTaps[kind]: most taps counted for a key of that kind
          TapToggle,    \* TAPPING_TOGGLE
          Waiting       \* events the tapping queue holds


\* (layer_state_t)1 << layer: no bit of the mask when layer is past its width.
Bit(layer) == IF layer < 32 THEN {layer} ELSE {}

\* The states of the one-shot layer: oneshot_fullfillment_t.
ONESHOT_PRESSED           == "pressed"
ONESHOT_OTHER_KEY_PRESSED == "other"
ONESHOT_START             == {ONESHOT_PRESSED, ONESHOT_OTHER_KEY_PRESSED}

NoCode == "KC_NO"

TapKinds == {"MT", "OSM", "LT", "TT", "OSL"}

\* What an action can be: one for each way process_action treats a keycode.
Kinds == TapKinds \cup {"KEY", "OS_TOGG", "MO", "LM", "TG", "TO", "DF", "TRNS"}

\* The keycodes of a keymap.
KeymapCodes(m) == {m[l][k].code : l \in DOMAIN m, k \in Keys}

\* A layer_state_t has 32 bits; an action names layers and modifiers that exist.
ASSUME KeymapAssumption ==
    \A m \in Keymaps :
        /\ 0 \in DOMAIN m /\ DOMAIN m \subseteq 0 .. 31
        /\ \A l \in DOMAIN m, k \in Keys :
               m[l][k] \in [kind : Kinds, layer : DOMAIN m, mods : SUBSET Mods,
                           code : KeymapCodes(m)]

ASSUME TapAssumption ==
    MaxTaps \in [TapKinds -> Nat] /\ TapToggle \in Nat /\ Waiting \in Nat /\ NoCode \notin Mods

VARIABLES keymap,               \* the keymap of the firmware, or of VIA
          kb,                   \* the state of action.c, action_util.c, action_layer.c
          source_layers_cache,  \* the layer each key was last pressed on
          tap,                  \* the taps counted when the key was last pressed
          down,                 \* keys physically down
          waiting               \* key events in the tapping queue

vars == <<keymap, kb, source_layers_cache, tap, down, waiting>>

Layers == DOMAIN keymap
-----------------------------------------------------------------------------
(* action_layer.c *)

layer_on(s, l)  == [s EXCEPT !.layers = @ \cup Bit(l)]
layer_off(s, l) == [s EXCEPT !.layers = @ \ Bit(l)]

layer_invert(s, l) ==
    [s EXCEPT !.layers = IF l \in @ THEN @ \ {l} ELSE @ \cup {l}]

\* The topmost layer on which the key is not transparent, or layer 0.
layer_switch_get_layer(s, k) ==
    LET solid == {l \in s.layers \cup s.default_layers :
                      keymap[l][k].kind # "TRNS"}
    IN  IF solid = {} THEN 0
        ELSE CHOOSE l \in solid : \A m \in solid : m <= l
-----------------------------------------------------------------------------
(* action_util.c *)

\* oneshot_layer_data is an int8_t: a layer of five bits shifts into the sign,
\* and reading it back (>> 3, to uint8_t) gives 224 more than was stored.
get_oneshot_layer(s) == IF s.osl.layer < 16 THEN s.osl.layer ELSE s.osl.layer + 224

OneShotLayerActive(s) == s.osl.state # {}

reset_oneshot_layer(s) == [s EXCEPT !.osl = [layer |-> 0, state |-> {}]]

set_oneshot_layer(s, l) ==
    layer_on(IF s.oneshot_enable
               THEN [s EXCEPT !.osl = [layer |-> l, state |-> ONESHOT_START]]
               ELSE s, l)

ClearKeepsLayer(s, bit) ==
    LET t == [s EXCEPT !.osl.state = @ \ {bit}]
    IN  IF t.osl.state = {} /\ t.osl # s.osl /\ s.oneshot_enable
        THEN layer_off(reset_oneshot_layer(t), get_oneshot_layer(reset_oneshot_layer(t)))
        ELSE t

clear_oneshot_layer_state(s, bit) ==
    LET t == [s EXCEPT !.osl.state = @ \ {bit}]
    IN  IF t.osl.state = {} /\ t.osl # s.osl /\ s.oneshot_enable
        THEN reset_oneshot_layer(layer_off(t, get_oneshot_layer(t)))
        ELSE t

oneshot_set(s, active) ==
    IF s.oneshot_enable = active THEN s
    ELSE clear_oneshot_layer_state([s EXCEPT !.oneshot_enable = active],
                                   ONESHOT_OTHER_KEY_PRESSED)

set_oneshot_mods(s, mods) ==
    IF s.oneshot_enable THEN [s EXCEPT !.oneshot_mods = mods] ELSE s

clear_oneshot_mods(s) == [s EXCEPT !.oneshot_mods = {}]

\* The report of the keys and of every kind of modifier; a report that has a
\* key in it uses the one-shot modifiers up.
send_keyboard_report(s) ==
    [s EXCEPT !.last = [mods |-> s.real_mods \cup s.weak_mods \cup s.oneshot_mods,
                        keys |-> s.keys],
              !.oneshot_mods = IF s.keys # {} THEN {} ELSE @]

register_mods(s, mods) ==
    IF mods = {} THEN s
    ELSE send_keyboard_report([s EXCEPT !.real_mods = @ \cup mods])

unregister_mods(s, mods) ==
    IF mods = {} THEN s
    ELSE send_keyboard_report([s EXCEPT !.real_mods = @ \ mods])

add_key(s, c) == send_keyboard_report([s EXCEPT !.keys = @ \cup {c}])
del_key(s, c) == send_keyboard_report([s EXCEPT !.keys = @ \ {c}])

register_code(s, c) ==
    CASE c = NoCode -> s
      [] c \in Mods -> register_mods(s, {c})
      [] OTHER      -> add_key(IF c \in s.keys THEN del_key(s, c) ELSE s, c)

unregister_code(s, c) ==
    CASE c = NoCode -> s
      [] c \in Mods -> unregister_mods(s, {c})
      [] OTHER      -> del_key(s, c)
-----------------------------------------------------------------------------
(* process_action: one operator for each kind of action, on the state, the *)
(* action, whether the key is pressed, and its taps.                       *)

\* A key, a modifier key, or a key with modifiers of its own: these are weak
\* unless the code is itself a modifier or KC_NO.
ActMods(s, a, pressed) ==
    LET strong == a.code \in Mods \cup {NoCode}
        With(t) == IF a.mods = {} THEN t
                   ELSE IF strong THEN register_mods(t, a.mods)
                   ELSE send_keyboard_report([t EXCEPT !.weak_mods = @ \cup a.mods])
        Without(t) == IF a.mods = {} THEN t
                      ELSE IF strong THEN unregister_mods(t, a.mods)
                      ELSE send_keyboard_report([t EXCEPT !.weak_mods = @ \ a.mods])
    IN  IF pressed THEN register_code(With(s), a.code)
        ELSE Without(unregister_code(s, a.code))

ActOneshotModsReportFirst(s, a, pressed, taps) ==
    CASE pressed -> IF taps = 1 THEN set_oneshot_mods(s, a.mods \cup s.oneshot_mods)
                    ELSE register_mods(s, a.mods \cup s.oneshot_mods)
      [] OTHER   -> IF taps = 1 THEN s
                    ELSE clear_oneshot_mods(unregister_mods(s, a.mods))

\* OSM(mods).  Pressed with one tap it only notes the modifiers.
ActOneshotMods(s, a, pressed, taps) ==
    CASE ~s.oneshot_enable ->
            ActMods(s, [a EXCEPT !.code = NoCode], pressed)
      [] s.oneshot_enable /\ pressed ->
            IF taps = 1 THEN set_oneshot_mods(s, a.mods \cup s.oneshot_mods)
            ELSE register_mods(s, a.mods \cup s.oneshot_mods)
      [] s.oneshot_enable /\ ~pressed ->
            CASE taps = 0 -> unregister_mods(clear_oneshot_mods(s), a.mods)
              [] taps = 1 -> s
              [] OTHER    -> clear_oneshot_mods(unregister_mods(s, a.mods))

\* MT(mods, code).
ActModsTap(s, a, pressed, taps) ==
    CASE taps > 0 /\ pressed  -> register_code(s, a.code)
      [] taps > 0 /\ ~pressed -> unregister_code(s, a.code)
      [] taps = 0 /\ pressed  -> register_mods(s, a.mods)
      [] taps = 0 /\ ~pressed -> unregister_mods(s, a.mods)

\* MO(layer), and LT(layer, code) which is a key when it is tapped.
ActLayerTap(s, a, pressed, taps) ==
    CASE taps > 0 /\ pressed  -> register_code(s, a.code)
      [] taps > 0 /\ ~pressed -> unregister_code(s, a.code)
      [] taps = 0 /\ pressed  -> layer_on(s, a.layer)
      [] taps = 0 /\ ~pressed -> layer_off(s, a.layer)

\* LM(layer, mods).
ActLayerMods(s, a, pressed) ==
    IF pressed THEN register_mods(layer_on(s, a.layer), a.mods)
    ELSE layer_off(unregister_mods(s, a.mods), a.layer)

\* TT(layer).
ActTapToggle(s, a, pressed, taps) ==
    IF (pressed /\ taps < TapToggle) \/ (~pressed /\ taps <= TapToggle)
    THEN layer_invert(s, a.layer) ELSE s

\* OSL(layer).
ActOneshotLayer(s, a, pressed, taps) ==
    CASE ~s.oneshot_enable ->
            IF pressed THEN layer_on(s, a.layer) ELSE layer_off(s, a.layer)
      [] s.oneshot_enable /\ pressed ->
            set_oneshot_layer(layer_on(s, a.layer), a.layer)
      [] s.oneshot_enable /\ ~pressed ->
            LET t == clear_oneshot_layer_state(s, ONESHOT_PRESSED)
            IN  IF taps > 1
                THEN clear_oneshot_layer_state(t, ONESHOT_OTHER_KEY_PRESSED)
                ELSE t

\* TG and DF act when the key is released, TO when it is pressed.
ActLayer(s, a, pressed) ==
    CASE a.kind = "TG" /\ ~pressed -> layer_invert(s, a.layer)
      [] a.kind = "DF" /\ ~pressed -> [s EXCEPT !.default_layers = {a.layer}]
      [] a.kind = "TO" /\ pressed  -> [s EXCEPT !.layers = {a.layer}]
      [] OTHER                     -> s

Act(s, a, pressed, taps) ==
    CASE a.kind \in {"KEY", "OS_TOGG"}      -> ActMods(s, a, pressed)
      [] a.kind = "OSM"                     -> ActOneshotMods(s, a, pressed, taps)
      [] a.kind = "MT"                      -> ActModsTap(s, a, pressed, taps)
      [] a.kind \in {"MO", "LT"}            -> ActLayerTap(s, a, pressed, taps)
      [] a.kind = "LM"                      -> ActLayerMods(s, a, pressed)
      [] a.kind = "TT"                      -> ActTapToggle(s, a, pressed, taps)
      [] a.kind = "OSL"                     -> ActOneshotLayer(s, a, pressed, taps)
      [] a.kind \in {"TG", "TO", "DF"}      -> ActLayer(s, a, pressed)
      [] a.kind = "TRNS"                    -> s

\* The press of a key that is no modifier ends a one-shot layer.
EndsOneShot(s, a, pressed, taps) ==
    /\ pressed /\ s.oneshot_enable /\ OneShotLayerActive(s)
    /\ a.code \notin Mods
    /\ ~(taps = 0 /\ a.kind \in {"MT", "OSM"})

\* If the one-shot layer ended at this press and its key is up, the key is
\* released again in the same call; its own release comes later all the same.
process_action(s, a, pressed, taps) ==
    LET ends    == EndsOneShot(s, a, pressed, taps)
        t       == IF ends THEN clear_oneshot_layer_state(s, ONESHOT_OTHER_KEY_PRESSED)
                   ELSE s
        release == ends /\ ~OneShotLayerActive(t)
        u       == Act(t, a, pressed, taps)
        v       == layer_on(u, get_oneshot_layer(u))
        w       == Act(v, a, FALSE, taps)
    IN  IF release /\ ONESHOT_PRESSED \notin u.osl.state
        THEN layer_off(w, get_oneshot_layer(w)) ELSE u

\* process_record_quantum handles the one-shot keycodes before the action.
process_record(s, a, pressed, taps) ==
    LET t == IF a.kind = "OS_TOGG" /\ pressed
             THEN oneshot_set(s, ~s.oneshot_enable) ELSE s
    IN  process_action(t, a, pressed, taps)
-----------------------------------------------------------------------------
Init ==
    /\ keymap \in Keymaps
    /\ kb = [keys |-> {}, real_mods |-> {}, weak_mods |-> {}, oneshot_mods |-> {},
             osl |-> [layer |-> 0, state |-> {}], layers |-> {},
             default_layers |-> {0}, oneshot_enable |-> TRUE,
             last |-> [mods |-> {}, keys |-> {}]]
    /\ source_layers_cache = [k \in Keys |-> 0]
    /\ tap = [k \in Keys |-> 0]
    /\ down = {}
    /\ waiting = <<>>

CurrentLayer(r) == layer_switch_get_layer(kb, r.key)

\* store_or_get_action: a press looks the layer up and remembers it, a release
\* takes the layer of the press.
SourceLayer(r) ==
    IF r.pressed THEN layer_switch_get_layer(kb, r.key)
    ELSE source_layers_cache[r.key]

\* The queue holds events only while the one at its head is undecided.
CanWait ==
    \/ waiting = <<>>
    \/ /\ Len(waiting) \in 1 .. Waiting - 1
       /\ LET r == Head(waiting)
          IN  r.pressed /\ keymap[SourceLayer(r)][r.key].kind \in TapKinds

ExecKeepsWeak(k) ==
    LET pressed == k \notin down
    IN  /\ CanWait
        /\ down' = IF pressed THEN down \cup {k} ELSE down \ {k}
        /\ waiting' = Append(waiting, [key |-> k, pressed |-> pressed])
        /\ UNCHANGED <<keymap, kb, source_layers_cache, tap>>

\* A key goes down or up: action_exec forgets the weak modifiers of the keys
\* before it, and the event enters the tapping queue.
action_exec(k) ==
    LET pressed == k \notin down
    IN  /\ CanWait
        /\ down' = IF pressed THEN down \cup {k} ELSE down \ {k}
        /\ waiting' = Append(waiting, [key |-> k, pressed |-> pressed])
        /\ kb' = IF pressed THEN [kb EXCEPT !.weak_mods = {}] ELSE kb
        /\ UNCHANGED <<keymap, source_layers_cache, tap>>

\* The next event leaves the queue with the taps counted for its key.
Process ==
    /\ waiting # <<>>
    /\ LET r     == Head(waiting)
           layer == SourceLayer(r)
           a     == keymap[layer][r.key]
       IN  \E taps \in IF r.pressed /\ a.kind \in TapKinds THEN 0 .. MaxTaps[a.kind]
                       ELSE IF r.pressed THEN {0} ELSE {tap[r.key]} :
              /\ kb' = process_record(kb, a, r.pressed, taps)
              /\ source_layers_cache' = [source_layers_cache EXCEPT ![r.key] = layer]
              /\ tap' = [tap EXCEPT ![r.key] = taps]
    /\ waiting' = Tail(waiting)
    /\ UNCHANGED <<keymap, down>>

Next ==
    \/ \E k \in Keys : action_exec(k)
    \/ Process

Spec == Init /\ [][Next]_vars
-----------------------------------------------------------------------------
Idle == down = {} /\ waiting = <<>>

\* The codes and layers the keymap speaks of.
Actions == {keymap[l][k] : l \in Layers, k \in Keys}
Codes   == {a.code : a \in Actions}
Toggles == {a \in Actions : a.kind \in {"TG", "TO", "DF"} \cup
                                      (IF MaxTaps["TT"] < TapToggle THEN {} ELSE {"TT"})}

\* The report holds keycodes of the keymap and modifiers, a one-shot layer that
\* is waiting for its key is a layer of the keymap, and the modifiers and keys
\* of the keyboard are what the report last sent was made from.
TypeOK ==
    /\ kb.keys \subseteq Codes \ (Mods \cup {NoCode})
    /\ kb.real_mods \cup kb.weak_mods \cup kb.oneshot_mods \subseteq Mods
    /\ kb.layers \cup kb.default_layers \subseteq Layers
    /\ kb.osl.layer \in Layers /\ kb.osl.state \subseteq ONESHOT_START
    /\ kb.last.keys = kb.keys /\ kb.real_mods \subseteq kb.last.mods
    /\ source_layers_cache \in [Keys -> Layers]

\* When every key is up, no keycode and no modifier of a key is still
\* registered, whatever layers and roles the keys were pressed and released on:
\* the release undoes what the press did (store_or_get_action, process_action).
NothingStuck == Idle => kb.keys = {} /\ kb.real_mods = {}

\* When every key is up, the host has no key down, and no modifier but those a
\* one-shot key keeps for the next key.  (Two taps of a one-shot modifier leave it down: the
\* bound of its taps is 1.)
HostSettles == Idle => kb.last.keys = {} /\ kb.last.mods \subseteq kb.oneshot_mods

\* When every key of a keymap without layer toggles is up, the only layer still
\* on is the one a one-shot key keeps for the next key.
LayersSettle ==
    Idle /\ Toggles = {} => kb.layers \subseteq IF OneShotLayerActive(kb) THEN {kb.osl.layer} ELSE {}

\* A plain key that goes down reaches the host with the modifiers that are held
\* and the one-shot modifiers waiting for it, never with the weak modifiers of
\* another key, and uses the one-shot modifiers up.
OneShotUsedOnce ==
    [][ \A r \in {waiting[i] : i \in 1 .. Len(waiting)} :
          LET a == keymap[SourceLayer(r)][r.key]
          IN  /\ waiting' = Tail(waiting) /\ r = Head(waiting) /\ r.pressed
              /\ a.kind = "KEY" /\ a.mods = {} /\ a.code \in kb'.last.keys
              => /\ kb'.last.mods = kb.real_mods \cup kb.oneshot_mods
                 /\ kb'.oneshot_mods = {} ]_vars

\* One-shot modifiers wait for the next key press: the release of a key that is
\* not the one-shot key leaves them (docs/one_shot_keys.md).
OneShotKept ==
    [][ \A r \in {waiting[i] : i \in 1 .. Len(waiting)} :
          /\ waiting' = Tail(waiting) /\ r = Head(waiting) /\ ~r.pressed
          /\ keymap[SourceLayer(r)][r.key].kind # "OSM"
          => kb'.oneshot_mods = kb.oneshot_mods ]_vars

=============================================================================
