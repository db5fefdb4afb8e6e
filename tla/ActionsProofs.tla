--------------------------- MODULE ActionsProofs ---------------------------
(***************************************************************************)
(* Proofs about Actions, for every set of keys and every keymap that meets *)
(* the conditions the theorems state.                                      *)
(*                                                                         *)
(* Each function of the firmware maps a state to a state; a lemma says     *)
(* what it does to the keys and modifiers (first part) or to the layers    *)
(* (second part).  What a held key may have added is a set that depends on *)
(* its action and its taps alone, and the invariants say that the state    *)
(* has nothing but what the held keys have added.                          *)
(***************************************************************************)
EXTENDS Actions, WellFoundedInduction, TLAPS

\* The states of action.c for a keymap with the layers D and the codes C.
State(D, C) ==
    [keys : SUBSET C, real_mods : SUBSET Mods, weak_mods : SUBSET Mods,
     oneshot_mods : SUBSET Mods, osl : [layer : D, state : SUBSET ONESHOT_START],
     layers : SUBSET D, default_layers : SUBSET D, oneshot_enable : BOOLEAN,
     last : [mods : SUBSET Mods, keys : SUBSET C]]

Action(D, C) == [kind : Kinds, layer : D, mods : SUBSET Mods, code : C \cup {NoCode}]

LayerSet(D) == 0 \in D /\ D \subseteq 0 .. 31

SameLayers(s, t) ==
    /\ t.layers = s.layers /\ t.default_layers = s.default_layers
    /\ t.osl = s.osl /\ t.oneshot_enable = s.oneshot_enable

SameReport(s, t) ==
    /\ t.keys = s.keys /\ t.real_mods = s.real_mods /\ t.weak_mods = s.weak_mods
    /\ t.oneshot_mods = s.oneshot_mods /\ t.last = s.last

\* The host has the keys of the keyboard.
Shown(s) == s.last.keys = s.keys

\* The host has the keys of the keyboard; when there are none, no modifiers but
\* those registered, those a one-shot key keeps, and those of W.
Reported(s, W) ==
    /\ Shown(s)
    /\ s.weak_mods \subseteq W
    /\ s.keys = {} => s.last.mods \subseteq s.real_mods \cup s.oneshot_mods \cup W

\* A code registers as a key, as a modifier, or not at all.
KeyOf(c) == {c} \ (Mods \cup {NoCode})
ModOf(c) == {c} \cap Mods
-----------------------------------------------------------------------------
(* Keys and modifiers. *)

LEMMA SendEffect ==
    ASSUME NEW D, NEW C, NEW s \in State(D, C)
    PROVE  LET t == send_keyboard_report(s)
           IN  /\ t \in State(D, C) /\ SameLayers(s, t)
               /\ t.keys = s.keys /\ t.real_mods = s.real_mods /\ t.weak_mods = s.weak_mods
               /\ t.oneshot_mods = IF s.keys # {} THEN {} ELSE s.oneshot_mods
               /\ t.last.keys = s.keys
               /\ t.last.mods = s.real_mods \cup s.weak_mods \cup s.oneshot_mods
<1> DEFINE l == [mods |-> s.real_mods \cup s.weak_mods \cup s.oneshot_mods, keys |-> s.keys]
           o == IF s.keys # {} THEN {} ELSE s.oneshot_mods
<1>1. l \in [mods : SUBSET Mods, keys : SUBSET C] /\ o \in SUBSET Mods
  BY DEF State
<1>2. send_keyboard_report(s) = [s EXCEPT !.last = l, !.oneshot_mods = o]
  BY DEF send_keyboard_report
<1>3. l.keys = s.keys /\ l.mods = s.real_mods \cup s.weak_mods \cup s.oneshot_mods
  OBVIOUS
<1> HIDE DEF l, o
<1>4. [s EXCEPT !.last = l, !.oneshot_mods = o] \in State(D, C)
  BY <1>1 DEF State
<1> QED
  BY <1>2, <1>3, <1>4 DEF State, SameLayers, o

\* Every report that is sent accounts for the keys and modifiers of the keyboard.
LEMMA SendReports ==
    ASSUME NEW D, NEW C, NEW s \in State(D, C), NEW W, s.weak_mods \subseteq W
    PROVE  Reported(send_keyboard_report(s), W) /\ Shown(send_keyboard_report(s))
<1> DEFINE t == send_keyboard_report(s)
<1>1. /\ t.keys = s.keys /\ t.real_mods = s.real_mods /\ t.weak_mods = s.weak_mods
      /\ t.oneshot_mods = IF s.keys # {} THEN {} ELSE s.oneshot_mods
      /\ t.last.keys = s.keys
      /\ t.last.mods = s.real_mods \cup s.weak_mods \cup s.oneshot_mods
  BY SendEffect
<1> HIDE DEF t
<1>2. Reported(t, W) /\ Shown(t)
  BY <1>1 DEF Reported, Shown
<1> QED
  BY <1>2 DEF t

\* A function changes keys and modifiers, and tells the host of it.
Registers(s, t, keys, mods) ==
    /\ SameLayers(s, t)
    /\ t.keys = keys /\ t.real_mods = mods
    /\ t.weak_mods = s.weak_mods /\ t.oneshot_mods \subseteq s.oneshot_mods
    /\ Shown(s) => Shown(t)
    /\ \A W : Reported(s, W) => Reported(t, W)

LEMMA RegistersTrans ==
    ASSUME NEW s, NEW t, NEW u, NEW k1, NEW m1, NEW k2, NEW m2,
           Registers(s, t, k1, m1), Registers(t, u, k2, m2)
    PROVE  Registers(s, u, k2, m2)
BY DEF Registers, SameLayers

LEMMA RegistersSelf ==
    ASSUME NEW D, NEW C, NEW s \in State(D, C)
    PROVE  Registers(s, s, s.keys, s.real_mods)
BY DEF Registers, SameLayers

\* A state with other registered modifiers, or other keys, and its report.
LEMMA SendMods ==
    ASSUME NEW D, NEW C, NEW s \in State(D, C), NEW m \in SUBSET Mods
    PROVE  LET t == send_keyboard_report([s EXCEPT !.real_mods = m])
           IN  t \in State(D, C) /\ Registers(s, t, s.keys, m)
<1> DEFINE v == [s EXCEPT !.real_mods = m]
           t == send_keyboard_report(v)
<1>1. /\ v \in State(D, C) /\ v.real_mods = m /\ v.keys = s.keys /\ v.weak_mods = s.weak_mods
      /\ v.oneshot_mods = s.oneshot_mods /\ SameLayers(s, v)
  BY DEF State, SameLayers
<1> HIDE DEF v
<1>2. /\ t \in State(D, C) /\ SameLayers(v, t) /\ t.keys = v.keys /\ t.real_mods = v.real_mods
      /\ t.weak_mods = v.weak_mods
      /\ t.oneshot_mods = IF v.keys # {} THEN {} ELSE v.oneshot_mods
  BY <1>1, SendEffect
<1>3. Shown(t) /\ \A W : Reported(s, W) => Reported(t, W)
  BY <1>1, SendReports DEF Reported
<1> HIDE DEF t
<1>4. t \in State(D, C) /\ Registers(s, t, s.keys, m)
  BY <1>1, <1>2, <1>3 DEF Registers, SameLayers
<1> QED
  BY <1>4 DEF t, v

LEMMA SendKeys ==
    ASSUME NEW D, NEW C, NEW s \in State(D, C), NEW k \in SUBSET C
    PROVE  LET t == send_keyboard_report([s EXCEPT !.keys = k])
           IN  t \in State(D, C) /\ Registers(s, t, k, s.real_mods)
<1> DEFINE v == [s EXCEPT !.keys = k]
           t == send_keyboard_report(v)
<1>1. /\ v \in State(D, C) /\ v.keys = k /\ v.real_mods = s.real_mods /\ v.weak_mods = s.weak_mods
      /\ v.oneshot_mods = s.oneshot_mods /\ SameLayers(s, v)
  BY DEF State, SameLayers
<1> HIDE DEF v
<1>2. /\ t \in State(D, C) /\ SameLayers(v, t) /\ t.keys = v.keys /\ t.real_mods = v.real_mods
      /\ t.weak_mods = v.weak_mods
      /\ t.oneshot_mods = IF v.keys # {} THEN {} ELSE v.oneshot_mods
  BY <1>1, SendEffect
<1>3. Shown(t) /\ \A W : Reported(s, W) => Reported(t, W)
  BY <1>1, SendReports DEF Reported
<1> HIDE DEF t
<1>4. t \in State(D, C) /\ Registers(s, t, k, s.real_mods)
  BY <1>1, <1>2, <1>3 DEF Registers, SameLayers
<1> QED
  BY <1>4 DEF t, v

LEMMA RegisterMods ==
    ASSUME NEW D, NEW C, NEW s \in State(D, C), NEW m \in SUBSET Mods
    PROVE  LET t == register_mods(s, m)
           IN  t \in State(D, C) /\ Registers(s, t, s.keys, s.real_mods \cup m)
<1>1. s.real_mods \cup m \in SUBSET Mods
  BY DEF State
<1>2. CASE m = {}
  BY <1>2, RegistersSelf DEF register_mods
<1>3. CASE m # {}
  BY <1>1, <1>3, SendMods DEF register_mods
<1> QED
  BY <1>2, <1>3

LEMMA UnregisterMods ==
    ASSUME NEW D, NEW C, NEW s \in State(D, C), NEW m \in SUBSET Mods
    PROVE  LET t == unregister_mods(s, m)
           IN  t \in State(D, C) /\ Registers(s, t, s.keys, s.real_mods \ m)
<1>1. s.real_mods \ m \in SUBSET Mods
  BY DEF State
<1>2. CASE m = {}
  BY <1>2, RegistersSelf DEF unregister_mods
<1>3. CASE m # {}
  BY <1>1, <1>3, SendMods DEF unregister_mods
<1> QED
  BY <1>2, <1>3

LEMMA RegisterCode ==
    ASSUME NEW D, NEW C, NEW s \in State(D, C), NEW c \in C \cup {NoCode}
    PROVE  LET t == register_code(s, c)
           IN  /\ t \in State(D, C)
               /\ Registers(s, t, s.keys \cup KeyOf(c), s.real_mods \cup ModOf(c))
<1>1. CASE c = NoCode
  <2>1. register_code(s, c) = s /\ KeyOf(c) = {} /\ ModOf(c) = {}
    BY <1>1, TapAssumption DEF register_code, KeyOf, ModOf
  <2> QED
    BY <2>1, RegistersSelf
<1>2. CASE c # NoCode /\ c \in Mods
  <2>1. register_code(s, c) = register_mods(s, {c}) /\ KeyOf(c) = {} /\ ModOf(c) = {c}
    BY <1>2 DEF register_code, KeyOf, ModOf
  <2> QED
    BY <1>2, <2>1, RegisterMods
<1>3. CASE c # NoCode /\ c \notin Mods
  <2>1. KeyOf(c) = {c} /\ ModOf(c) = {} /\ c \in C
    BY <1>3 DEF KeyOf, ModOf
  <2>2. ASSUME NEW v \in State(D, C)
        PROVE  add_key(v, c) \in State(D, C) /\ Registers(v, add_key(v, c), v.keys \cup {c}, v.real_mods)
    <3>1. v.keys \cup {c} \in SUBSET C
      BY <2>1 DEF State
    <3> QED
      BY <3>1, SendKeys DEF add_key
  <2>3. CASE c \in s.keys
    <3> DEFINE v == del_key(s, c)
    <3>1. register_code(s, c) = add_key(v, c)
      BY <1>3, <2>3 DEF register_code
    <3>2. s.keys \ {c} \in SUBSET C
      BY DEF State
    <3>3. v \in State(D, C) /\ Registers(s, v, s.keys \ {c}, s.real_mods)
      BY <3>2, SendKeys DEF del_key
    <3> HIDE DEF v
    <3>4. add_key(v, c) \in State(D, C) /\ Registers(v, add_key(v, c), v.keys \cup {c}, v.real_mods)
      BY <2>2, <3>3
    <3>5. v.keys \cup {c} = s.keys \cup {c} /\ v.real_mods = s.real_mods
      BY <3>3 DEF Registers
    <3>6. Registers(s, add_key(v, c), s.keys \cup {c}, s.real_mods)
      BY <3>3, <3>4, <3>5, RegistersTrans
    <3> QED
      BY <2>1, <3>1, <3>4, <3>6
  <2>4. CASE c \notin s.keys
    <3>1. register_code(s, c) = add_key(s, c)
      BY <1>3, <2>4 DEF register_code
    <3> QED
      BY <2>1, <2>2, <3>1
  <2> QED
    BY <2>3, <2>4
<1> QED
  BY <1>1, <1>2, <1>3

LEMMA UnregisterCode ==
    ASSUME NEW D, NEW C, NEW s \in State(D, C), NEW c \in C \cup {NoCode}
    PROVE  LET t == unregister_code(s, c)
           IN  /\ t \in State(D, C)
               /\ Registers(s, t, s.keys \ KeyOf(c), s.real_mods \ ModOf(c))
<1>1. CASE c = NoCode
  <2>1. unregister_code(s, c) = s /\ KeyOf(c) = {} /\ ModOf(c) = {}
    BY <1>1, TapAssumption DEF unregister_code, KeyOf, ModOf
  <2> QED
    BY <2>1, RegistersSelf
<1>2. CASE c # NoCode /\ c \in Mods
  <2>1. unregister_code(s, c) = unregister_mods(s, {c}) /\ KeyOf(c) = {} /\ ModOf(c) = {c}
    BY <1>2 DEF unregister_code, KeyOf, ModOf
  <2> QED
    BY <1>2, <2>1, UnregisterMods
<1>3. CASE c # NoCode /\ c \notin Mods
  <2>1. KeyOf(c) = {c} /\ ModOf(c) = {} /\ c \in C
    BY <1>3 DEF KeyOf, ModOf
  <2>2. unregister_code(s, c) = del_key(s, c)
    BY <1>3 DEF unregister_code
  <2>3. s.keys \ {c} \in SUBSET C
    BY DEF State
  <2>4. del_key(s, c) \in State(D, C) /\ Registers(s, del_key(s, c), s.keys \ {c}, s.real_mods)
    BY <2>3, SendKeys DEF del_key
  <2> QED
    BY <2>1, <2>2, <2>4
<1> QED
  BY <1>1, <1>2, <1>3
-----------------------------------------------------------------------------
(* Layers: what the functions of action_layer.c and the one-shot layer do. *)

LEMMA BitOf ==
    ASSUME NEW D, LayerSet(D), NEW l \in D
    PROVE  Bit(l) = {l} /\ l \in Nat
BY DEF LayerSet, Bit

LEMMA LayerOn ==
    ASSUME NEW D, NEW C, NEW s \in State(D, C), NEW l, Bit(l) \subseteq D
    PROVE  LET t == layer_on(s, l)
           IN  /\ t \in State(D, C) /\ SameReport(s, t) /\ t.oneshot_enable = s.oneshot_enable
               /\ t.osl = s.osl /\ t.layers = s.layers \cup Bit(l)
BY DEF State, layer_on, SameReport

LEMMA LayerOff ==
    ASSUME NEW D, NEW C, NEW s \in State(D, C), NEW l
    PROVE  LET t == layer_off(s, l)
           IN  /\ t \in State(D, C) /\ SameReport(s, t) /\ t.oneshot_enable = s.oneshot_enable
               /\ t.osl = s.osl /\ t.layers = s.layers \ Bit(l)
BY DEF State, layer_off, SameReport

LEMMA LayerInvert ==
    ASSUME NEW D, NEW C, NEW s \in State(D, C), NEW l \in D
    PROVE  LET t == layer_invert(s, l)
           IN  /\ t \in State(D, C) /\ SameReport(s, t) /\ t.oneshot_enable = s.oneshot_enable
               /\ t.osl = s.osl
BY DEF State, layer_invert, SameReport

LEMMA LayerSets ==
    ASSUME NEW D, NEW C, NEW s \in State(D, C), NEW l \in D
    PROVE  \A t : t = [s EXCEPT !.default_layers = {l}] \/ t = [s EXCEPT !.layers = {l}] =>
               /\ t \in State(D, C) /\ SameReport(s, t)
               /\ t.oneshot_enable = s.oneshot_enable /\ t.osl = s.osl
BY DEF State, SameReport

\* The one-shot layer that is read back is the one stored, or past the width of
\* the layer state.
LEMMA OneShotBit ==
    ASSUME NEW D, NEW C, LayerSet(D), NEW s \in State(D, C)
    PROVE  /\ s.osl.layer \in D
           /\ Bit(get_oneshot_layer(s)) \subseteq {s.osl.layer}
           /\ s.osl.layer < 16 => Bit(get_oneshot_layer(s)) = {s.osl.layer}
<1>1. s.osl.layer \in D /\ s.osl.layer \in 0 .. 31
  BY DEF State, LayerSet
<1> QED
  BY <1>1 DEF Bit, get_oneshot_layer

LEMMA SetOsl ==
    ASSUME NEW D, NEW C, NEW s \in State(D, C),
           NEW x \in [layer : D, state : SUBSET ONESHOT_START]
    PROVE  LET t == [s EXCEPT !.osl = x]
           IN  /\ t \in State(D, C) /\ SameReport(s, t) /\ t.oneshot_enable = s.oneshot_enable
               /\ t.layers = s.layers /\ t.osl = x
BY DEF State, SameReport

\* What ending one state of the one-shot layer leaves: either the layer stays
\* as it is, or it is switched off and nothing of it is left.
OneShotEnds(s, t, bit) ==
    \/ /\ t.layers = s.layers /\ t.osl.layer = s.osl.layer
       /\ t.osl.state = s.osl.state \ {bit}
       /\ t.osl.state = {} /\ s.oneshot_enable => s.osl.state = {}
    \/ /\ t.layers = s.layers \ Bit(get_oneshot_layer(s))
       /\ t.osl.layer = 0 /\ t.osl.state = {}
       /\ s.osl.state \ {bit} = {}

LEMMA ClearState ==
    ASSUME NEW D, NEW C, LayerSet(D), NEW s \in State(D, C), NEW bit
    PROVE  LET t == clear_oneshot_layer_state(s, bit)
           IN  /\ t \in State(D, C) /\ SameReport(s, t) /\ t.oneshot_enable = s.oneshot_enable
               /\ OneShotEnds(s, t, bit)
<1> DEFINE x == [layer |-> s.osl.layer, state |-> s.osl.state \ {bit}]
           v == [s EXCEPT !.osl = x]
           z == [layer |-> 0, state |-> {}]
           w == layer_off(v, get_oneshot_layer(v))
           u == [w EXCEPT !.osl = z]
<1>1. s.osl \in [layer : D, state : SUBSET ONESHOT_START]
  BY DEF State
<1>2. x \in [layer : D, state : SUBSET ONESHOT_START] /\ [s.osl EXCEPT !.state = @ \ {bit}] = x
  BY <1>1
<1>3. z \in [layer : D, state : SUBSET ONESHOT_START]
  BY DEF LayerSet
<1>4. [s EXCEPT !.osl.state = @ \ {bit}] = v
  BY <1>1, <1>2 DEF State
<1>5. x.layer = s.osl.layer /\ x.state = s.osl.state \ {bit} /\ z.layer = 0 /\ z.state = {}
  OBVIOUS
<1>6. x = s.osl <=> x.state = s.osl.state
  BY <1>1
<1>7. clear_oneshot_layer_state(s, bit) =
         IF v.osl.state = {} /\ v.osl # s.osl /\ s.oneshot_enable THEN u ELSE v
  BY <1>4 DEF clear_oneshot_layer_state, reset_oneshot_layer
<1> HIDE DEF x, z
<1>8. /\ v \in State(D, C) /\ SameReport(s, v) /\ v.oneshot_enable = s.oneshot_enable
      /\ v.layers = s.layers /\ v.osl = x
  BY <1>2, SetOsl
<1>9. get_oneshot_layer(v) = get_oneshot_layer(s)
  BY <1>5, <1>8 DEF get_oneshot_layer
<1> HIDE DEF v
<1>10. /\ w \in State(D, C) /\ SameReport(v, w) /\ w.oneshot_enable = v.oneshot_enable
       /\ w.layers = v.layers \ Bit(get_oneshot_layer(s))
  BY <1>8, <1>9, LayerOff
<1> HIDE DEF w
<1>11. /\ u \in State(D, C) /\ SameReport(w, u) /\ u.oneshot_enable = w.oneshot_enable
       /\ u.layers = w.layers /\ u.osl = z
  BY <1>3, <1>10, SetOsl
<1> HIDE DEF u
<1>12. CASE v.osl.state = {} /\ v.osl # s.osl /\ s.oneshot_enable
  BY <1>5, <1>7, <1>8, <1>10, <1>11, <1>12 DEF SameReport, OneShotEnds
<1>13. CASE ~(v.osl.state = {} /\ v.osl # s.osl /\ s.oneshot_enable)
  BY <1>5, <1>6, <1>7, <1>8, <1>13 DEF SameReport, OneShotEnds
<1> QED
  BY <1>12, <1>13

LEMMA SetOneshotLayer ==
    ASSUME NEW D, NEW C, LayerSet(D), NEW s \in State(D, C), NEW l \in D
    PROVE  LET t == set_oneshot_layer(s, l)
           IN  /\ t \in State(D, C) /\ SameReport(s, t) /\ t.oneshot_enable = s.oneshot_enable
               /\ t.layers = s.layers \cup {l}
               /\ s.oneshot_enable => t.osl.layer = l /\ t.osl.state = ONESHOT_START
<1> DEFINE x == [layer |-> l, state |-> ONESHOT_START]
           v == IF s.oneshot_enable THEN [s EXCEPT !.osl = x] ELSE s
<1>1. x \in [layer : D, state : SUBSET ONESHOT_START] /\ x.layer = l /\ x.state = ONESHOT_START
  OBVIOUS
<1>2. set_oneshot_layer(s, l) = layer_on(v, l)
  BY DEF set_oneshot_layer
<1> HIDE DEF x
<1>3. /\ v \in State(D, C) /\ SameReport(s, v) /\ v.oneshot_enable = s.oneshot_enable
      /\ v.layers = s.layers
      /\ s.oneshot_enable => v.osl = x
  BY <1>1, SetOsl DEF SameReport
<1> HIDE DEF v
<1>4. Bit(l) = {l} /\ Bit(l) \subseteq D
  BY BitOf
<1>5. /\ layer_on(v, l) \in State(D, C) /\ SameReport(v, layer_on(v, l))
      /\ layer_on(v, l).oneshot_enable = v.oneshot_enable
      /\ layer_on(v, l).osl = v.osl /\ layer_on(v, l).layers = v.layers \cup {l}
  BY <1>3, <1>4, LayerOn
<1> QED
  BY <1>1, <1>2, <1>3, <1>5 DEF SameReport
-----------------------------------------------------------------------------
(* What a key adds when it is pressed with n taps: keys, registered and    *)
(* weak modifiers.  The same is taken away when it is released.            *)

Strong(a) == a.code \in Mods \cup {NoCode}

Plain(a) == a.kind \in {"KEY", "OS_TOGG"}

Taps(a, n) == a.kind \in {"MT", "MO", "LT"} /\ n > 0

KeysOf(a, n) == IF Plain(a) \/ Taps(a, n) THEN KeyOf(a.code) ELSE {}

ModsOf(a, n) ==
    (IF Plain(a) \/ Taps(a, n) THEN ModOf(a.code) ELSE {})
    \cup (IF \/ Plain(a) /\ Strong(a)
             \/ a.kind = "LM"
             \/ a.kind = "MT" /\ n = 0
             \/ a.kind = "OSM" /\ n # 1
          THEN a.mods ELSE {})

WeakOf(a) == IF Plain(a) /\ ~Strong(a) THEN a.mods ELSE {}

\* The one-shot modifiers are those of the one-shot keys, and are in use.
OneShotFits(s, a) == a.kind = "OSM" => s.oneshot_enable /\ s.oneshot_mods \subseteq a.mods

\* The keys, modifiers and weak modifiers that a step from s to t adds at most.
\* The modifiers are known if those of the one-shot keys are; the report follows
\* unless a one-shot modifier was tapped twice.
Adds(s, t, a, n) ==
    /\ t.keys \subseteq s.keys \cup KeysOf(a, n)
    /\ t.weak_mods \subseteq s.weak_mods \cup WeakOf(a)
    /\ Shown(s) => Shown(t)
    /\ OneShotFits(s, a) =>
           /\ t.real_mods \subseteq s.real_mods \cup ModsOf(a, n)
           /\ t.oneshot_mods \subseteq IF a.kind = "OSM" THEN a.mods ELSE s.oneshot_mods
           /\ (a.kind = "OSM" => n =< 1) =>
                  \A W : Reported(s, W) => Reported(t, W \cup WeakOf(a))

\* What it takes away at least.
Removes(s, t, a, n) ==
    /\ t.keys \subseteq s.keys \ KeysOf(a, n)
    /\ t.weak_mods \subseteq s.weak_mods
    /\ Shown(s) => Shown(t)
    /\ OneShotFits(s, a) =>
           /\ t.real_mods \subseteq s.real_mods \ ModsOf(a, n)
           /\ t.oneshot_mods \subseteq s.oneshot_mods
           /\ (a.kind = "OSM" => n =< 1) =>
                  \A W : Reported(s, W \cup WeakOf(a)) => Reported(t, W)

\* Functions that leave keys and modifiers alone.
LEMMA NothingAdded ==
    ASSUME NEW s, NEW t, NEW a, NEW n, SameReport(s, t), a.kind # "OSM"
    PROVE  Adds(s, t, a, n)
BY DEF SameReport, Adds, Reported, Shown

LEMMA NothingRemoved ==
    ASSUME NEW s, NEW t, NEW a, NEW n, SameReport(s, t), KeysOf(a, n) = {}, ModsOf(a, n) = {},
           WeakOf(a) = {}
    PROVE  Removes(s, t, a, n)
<1>1. \A W : W \cup WeakOf(a) = W
  OBVIOUS
<1> QED
  BY <1>1 DEF SameReport, Removes, Reported, Shown

\* Keys and registered modifiers, without weak ones.
LEMMA RegistersAdds ==
    ASSUME NEW s, NEW t, NEW a, NEW n, NEW k, NEW m, Registers(s, t, k, m),
           k \subseteq s.keys \cup KeysOf(a, n), m \subseteq s.real_mods \cup ModsOf(a, n)
    PROVE  Adds(s, t, a, n)
<1>1. \A W : Reported(t, W) => Reported(t, W \cup WeakOf(a))
  BY DEF Reported
<1> QED
  BY <1>1 DEF Registers, Adds, OneShotFits

LEMMA RegistersRemoves ==
    ASSUME NEW s, NEW t, NEW a, NEW n, NEW k, NEW m, Registers(s, t, k, m),
           k \subseteq s.keys \ KeysOf(a, n), m \subseteq s.real_mods \ ModsOf(a, n),
           WeakOf(a) = {}
    PROVE  Removes(s, t, a, n)
<1>1. \A W : W \cup WeakOf(a) = W
  OBVIOUS
<1> QED
  BY <1>1 DEF Registers, Removes

\* Weak modifiers, with the report they are sent in.
SentWeak(s, t, m) ==
    /\ SameLayers(s, t) /\ t.keys = s.keys /\ t.real_mods = s.real_mods /\ t.weak_mods = m
    /\ t.oneshot_mods \subseteq s.oneshot_mods
    /\ Shown(t) /\ \A W : m \subseteq W => Reported(t, W)

LEMMA SendWeak ==
    ASSUME NEW D, NEW C, NEW s \in State(D, C), NEW m \in SUBSET Mods
    PROVE  LET t == send_keyboard_report([s EXCEPT !.weak_mods = m])
           IN  t \in State(D, C) /\ SentWeak(s, t, m)
<1> DEFINE v == [s EXCEPT !.weak_mods = m]
           t == send_keyboard_report(v)
<1>1. /\ v \in State(D, C) /\ v.weak_mods = m /\ v.keys = s.keys /\ v.real_mods = s.real_mods
      /\ v.oneshot_mods = s.oneshot_mods /\ SameLayers(s, v)
  BY DEF State, SameLayers
<1> HIDE DEF v
<1>2. /\ t \in State(D, C) /\ SameLayers(v, t) /\ t.keys = v.keys /\ t.real_mods = v.real_mods
      /\ t.weak_mods = v.weak_mods
      /\ t.oneshot_mods = IF v.keys # {} THEN {} ELSE v.oneshot_mods
  BY <1>1, SendEffect
<1>3. Shown(t) /\ \A W : m \subseteq W => Reported(t, W)
  BY <1>1, SendReports
<1> HIDE DEF t
<1>4. t \in State(D, C) /\ SentWeak(s, t, m)
  BY <1>1, <1>2, <1>3 DEF SameLayers, SentWeak
<1> QED
  BY <1>4 DEF t, v

\* What every function of process_action keeps: types, and whether one-shot keys
\* are in use.
Keeps(D, C, s, t) == t \in State(D, C) /\ t.oneshot_enable = s.oneshot_enable

LEMMA ActionType ==
    ASSUME NEW D, NEW C, NEW a \in Action(D, C)
    PROVE  /\ a.mods \in SUBSET Mods /\ a.code \in C \cup {NoCode} /\ a.layer \in D
           /\ a.kind \in Kinds
BY DEF Action

LEMMA ActModsPress ==
    ASSUME NEW D, NEW C, NEW s \in State(D, C), NEW a \in Action(D, C), NEW n, Plain(a)
    PROVE  LET t == ActMods(s, a, TRUE)
           IN  Keeps(D, C, s, t) /\ SameLayers(s, t) /\ Adds(s, t, a, n)
<1>a. a.mods \in SUBSET Mods /\ a.code \in C \cup {NoCode} /\ a.kind # "OSM"
  BY ActionType DEF Plain
<1> DEFINE v == IF a.mods = {} THEN s
                ELSE IF Strong(a) THEN register_mods(s, a.mods)
                ELSE send_keyboard_report([s EXCEPT !.weak_mods = @ \cup a.mods])
           t == register_code(v, a.code)
<1>1. ActMods(s, a, TRUE) = t
  BY DEF ActMods, Strong
<1>2. /\ v \in State(D, C) /\ SameLayers(s, v) /\ v.keys = s.keys
      /\ v.real_mods \subseteq s.real_mods \cup (IF Strong(a) THEN a.mods ELSE {})
      /\ v.oneshot_mods \subseteq s.oneshot_mods
      /\ v.weak_mods \subseteq s.weak_mods \cup WeakOf(a)
      /\ Shown(s) => Shown(v)
      /\ \A W : Reported(s, W) => Reported(v, W \cup WeakOf(a))
  <2>1. CASE a.mods = {}
    BY <2>1 DEF SameLayers, Reported
  <2>2. CASE a.mods # {} /\ Strong(a)
    <3>1. v = register_mods(s, a.mods) /\ WeakOf(a) = {}
      BY <2>2 DEF WeakOf
    <3>2. v \in State(D, C) /\ Registers(s, v, s.keys, s.real_mods \cup a.mods)
      BY <1>a, <3>1, RegisterMods
    <3>3. \A W : W \cup WeakOf(a) = W
      BY <3>1
    <3> HIDE DEF v
    <3> QED
      BY <2>2, <3>2, <3>3 DEF Registers
  <2>3. CASE a.mods # {} /\ ~Strong(a)
    <3>1. v = send_keyboard_report([s EXCEPT !.weak_mods = s.weak_mods \cup a.mods])
      BY <2>3
    <3>2. s.weak_mods \cup a.mods \in SUBSET Mods
      BY <1>a DEF State
    <3>3. v \in State(D, C) /\ SentWeak(s, v, s.weak_mods \cup a.mods)
      BY <3>1, <3>2, SendWeak
    <3> HIDE DEF v
    <3>4. WeakOf(a) = a.mods
      BY <2>3 DEF WeakOf
    <3>5. \A W : Reported(s, W) => s.weak_mods \cup a.mods \subseteq W \cup WeakOf(a)
      BY <3>4 DEF Reported
    <3> QED
      BY <3>3, <3>4, <3>5 DEF SentWeak
  <2> QED
    BY <2>1, <2>2, <2>3
<1> HIDE DEF v
<1>3. t \in State(D, C) /\ Registers(v, t, v.keys \cup KeyOf(a.code), v.real_mods \cup ModOf(a.code))
  BY <1>a, <1>2, RegisterCode
<1> HIDE DEF t
<1>4. Keeps(D, C, s, t) /\ SameLayers(s, t)
  BY <1>2, <1>3 DEF Keeps, Registers, SameLayers
<1>5. t.keys \subseteq s.keys \cup KeysOf(a, n) /\ t.real_mods \subseteq s.real_mods \cup ModsOf(a, n)
  BY <1>2, <1>3 DEF Registers, KeysOf, ModsOf
<1>6. /\ t.oneshot_mods \subseteq s.oneshot_mods
      /\ t.weak_mods \subseteq s.weak_mods \cup WeakOf(a) /\ (Shown(s) => Shown(t))
      /\ \A W : Reported(s, W) => Reported(t, W \cup WeakOf(a))
  BY <1>2, <1>3 DEF Registers
<1>7. Adds(s, t, a, n)
  BY <1>a, <1>5, <1>6 DEF Adds
<1> QED
  BY <1>1, <1>4, <1>7

LEMMA ActModsRelease ==
    ASSUME NEW D, NEW C, NEW s \in State(D, C), NEW a \in Action(D, C), NEW n, Plain(a)
    PROVE  LET t == ActMods(s, a, FALSE)
           IN  Keeps(D, C, s, t) /\ SameLayers(s, t) /\ Removes(s, t, a, n)
<1>a. a.mods \in SUBSET Mods /\ a.code \in C \cup {NoCode} /\ a.kind # "OSM"
  BY ActionType DEF Plain
<1> DEFINE v == unregister_code(s, a.code)
           t == IF a.mods = {} THEN v
                ELSE IF Strong(a) THEN unregister_mods(v, a.mods)
                ELSE send_keyboard_report([v EXCEPT !.weak_mods = @ \ a.mods])
<1>1. ActMods(s, a, FALSE) = t
  BY DEF ActMods, Strong
<1>2. v \in State(D, C) /\ Registers(s, v, s.keys \ KeyOf(a.code), s.real_mods \ ModOf(a.code))
  BY <1>a, UnregisterCode
<1> HIDE DEF v
<1>3. /\ t \in State(D, C) /\ SameLayers(v, t) /\ t.keys = v.keys
      /\ t.real_mods \subseteq v.real_mods \ (IF Strong(a) THEN a.mods ELSE {})
      /\ t.oneshot_mods \subseteq v.oneshot_mods
      /\ t.weak_mods \subseteq v.weak_mods
      /\ Shown(v) => Shown(t)
      /\ \A W : Reported(v, W \cup WeakOf(a)) => Reported(t, W)
  <2>1. CASE a.mods = {}
    <3>1. t = v /\ WeakOf(a) = {} /\ (IF Strong(a) THEN a.mods ELSE {}) = {}
      BY <2>1 DEF WeakOf
    <3>2. \A W : W \cup WeakOf(a) = W
      BY <3>1
    <3> QED
      BY <1>2, <3>1, <3>2 DEF SameLayers
  <2>2. CASE a.mods # {} /\ Strong(a)
    <3>1. t = unregister_mods(v, a.mods) /\ WeakOf(a) = {}
      BY <2>2 DEF WeakOf
    <3> HIDE DEF t
    <3>2. t \in State(D, C) /\ Registers(v, t, v.keys, v.real_mods \ a.mods)
      BY <1>a, <1>2, <3>1, UnregisterMods
    <3>3. \A W : W \cup WeakOf(a) = W
      BY <3>1
    <3> QED
      BY <2>2, <3>2, <3>3 DEF Registers
  <2>3. CASE a.mods # {} /\ ~Strong(a)
    <3>1. t = send_keyboard_report([v EXCEPT !.weak_mods = v.weak_mods \ a.mods])
      BY <2>3
    <3> HIDE DEF t
    <3>2. v.weak_mods \ a.mods \in SUBSET Mods
      BY <1>2 DEF State
    <3>3. t \in State(D, C) /\ SentWeak(v, t, v.weak_mods \ a.mods)
      BY <1>2, <3>1, <3>2, SendWeak
    <3>4. WeakOf(a) = a.mods
      BY <2>3 DEF WeakOf
    <3>5. \A W : Reported(v, W \cup WeakOf(a)) => v.weak_mods \ a.mods \subseteq W
      BY <3>4 DEF Reported
    <3> QED
      BY <2>3, <3>3, <3>5 DEF SentWeak
  <2> QED
    BY <2>1, <2>2, <2>3
<1> HIDE DEF t
<1>4. Keeps(D, C, s, t) /\ SameLayers(s, t)
  BY <1>2, <1>3 DEF Keeps, Registers, SameLayers
<1>5. t.keys \subseteq s.keys \ KeysOf(a, n) /\ t.real_mods \subseteq s.real_mods \ ModsOf(a, n)
  BY <1>2, <1>3 DEF Registers, KeysOf, ModsOf, Plain, Taps
<1>6. /\ t.oneshot_mods \subseteq s.oneshot_mods
      /\ t.weak_mods \subseteq s.weak_mods /\ (Shown(s) => Shown(t))
      /\ \A W : Reported(s, W \cup WeakOf(a)) => Reported(t, W)
  BY <1>2, <1>3 DEF Registers
<1>7. Removes(s, t, a, n)
  BY <1>a, <1>5, <1>6 DEF Removes
<1> QED
  BY <1>1, <1>4, <1>7

LEMMA SetMods ==
    ASSUME NEW D, NEW C, NEW s \in State(D, C), NEW m \in SUBSET Mods
    PROVE  LET t == [s EXCEPT !.oneshot_mods = m]
           IN  /\ t \in State(D, C) /\ SameLayers(s, t) /\ t.keys = s.keys
               /\ t.real_mods = s.real_mods /\ t.oneshot_mods = m
               /\ t.weak_mods = s.weak_mods /\ (Shown(s) => Shown(t))
               /\ \A W : Reported(s, W) /\ s.oneshot_mods \subseteq m => Reported(t, W)
<1> DEFINE t == [s EXCEPT !.oneshot_mods = m]
<1>1. /\ t \in State(D, C) /\ SameLayers(s, t) /\ t.keys = s.keys /\ t.real_mods = s.real_mods
      /\ t.oneshot_mods = m /\ t.weak_mods = s.weak_mods /\ t.last = s.last
  BY DEF State, SameLayers
<1> HIDE DEF t
<1>2. /\ Shown(s) => Shown(t)
      /\ \A W : Reported(s, W) /\ s.oneshot_mods \subseteq m => Reported(t, W)
  BY <1>1 DEF Reported, Shown
<1> QED
  BY <1>1, <1>2 DEF t

\* Functions that change registered and one-shot modifiers, and nothing else.
Quiet(D, C, s, t) ==
    /\ t \in State(D, C) /\ SameLayers(s, t)
    /\ t.keys = s.keys /\ t.weak_mods = s.weak_mods /\ (Shown(s) => Shown(t))

LEMMA QuietMods ==
    ASSUME NEW D, NEW C, NEW s \in State(D, C), NEW m \in SUBSET Mods
    PROVE  /\ Quiet(D, C, s, register_mods(s, m)) /\ Quiet(D, C, s, unregister_mods(s, m))
           /\ Quiet(D, C, s, [s EXCEPT !.oneshot_mods = m])
<1>0. ASSUME NEW t, NEW k, t \in State(D, C), Registers(s, t, s.keys, k)
      PROVE  Quiet(D, C, s, t)
  BY <1>0 DEF Registers, Quiet
<1>1. Quiet(D, C, s, register_mods(s, m))
  BY <1>0, RegisterMods
<1>2. Quiet(D, C, s, unregister_mods(s, m))
  BY <1>0, UnregisterMods
<1> DEFINE t == [s EXCEPT !.oneshot_mods = m]
<1>3. /\ t \in State(D, C) /\ SameLayers(s, t) /\ t.keys = s.keys
      /\ t.weak_mods = s.weak_mods /\ t.last = s.last
  BY DEF State, SameLayers
<1> HIDE DEF t
<1>4. Quiet(D, C, s, t)
  BY <1>3 DEF Quiet, Shown
<1> QED
  BY <1>1, <1>2, <1>4 DEF t

LEMMA QuietTrans ==
    ASSUME NEW D, NEW C, NEW s, NEW t, NEW u, Quiet(D, C, s, t), Quiet(D, C, t, u)
    PROVE  Quiet(D, C, s, u)
BY DEF Quiet, SameLayers

LEMMA ActOneshotModsQuiet ==
    ASSUME NEW D, NEW C, NEW s \in State(D, C), NEW a \in Action(D, C), NEW n \in Nat,
           NEW pressed \in BOOLEAN, a.kind = "OSM"
    PROVE  Quiet(D, C, s, ActOneshotMods(s, a, pressed, n))
<1> DEFINE t == ActOneshotMods(s, a, pressed, n)
           m == a.mods \cup s.oneshot_mods
           c == [s EXCEPT !.oneshot_mods = {}]
           u == unregister_mods(s, a.mods)
<1>1. a.mods \in SUBSET Mods /\ m \in SUBSET Mods
  BY ActionType DEF State
<1>2. Quiet(D, C, s, s)
  BY DEF Quiet, SameLayers
<1>3. CASE ~s.oneshot_enable
  <2> DEFINE b == [a EXCEPT !.code = NoCode]
  <2>1. b.code = NoCode /\ b.mods = a.mods
    BY DEF Action
  <2>2. t = ActMods(s, b, pressed)
    BY <1>3 DEF ActOneshotMods
  <2> HIDE DEF b
  <2>3. \A x : register_code(x, b.code) = x /\ unregister_code(x, b.code) = x
    BY <2>1, TapAssumption DEF register_code, unregister_code
  <2>4. a.mods = {} => register_mods(s, a.mods) = s /\ unregister_mods(s, a.mods) = s
    BY DEF register_mods, unregister_mods
  <2>5. t = register_mods(s, a.mods) \/ t = unregister_mods(s, a.mods)
    BY <2>1, <2>2, <2>3, <2>4 DEF ActMods
  <2>6. Quiet(D, C, s, register_mods(s, a.mods)) /\ Quiet(D, C, s, unregister_mods(s, a.mods))
    BY <1>1, QuietMods
  <2> HIDE DEF t
  <2>7. Quiet(D, C, s, t)
    BY <2>5, <2>6
  <2> QED
    BY <2>7 DEF t
<1>4. CASE s.oneshot_enable
  <2>1. t \in {s, [s EXCEPT !.oneshot_mods = m], register_mods(s, m), unregister_mods(c, a.mods),
               [u EXCEPT !.oneshot_mods = {}]}
    BY <1>4 DEF ActOneshotMods, set_oneshot_mods, clear_oneshot_mods
  <2> HIDE DEF t, m
  <2>2. {} \in SUBSET Mods /\ Quiet(D, C, s, c) /\ Quiet(D, C, s, u)
    BY <1>1, QuietMods
  <2>3. c \in State(D, C) /\ u \in State(D, C)
    BY <2>2 DEF Quiet
  <2> HIDE DEF c, u
  <2>4. Quiet(D, C, c, unregister_mods(c, a.mods)) /\ Quiet(D, C, u, [u EXCEPT !.oneshot_mods = {}])
    BY <1>1, <2>2, <2>3, QuietMods
  <2>5. Quiet(D, C, s, unregister_mods(c, a.mods)) /\ Quiet(D, C, s, [u EXCEPT !.oneshot_mods = {}])
    BY <2>2, <2>4, QuietTrans
  <2>6. Quiet(D, C, s, [s EXCEPT !.oneshot_mods = m]) /\ Quiet(D, C, s, register_mods(s, m))
    BY <1>1, QuietMods
  <2> QED
    BY <1>2, <2>1, <2>5, <2>6 DEF t
<1> QED
  BY <1>3, <1>4

LEMMA OneshotModsPressFits ==
    ASSUME NEW D, NEW C, NEW s \in State(D, C), NEW a \in Action(D, C), NEW n \in Nat,
           a.kind = "OSM", OneShotFits(s, a)
    PROVE  LET t == ActOneshotMods(s, a, TRUE, n)
           IN  Keeps(D, C, s, t) /\ SameLayers(s, t) /\ Adds(s, t, a, n)
<1> DEFINE t == ActOneshotMods(s, a, TRUE, n)
           m == a.mods \cup s.oneshot_mods
<1>1. m = a.mods /\ m \in SUBSET Mods /\ s.oneshot_enable /\ s.oneshot_mods \subseteq a.mods
  BY ActionType DEF OneShotFits, State
<1>2. WeakOf(a) = {} /\ KeysOf(a, n) = {}
  BY DEF WeakOf, Plain, KeysOf, Taps
<1>3. CASE n = 1
  <2>1. t = [s EXCEPT !.oneshot_mods = m]
    BY <1>1, <1>3 DEF ActOneshotMods, set_oneshot_mods
  <2> DEFINE u == [s EXCEPT !.oneshot_mods = m]
  <2> HIDE DEF t, m
  <2>2. /\ u \in State(D, C) /\ SameLayers(s, u) /\ u.keys = s.keys
        /\ u.real_mods = s.real_mods /\ u.oneshot_mods = m
        /\ u.weak_mods = s.weak_mods /\ (Shown(s) => Shown(u))
        /\ \A W : Reported(s, W) /\ s.oneshot_mods \subseteq m => Reported(u, W)
    BY <1>1, SetMods
  <2>u. t = u
    BY <2>1
  <2> HIDE DEF u
  <2>3. \A W : Reported(s, W) => Reported(t, W \cup WeakOf(a))
    <3>1. \A W : W \cup WeakOf(a) = W
      BY <1>2
    <3> QED
      BY <1>1, <2>2, <2>u, <3>1
  <2>4. Adds(s, t, a, n) /\ Keeps(D, C, s, t)
    BY <1>1, <2>2, <2>3, <2>u DEF Adds, Keeps, SameLayers
  <2> QED
    BY <2>2, <2>4, <2>u DEF t
<1>4. CASE n # 1
  <2>1. t = register_mods(s, m)
    BY <1>1, <1>4 DEF ActOneshotMods
  <2> HIDE DEF t, m
  <2>2. t \in State(D, C) /\ Registers(s, t, s.keys, s.real_mods \cup m)
    BY <1>1, <2>1, RegisterMods
  <2>3. ModsOf(a, n) = a.mods
    BY <1>4 DEF ModsOf, Plain, Taps
  <2>4. Adds(s, t, a, n)
    BY <1>1, <2>2, <2>3, RegistersAdds
  <2> QED
    BY <2>2, <2>4 DEF t, Keeps, Registers, SameLayers
<1> QED
  BY <1>3, <1>4

LEMMA OneshotModsReleaseFits ==
    ASSUME NEW D, NEW C, NEW s \in State(D, C), NEW a \in Action(D, C), NEW n \in Nat,
           a.kind = "OSM", OneShotFits(s, a)
    PROVE  LET t == ActOneshotMods(s, a, FALSE, n)
           IN  Keeps(D, C, s, t) /\ SameLayers(s, t) /\ Removes(s, t, a, n)
<1> DEFINE t == ActOneshotMods(s, a, FALSE, n)
<1>1. a.mods \in SUBSET Mods /\ s.oneshot_enable /\ s.oneshot_mods \subseteq a.mods
  BY ActionType DEF OneShotFits
<1>2. WeakOf(a) = {} /\ KeysOf(a, n) = {} /\ ModsOf(a, n) = (IF n = 1 THEN {} ELSE a.mods)
  BY DEF WeakOf, Plain, KeysOf, Taps, ModsOf
<1>3. CASE n = 1
  <2>1. t = s
    BY <1>1, <1>3 DEF ActOneshotMods
  <2>2. SameReport(s, t) /\ SameLayers(s, t) /\ Keeps(D, C, s, t)
    BY <2>1 DEF SameReport, SameLayers, Keeps
  <2> QED
    BY <1>2, <1>3, <2>2, NothingRemoved DEF t
<1>4. CASE n = 0
  <2> DEFINE v == [s EXCEPT !.oneshot_mods = {}]
  <2>1. t = unregister_mods(v, a.mods)
    BY <1>1, <1>4 DEF ActOneshotMods, clear_oneshot_mods
  <2>2. /\ v \in State(D, C) /\ SameLayers(s, v) /\ v.keys = s.keys
        /\ v.real_mods = s.real_mods /\ v.oneshot_mods = {}
        /\ (Shown(s) => Shown(v))
        /\ \A W : Reported(s, W) /\ s.oneshot_mods \subseteq {} => Reported(v, W)
    BY SetMods
  <2>3. v.weak_mods = s.weak_mods
    BY DEF State
  <2> HIDE DEF v, t
  <2>4. t \in State(D, C) /\ Registers(v, t, v.keys, v.real_mods \ a.mods)
    BY <1>1, <2>1, <2>2, UnregisterMods
  <2>5. \A W : Reported(s, W) => Reported(t, W)
    <3>1. CASE a.mods = {}
      BY <1>1, <2>2, <2>4, <3>1 DEF Registers
    <3>2. CASE a.mods # {}
      <4> DEFINE u == [v EXCEPT !.real_mods = v.real_mods \ a.mods]
      <4>1. t = send_keyboard_report(u)
        BY <2>1, <3>2 DEF unregister_mods
      <4>2. u \in State(D, C) /\ u.weak_mods = v.weak_mods
        BY <2>2 DEF State
      <4> HIDE DEF u
      <4> QED
        BY <2>3, <4>1, <4>2, SendReports DEF Reported
    <3> QED
      BY <3>1, <3>2
  <2>6. Keeps(D, C, s, t) /\ SameLayers(s, t)
    BY <2>2, <2>4 DEF Registers, SameLayers, Keeps
  <2>7. Removes(s, t, a, n)
    <3>1. \A W : W \cup WeakOf(a) = W
      BY <1>2
    <3> QED
      BY <1>2, <1>4, <2>2, <2>3, <2>4, <2>5, <3>1 DEF Removes, Registers
  <2> QED
    BY <2>6, <2>7 DEF t
<1>5. CASE n \notin {0, 1}
  <2> DEFINE v == unregister_mods(s, a.mods)
  <2>1. t = [v EXCEPT !.oneshot_mods = {}]
    BY <1>1, <1>5 DEF ActOneshotMods, clear_oneshot_mods
  <2>2. v \in State(D, C) /\ Registers(s, v, s.keys, s.real_mods \ a.mods)
    BY <1>1, UnregisterMods
  <2> HIDE DEF v, t
  <2>3. /\ t \in State(D, C) /\ SameLayers(v, t) /\ t.keys = v.keys
        /\ t.real_mods = v.real_mods /\ t.oneshot_mods = {} /\ t.weak_mods = v.weak_mods
        /\ (Shown(v) => Shown(t))
    BY <2>1, <2>2, SetMods
  <2>4. Keeps(D, C, s, t) /\ SameLayers(s, t)
    BY <2>2, <2>3 DEF Registers, SameLayers, Keeps
  <2>5. ~(n =< 1)
    BY <1>5
  <2>6. Removes(s, t, a, n)
    BY <1>2, <1>5, <2>2, <2>3, <2>5 DEF Removes, Registers
  <2> QED
    BY <2>4, <2>6 DEF t
<1> QED
  BY <1>3, <1>4, <1>5

LEMMA ActOneshotModsDone ==
    ASSUME NEW D, NEW C, NEW s \in State(D, C), NEW a \in Action(D, C), NEW n \in Nat,
           a.kind = "OSM"
    PROVE  /\ LET t == ActOneshotMods(s, a, TRUE, n)
              IN  Keeps(D, C, s, t) /\ SameLayers(s, t) /\ Adds(s, t, a, n)
           /\ LET t == ActOneshotMods(s, a, FALSE, n)
              IN  Keeps(D, C, s, t) /\ SameLayers(s, t) /\ Removes(s, t, a, n)
<1>1. CASE OneShotFits(s, a)
  BY <1>1, OneshotModsPressFits, OneshotModsReleaseFits
<1>2. CASE ~OneShotFits(s, a)
  <2>1. KeysOf(a, n) = {}
    BY DEF KeysOf, Plain, Taps
  <2>2. ASSUME NEW t, Quiet(D, C, s, t)
        PROVE  Keeps(D, C, s, t) /\ SameLayers(s, t) /\ Adds(s, t, a, n) /\ Removes(s, t, a, n)
    BY <1>2, <2>1, <2>2 DEF Quiet, Keeps, SameLayers, Adds, Removes
  <2>3. /\ Quiet(D, C, s, ActOneshotMods(s, a, TRUE, n))
        /\ Quiet(D, C, s, ActOneshotMods(s, a, FALSE, n))
    BY ActOneshotModsQuiet
  <2> QED
    BY <2>2, <2>3
<1> QED
  BY <1>1, <1>2
-----------------------------------------------------------------------------
(* The layers a key adds, and the layer a one-shot key keeps: o is the     *)
(* layer of the one-shot keys, of which all name the same.                 *)

LayersOf(a, n) ==
    IF (a.kind \in {"MO", "LT"} /\ n = 0) \/ a.kind = "LM" THEN {a.layer} ELSE {}

Kept(s) == IF OneShotLayerActive(s) THEN {s.osl.layer} ELSE {}

LayersFit(s, L) == s.layers \subseteq L \cup Kept(s)

OslFits(s, o) == OneShotLayerActive(s) => s.osl.layer = o /\ s.oneshot_enable

\* The action toggles no layer, and a one-shot layer key is one for o.
Momentary(s, a, o) ==
    /\ o \in 0 .. 15
    /\ a.kind \notin {"TG", "TO", "DF", "TT"}
    /\ a.kind = "OSL" => a.layer = o /\ s.oneshot_enable
    /\ OslFits(s, o)

AddsLayers(s, t, a, n, o) ==
    OslFits(t, o) /\ \A L : LayersFit(s, L) => LayersFit(t, L \cup LayersOf(a, n))

RemovesLayers(s, t, a, n, o) ==
    OslFits(t, o) /\ \A L : LayersFit(s, L \cup LayersOf(a, n)) => LayersFit(t, L)

\* What a press and a release of a key do.
PressDone(D, C, s, t, a, n) ==
    /\ Keeps(D, C, s, t) /\ Adds(s, t, a, n)
    /\ a.kind # "OSL" => t.osl = s.osl
    /\ \A o : Momentary(s, a, o) => AddsLayers(s, t, a, n, o)

ReleaseDone(D, C, s, t, a, n) ==
    /\ Keeps(D, C, s, t) /\ Removes(s, t, a, n)
    /\ a.kind # "OSL" => t.osl = s.osl
    /\ \A o : Momentary(s, a, o) => RemovesLayers(s, t, a, n, o)

\* Functions that leave the layers alone.
LEMMA PressSameLayers ==
    ASSUME NEW D, NEW C, NEW s, NEW t, NEW a, NEW n,
           Keeps(D, C, s, t), SameLayers(s, t), Adds(s, t, a, n)
    PROVE  PressDone(D, C, s, t, a, n)
<1>1. \A o : OslFits(s, o) => OslFits(t, o)
  BY DEF SameLayers, OslFits, OneShotLayerActive
<1>2. \A L : LayersFit(s, L) => LayersFit(t, L \cup LayersOf(a, n))
  BY DEF SameLayers, LayersFit, Kept, OneShotLayerActive
<1> QED
  BY <1>1, <1>2 DEF PressDone, SameLayers, AddsLayers, Momentary

LEMMA ReleaseSameLayers ==
    ASSUME NEW D, NEW C, NEW s, NEW t, NEW a, NEW n, LayersOf(a, n) = {},
           Keeps(D, C, s, t), SameLayers(s, t), Removes(s, t, a, n)
    PROVE  ReleaseDone(D, C, s, t, a, n)
<1>1. \A o : OslFits(s, o) => OslFits(t, o)
  BY DEF SameLayers, OslFits, OneShotLayerActive
<1>2. \A L : L \cup LayersOf(a, n) = L
  OBVIOUS
<1>3. \A L : LayersFit(s, L) => LayersFit(t, L)
  BY DEF SameLayers, LayersFit, Kept, OneShotLayerActive
<1> QED
  BY <1>1, <1>2, <1>3 DEF ReleaseDone, SameLayers, RemovesLayers, Momentary

\* A layer goes on when the key is pressed and off when it is released.
LEMMA PressLayer ==
    ASSUME NEW D, NEW C, NEW s, NEW t, NEW a, NEW n, LayersOf(a, n) = {a.layer},
           Keeps(D, C, s, t), Adds(s, t, a, n), t.osl = s.osl,
           t.layers = s.layers \cup {a.layer}
    PROVE  PressDone(D, C, s, t, a, n)
<1>1. \A o : OslFits(s, o) => OslFits(t, o)
  BY DEF OslFits, OneShotLayerActive, Keeps
<1>2. \A L : LayersFit(s, L) => LayersFit(t, L \cup LayersOf(a, n))
  BY DEF LayersFit, Kept, OneShotLayerActive
<1> QED
  BY <1>1, <1>2 DEF PressDone, AddsLayers, Momentary

LEMMA ReleaseLayer ==
    ASSUME NEW D, NEW C, NEW s, NEW t, NEW a, NEW n, LayersOf(a, n) = {a.layer},
           Keeps(D, C, s, t), Removes(s, t, a, n), t.osl = s.osl,
           t.layers = s.layers \ {a.layer}
    PROVE  ReleaseDone(D, C, s, t, a, n)
<1>1. \A o : OslFits(s, o) => OslFits(t, o)
  BY DEF OslFits, OneShotLayerActive, Keeps
<1>2. \A L : LayersFit(s, L \cup LayersOf(a, n)) => LayersFit(t, L)
  BY DEF LayersFit, Kept, OneShotLayerActive
<1> QED
  BY <1>1, <1>2 DEF ReleaseDone, RemovesLayers, Momentary

\* A modifier key that is a key when tapped; LT and MO when they are tapped.
LEMMA TapPress ==
    ASSUME NEW D, NEW C, NEW s \in State(D, C), NEW a \in Action(D, C), NEW n \in Nat, Taps(a, n)
    PROVE  PressDone(D, C, s, register_code(s, a.code), a, n)
<1> DEFINE t == register_code(s, a.code)
<1>1. a.code \in C \cup {NoCode} /\ a.kind # "OSM"
  BY ActionType DEF Taps
<1>2. /\ t \in State(D, C)
      /\ Registers(s, t, s.keys \cup KeyOf(a.code), s.real_mods \cup ModOf(a.code))
  BY <1>1, RegisterCode
<1> HIDE DEF t
<1>3. KeysOf(a, n) = KeyOf(a.code) /\ ModOf(a.code) \subseteq ModsOf(a, n) /\ OneShotFits(s, a)
  BY <1>1 DEF KeysOf, ModsOf, OneShotFits
<1>4. Adds(s, t, a, n)
  <2>1. /\ s.keys \cup KeyOf(a.code) \subseteq s.keys \cup KeysOf(a, n)
        /\ s.real_mods \cup ModOf(a.code) \subseteq s.real_mods \cup ModsOf(a, n)
    BY <1>3
  <2> QED
    BY <1>2, <1>3, <2>1, RegistersAdds
<1>5. Keeps(D, C, s, t) /\ SameLayers(s, t)
  BY <1>2 DEF Keeps, Registers, SameLayers
<1>6. PressDone(D, C, s, t, a, n)
  BY <1>4, <1>5, PressSameLayers
<1> QED
  BY <1>6 DEF t

LEMMA TapRelease ==
    ASSUME NEW D, NEW C, NEW s \in State(D, C), NEW a \in Action(D, C), NEW n \in Nat, Taps(a, n)
    PROVE  ReleaseDone(D, C, s, unregister_code(s, a.code), a, n)
<1> DEFINE t == unregister_code(s, a.code)
<1>1. a.code \in C \cup {NoCode} /\ a.kind \in {"MT", "MO", "LT"} /\ n # 0
  BY ActionType DEF Taps
<1>2. /\ t \in State(D, C)
      /\ Registers(s, t, s.keys \ KeyOf(a.code), s.real_mods \ ModOf(a.code))
  BY <1>1, UnregisterCode
<1> HIDE DEF t
<1>3. /\ KeysOf(a, n) = KeyOf(a.code) /\ ModsOf(a, n) = ModOf(a.code) /\ WeakOf(a) = {}
      /\ LayersOf(a, n) = {}
  BY <1>1 DEF KeysOf, ModsOf, WeakOf, Plain, Taps, LayersOf
<1>4. Removes(s, t, a, n)
  <2>1. /\ s.keys \ KeyOf(a.code) \subseteq s.keys \ KeysOf(a, n)
        /\ s.real_mods \ ModOf(a.code) \subseteq s.real_mods \ ModsOf(a, n)
    BY <1>3
  <2> QED
    BY <1>2, <1>3, <2>1, RegistersRemoves
<1>5. Keeps(D, C, s, t) /\ SameLayers(s, t)
  BY <1>2 DEF Keeps, Registers, SameLayers
<1>6. ReleaseDone(D, C, s, t, a, n)
  BY <1>3, <1>4, <1>5, ReleaseSameLayers
<1> QED
  BY <1>6 DEF t
LEMMA ActModsTapDone ==
    ASSUME NEW D, NEW C, NEW s \in State(D, C), NEW a \in Action(D, C), NEW n \in Nat,
           a.kind = "MT"
    PROVE  /\ PressDone(D, C, s, ActModsTap(s, a, TRUE, n), a, n)
           /\ ReleaseDone(D, C, s, ActModsTap(s, a, FALSE, n), a, n)
<1>1. CASE n # 0
  <2>0. n > 0
    BY <1>1
  <2>1. /\ ActModsTap(s, a, TRUE, n) = register_code(s, a.code)
        /\ ActModsTap(s, a, FALSE, n) = unregister_code(s, a.code)
    BY <1>1, <2>0 DEF ActModsTap
  <2>2. Taps(a, n)
    BY <2>0 DEF Taps
  <2> QED
    BY <2>1, <2>2, TapPress, TapRelease
<1>2. CASE n = 0
  <2> DEFINE t == register_mods(s, a.mods)
             u == unregister_mods(s, a.mods)
  <2>1. ActModsTap(s, a, TRUE, n) = t /\ ActModsTap(s, a, FALSE, n) = u
    BY <1>2 DEF ActModsTap
  <2>2. a.mods \in SUBSET Mods
    BY ActionType
  <2>3. /\ t \in State(D, C) /\ Registers(s, t, s.keys, s.real_mods \cup a.mods)
        /\ u \in State(D, C) /\ Registers(s, u, s.keys, s.real_mods \ a.mods)
    BY <2>2, RegisterMods, UnregisterMods
  <2> HIDE DEF t, u
  <2>4. /\ KeysOf(a, n) = {} /\ ModsOf(a, n) = a.mods /\ WeakOf(a) = {} /\ OneShotFits(s, a)
        /\ LayersOf(a, n) = {}
    BY <1>2 DEF KeysOf, ModsOf, WeakOf, Plain, Taps, OneShotFits, LayersOf
  <2>5. Adds(s, t, a, n) /\ Removes(s, u, a, n)
    <3>1. /\ s.keys \subseteq s.keys \cup KeysOf(a, n) /\ s.keys \subseteq s.keys \ KeysOf(a, n)
          /\ s.real_mods \cup a.mods \subseteq s.real_mods \cup ModsOf(a, n)
          /\ s.real_mods \ a.mods \subseteq s.real_mods \ ModsOf(a, n)
      BY <2>4
    <3> QED
      BY <2>3, <2>4, <3>1, RegistersAdds, RegistersRemoves
  <2>6. Keeps(D, C, s, t) /\ SameLayers(s, t) /\ Keeps(D, C, s, u) /\ SameLayers(s, u)
    BY <2>3 DEF Keeps, Registers, SameLayers
  <2> QED
    BY <2>1, <2>4, <2>5, <2>6, PressSameLayers, ReleaseSameLayers
<1> QED
  BY <1>1, <1>2

LEMMA ActLayerTapDone ==
    ASSUME NEW D, NEW C, LayerSet(D), NEW s \in State(D, C), NEW a \in Action(D, C), NEW n \in Nat,
           a.kind \in {"MO", "LT"}
    PROVE  /\ PressDone(D, C, s, ActLayerTap(s, a, TRUE, n), a, n)
           /\ ReleaseDone(D, C, s, ActLayerTap(s, a, FALSE, n), a, n)
<1>1. CASE n # 0
  <2>0. n > 0
    BY <1>1
  <2>1. /\ ActLayerTap(s, a, TRUE, n) = register_code(s, a.code)
        /\ ActLayerTap(s, a, FALSE, n) = unregister_code(s, a.code)
    BY <1>1, <2>0 DEF ActLayerTap
  <2>2. Taps(a, n)
    BY <2>0 DEF Taps
  <2> QED
    BY <2>1, <2>2, TapPress, TapRelease
<1>2. CASE n = 0
  <2> DEFINE t == layer_on(s, a.layer)
             u == layer_off(s, a.layer)
  <2>1. ActLayerTap(s, a, TRUE, n) = t /\ ActLayerTap(s, a, FALSE, n) = u
    BY <1>2 DEF ActLayerTap
  <2>2. a.layer \in D
    BY ActionType
  <2>3. Bit(a.layer) = {a.layer} /\ Bit(a.layer) \subseteq D
    BY <2>2, BitOf
  <2>4. /\ t \in State(D, C) /\ SameReport(s, t) /\ t.oneshot_enable = s.oneshot_enable
        /\ t.osl = s.osl /\ t.layers = s.layers \cup {a.layer}
    BY <2>3, LayerOn
  <2>5. /\ u \in State(D, C) /\ SameReport(s, u) /\ u.oneshot_enable = s.oneshot_enable
        /\ u.osl = s.osl /\ u.layers = s.layers \ {a.layer}
    BY <2>3, LayerOff
  <2> HIDE DEF t, u
  <2>6. /\ KeysOf(a, n) = {} /\ ModsOf(a, n) = {} /\ WeakOf(a) = {} /\ LayersOf(a, n) = {a.layer}
        /\ a.kind # "OSM"
    BY <1>2 DEF KeysOf, ModsOf, WeakOf, Plain, Taps, LayersOf
  <2>7. Adds(s, t, a, n) /\ Removes(s, u, a, n)
    BY <2>4, <2>5, <2>6, NothingAdded, NothingRemoved
  <2>8. Keeps(D, C, s, t) /\ Keeps(D, C, s, u)
    BY <2>4, <2>5 DEF Keeps
  <2> QED
    BY <2>1, <2>4, <2>5, <2>6, <2>7, <2>8, PressLayer, ReleaseLayer
<1> QED
  BY <1>1, <1>2

LEMMA ActLayerModsDone ==
    ASSUME NEW D, NEW C, LayerSet(D), NEW s \in State(D, C), NEW a \in Action(D, C), NEW n,
           a.kind = "LM"
    PROVE  /\ PressDone(D, C, s, ActLayerMods(s, a, TRUE), a, n)
           /\ ReleaseDone(D, C, s, ActLayerMods(s, a, FALSE), a, n)
<1> DEFINE v == layer_on(s, a.layer)
           t == register_mods(v, a.mods)
           w == unregister_mods(s, a.mods)
           u == layer_off(w, a.layer)
<1>1. ActLayerMods(s, a, TRUE) = t /\ ActLayerMods(s, a, FALSE) = u
  BY DEF ActLayerMods
<1>2. a.layer \in D /\ a.mods \in SUBSET Mods
  BY ActionType
<1>3. Bit(a.layer) = {a.layer} /\ Bit(a.layer) \subseteq D
  BY <1>2, BitOf
<1>4. /\ KeysOf(a, n) = {} /\ ModsOf(a, n) = a.mods /\ WeakOf(a) = {} /\ LayersOf(a, n) = {a.layer}
      /\ OneShotFits(s, a) /\ a.kind # "OSM"
  BY DEF KeysOf, ModsOf, WeakOf, Plain, Taps, LayersOf, OneShotFits
<1>5. /\ v \in State(D, C) /\ SameReport(s, v) /\ v.oneshot_enable = s.oneshot_enable
      /\ v.osl = s.osl /\ v.layers = s.layers \cup {a.layer}
  BY <1>3, LayerOn
<1> HIDE DEF v
<1>6. t \in State(D, C) /\ Registers(v, t, v.keys, v.real_mods \cup a.mods)
  BY <1>2, <1>5, RegisterMods
<1>7. w \in State(D, C) /\ Registers(s, w, s.keys, s.real_mods \ a.mods)
  BY <1>2, UnregisterMods
<1> HIDE DEF t, w
<1>8. /\ u \in State(D, C) /\ SameReport(w, u) /\ u.oneshot_enable = w.oneshot_enable
      /\ u.osl = w.osl /\ u.layers = w.layers \ {a.layer}
  BY <1>3, <1>7, LayerOff
<1> HIDE DEF u
<1>9. PressDone(D, C, s, t, a, n)
  <2>1. Keeps(D, C, s, t) /\ t.osl = s.osl /\ t.layers = s.layers \cup {a.layer}
    BY <1>5, <1>6 DEF Keeps, Registers, SameLayers
  <2>2. Registers(s, t, s.keys, s.real_mods \cup a.mods) \/ Adds(s, t, a, n)
    <3>1. \A W : Reported(s, W) => Reported(v, W)
      BY <1>5 DEF SameReport, Reported, Shown
    <3>2. \A W : Reported(t, W) => Reported(t, W \cup WeakOf(a))
      BY DEF Reported
    <3> QED
      BY <1>4, <1>5, <1>6, <3>1, <3>2 DEF SameReport, Registers, Adds, Shown
  <2>3. Adds(s, t, a, n)
    <3>1. /\ s.keys \subseteq s.keys \cup KeysOf(a, n)
          /\ s.real_mods \cup a.mods \subseteq s.real_mods \cup ModsOf(a, n)
      BY <1>4
    <3> QED
      BY <1>4, <2>2, <3>1, RegistersAdds
  <2> QED
    BY <1>4, <2>1, <2>3, PressLayer
<1>10. ReleaseDone(D, C, s, u, a, n)
  <2>1. Keeps(D, C, s, u) /\ u.osl = s.osl /\ u.layers = s.layers \ {a.layer}
    BY <1>7, <1>8 DEF Keeps, Registers, SameLayers
  <2>2. Removes(s, u, a, n)
    <3>1. \A W : Reported(w, W) => Reported(u, W)
      BY <1>8 DEF SameReport, Reported, Shown
    <3>2. \A W : W \cup WeakOf(a) = W
      BY <1>4
    <3> QED
      BY <1>4, <1>7, <1>8, <3>1, <3>2 DEF SameReport, Registers, Removes, Shown
  <2> QED
    BY <1>4, <2>1, <2>2, ReleaseLayer
<1> QED
  BY <1>1, <1>9, <1>10

\* Actions that set layers and no keys: what they do to the layers is of no
\* concern where layers may be toggled.
Toggling == {"TT", "TG", "TO", "DF"}

LEMMA ToggleDone ==
    ASSUME NEW D, NEW C, NEW s, NEW t, NEW a, NEW n, a.kind \in Toggling,
           t \in State(D, C), SameReport(s, t), t.oneshot_enable = s.oneshot_enable, t.osl = s.osl
    PROVE  PressDone(D, C, s, t, a, n) /\ ReleaseDone(D, C, s, t, a, n)
<1>1. KeysOf(a, n) = {} /\ ModsOf(a, n) = {} /\ WeakOf(a) = {} /\ a.kind # "OSM"
  BY DEF KeysOf, ModsOf, WeakOf, Plain, Taps, Toggling
<1>2. Adds(s, t, a, n) /\ Removes(s, t, a, n)
  BY <1>1, NothingAdded, NothingRemoved
<1>3. \A o : ~Momentary(s, a, o)
  BY DEF Momentary, Toggling
<1> QED
  BY <1>2, <1>3 DEF PressDone, ReleaseDone, Keeps

LEMMA ActToggleDone ==
    ASSUME NEW D, NEW C, NEW s \in State(D, C), NEW a \in Action(D, C), NEW n, NEW pressed,
           a.kind \in Toggling
    PROVE  LET t == IF a.kind = "TT" THEN ActTapToggle(s, a, pressed, n)
                    ELSE ActLayer(s, a, pressed)
           IN  PressDone(D, C, s, t, a, n) /\ ReleaseDone(D, C, s, t, a, n)
<1> DEFINE t == IF a.kind = "TT" THEN ActTapToggle(s, a, pressed, n)
                ELSE ActLayer(s, a, pressed)
<1>1. a.layer \in D
  BY ActionType
<1>2. t \in {s, layer_invert(s, a.layer), [s EXCEPT !.default_layers = {a.layer}],
             [s EXCEPT !.layers = {a.layer}]}
  BY DEF ActTapToggle, ActLayer, Toggling
<1> HIDE DEF t
<1>3. /\ t \in State(D, C) /\ SameReport(s, t) /\ t.oneshot_enable = s.oneshot_enable
      /\ t.osl = s.osl
  <2>1. CASE t = s
    BY <2>1 DEF SameReport
  <2>2. CASE t = layer_invert(s, a.layer)
    BY <1>1, <2>2, LayerInvert
  <2>3. CASE t = [s EXCEPT !.default_layers = {a.layer}]
    BY <1>1, <2>3, LayerSets
  <2>4. CASE t = [s EXCEPT !.layers = {a.layer}]
    BY <1>1, <2>4, LayerSets
  <2> QED
    BY <1>2, <2>1, <2>2, <2>3, <2>4
<1>4. PressDone(D, C, s, t, a, n) /\ ReleaseDone(D, C, s, t, a, n)
  BY <1>3, ToggleDone
<1> QED
  BY <1>4 DEF t
\* Ending a state of the one-shot layer switches its layer off, when it ends.
LEMMA ClearFits ==
    ASSUME NEW D, NEW C, LayerSet(D), NEW s \in State(D, C), NEW bit, NEW o \in 0 .. 15,
           s.oneshot_enable, OslFits(s, o)
    PROVE  LET t == clear_oneshot_layer_state(s, bit)
           IN  OslFits(t, o) /\ \A L : LayersFit(s, L) => LayersFit(t, L)
<1> DEFINE t == clear_oneshot_layer_state(s, bit)
<1>1. /\ t \in State(D, C) /\ t.oneshot_enable = s.oneshot_enable
      /\ OneShotEnds(s, t, bit)
  BY ClearState
<1> HIDE DEF t
<1>2. OneShotLayerActive(t) => OneShotLayerActive(s) /\ t.osl.layer = s.osl.layer
  BY <1>1 DEF OneShotLayerActive, OneShotEnds
<1>3. OslFits(t, o)
  BY <1>1, <1>2 DEF OslFits
<1>4. ASSUME NEW L, LayersFit(s, L)
      PROVE  LayersFit(t, L)
  <2>1. CASE ~OneShotLayerActive(s)
    <3>1. t.layers \subseteq s.layers
      BY <1>1 DEF OneShotEnds
    <3> QED
      BY <1>4, <2>1, <3>1 DEF LayersFit, Kept
  <2>2. CASE OneShotLayerActive(s)
    <3>1. s.osl.layer = o /\ o < 16
      BY <2>2 DEF OslFits
    <3>2. Bit(get_oneshot_layer(s)) = {s.osl.layer}
      BY <3>1, OneShotBit
    <3> QED
      BY <1>1, <1>4, <2>2, <3>2 DEF LayersFit, Kept, OneShotEnds, OneShotLayerActive
  <2> QED
    BY <2>1, <2>2
<1> QED
  BY <1>3, <1>4 DEF t

LEMMA ActOneshotLayerDone ==
    ASSUME NEW D, NEW C, LayerSet(D), NEW s \in State(D, C), NEW a \in Action(D, C), NEW n \in Nat,
           a.kind = "OSL"
    PROVE  /\ PressDone(D, C, s, ActOneshotLayer(s, a, TRUE, n), a, n)
           /\ s.oneshot_enable =>
                  ONESHOT_PRESSED \in ActOneshotLayer(s, a, TRUE, n).osl.state
           /\ ReleaseDone(D, C, s, ActOneshotLayer(s, a, FALSE, n), a, n)
<1>1. /\ KeysOf(a, n) = {} /\ ModsOf(a, n) = {} /\ WeakOf(a) = {} /\ LayersOf(a, n) = {}
      /\ a.kind # "OSM"
  BY DEF KeysOf, ModsOf, WeakOf, Plain, Taps, LayersOf
<1>2. a.layer \in D
  BY ActionType
<1>3. Bit(a.layer) = {a.layer} /\ Bit(a.layer) \subseteq D
  BY <1>2, BitOf
<1> DEFINE x == layer_on(s, a.layer)
           z == layer_off(s, a.layer)
<1>4. /\ x \in State(D, C) /\ SameReport(s, x) /\ x.oneshot_enable = s.oneshot_enable
      /\ x.osl = s.osl /\ x.layers = s.layers \cup {a.layer}
  BY <1>3, LayerOn
<1>5. /\ z \in State(D, C) /\ SameReport(s, z) /\ z.oneshot_enable = s.oneshot_enable
  BY LayerOff
<1>6. ASSUME NEW t, t \in State(D, C), SameReport(s, t), t.oneshot_enable = s.oneshot_enable
      PROVE  Keeps(D, C, s, t) /\ Adds(s, t, a, n) /\ Removes(s, t, a, n)
  BY <1>1, <1>6, NothingAdded, NothingRemoved DEF Keeps
<1>7. CASE ~s.oneshot_enable
  <2>1. ActOneshotLayer(s, a, TRUE, n) = x /\ ActOneshotLayer(s, a, FALSE, n) = z
    BY <1>7 DEF ActOneshotLayer
  <2> HIDE DEF x, z
  <2>2. \A o : ~Momentary(s, a, o)
    BY <1>7 DEF Momentary
  <2> QED
    BY <1>4, <1>5, <1>6, <1>7, <2>1, <2>2 DEF PressDone, ReleaseDone
<1>8. CASE s.oneshot_enable
  <2> DEFINE t == set_oneshot_layer(x, a.layer)
             v == clear_oneshot_layer_state(s, ONESHOT_PRESSED)
             w == clear_oneshot_layer_state(v, ONESHOT_OTHER_KEY_PRESSED)
             u == IF n > 1 THEN w ELSE v
  <2>1. ActOneshotLayer(s, a, TRUE, n) = t /\ ActOneshotLayer(s, a, FALSE, n) = u
    BY <1>8 DEF ActOneshotLayer
  <2> HIDE DEF x
  <2>0. x.oneshot_enable
    BY <1>4, <1>8
  <2>2. /\ t \in State(D, C) /\ SameReport(x, t) /\ t.oneshot_enable = x.oneshot_enable
        /\ t.layers = x.layers \cup {a.layer} /\ t.osl.layer = a.layer
        /\ t.osl.state = ONESHOT_START
    <3>1. /\ t \in State(D, C) /\ SameReport(x, t) /\ t.oneshot_enable = x.oneshot_enable
          /\ t.layers = x.layers \cup {a.layer}
          /\ x.oneshot_enable => t.osl.layer = a.layer /\ t.osl.state = ONESHOT_START
      BY <1>2, <1>4, SetOneshotLayer
    <3> QED
      BY <2>0, <3>1
  <2>3. v \in State(D, C) /\ SameReport(s, v) /\ v.oneshot_enable = s.oneshot_enable
    BY ClearState
  <2>4. ASSUME NEW o, Momentary(s, a, o)
        PROVE  OslFits(v, o) /\ \A L : LayersFit(s, L) => LayersFit(v, L)
    <3>1. o \in 0 .. 15 /\ OslFits(s, o)
      BY <2>4 DEF Momentary
    <3> QED
      BY <1>8, <3>1, ClearFits
  <2> HIDE DEF v, t
  <2>5. w \in State(D, C) /\ SameReport(v, w) /\ w.oneshot_enable = v.oneshot_enable
    BY <2>3, ClearState
  <2>6. ASSUME NEW o, Momentary(s, a, o)
        PROVE  OslFits(w, o) /\ \A L : LayersFit(v, L) => LayersFit(w, L)
    <3>1. o \in 0 .. 15 /\ OslFits(v, o) /\ v.oneshot_enable
      BY <1>8, <2>3, <2>4, <2>6 DEF Momentary
    <3> QED
      BY <2>3, <3>1, ClearFits
  <2> HIDE DEF w
  <2>7. PressDone(D, C, s, t, a, n)
    <3>1. Keeps(D, C, s, t) /\ Adds(s, t, a, n)
      BY <1>4, <1>6, <2>2 DEF SameReport
    <3>2. ASSUME NEW o, Momentary(s, a, o)
          PROVE  AddsLayers(s, t, a, n, o)
      <4>1. OneShotLayerActive(t) /\ Kept(t) = {a.layer} /\ a.layer = o
        BY <2>2, <3>2 DEF OneShotLayerActive, ONESHOT_START, Kept, Momentary
      <4>2. Kept(s) \subseteq {o}
        BY <3>2 DEF Momentary, OslFits, Kept
      <4>3. OslFits(t, o)
        BY <1>4, <1>8, <2>2, <4>1 DEF OslFits
      <4> QED
        BY <1>4, <2>2, <4>1, <4>2, <4>3 DEF AddsLayers, LayersFit
    <3> QED
      BY <3>1, <3>2 DEF PressDone
  <2>8. ReleaseDone(D, C, s, u, a, n)
    <3>1. Keeps(D, C, s, u) /\ Removes(s, u, a, n)
      BY <1>6, <2>3, <2>5 DEF SameReport
    <3>2. ASSUME NEW o, Momentary(s, a, o)
          PROVE  RemovesLayers(s, u, a, n, o)
      <4>1. \A L : L \cup LayersOf(a, n) = L
        BY <1>1
      <4> QED
        BY <2>4, <2>6, <3>2, <4>1 DEF RemovesLayers
    <3> QED
      BY <3>1, <3>2 DEF ReleaseDone
  <2>9. ONESHOT_PRESSED \in t.osl.state
    BY <2>2 DEF ONESHOT_START
  <2> QED
    BY <2>1, <2>7, <2>8, <2>9
<1> QED
  BY <1>7, <1>8

LEMMA ActPress ==
    ASSUME NEW D, NEW C, LayerSet(D), NEW s \in State(D, C), NEW a \in Action(D, C), NEW n \in Nat
    PROVE  /\ PressDone(D, C, s, Act(s, a, TRUE, n), a, n)
           /\ a.kind = "OSL" /\ s.oneshot_enable =>
                  ONESHOT_PRESSED \in Act(s, a, TRUE, n).osl.state
<1>1. CASE Plain(a)
  <2>1. Act(s, a, TRUE, n) = ActMods(s, a, TRUE) /\ a.kind # "OSL"
    BY <1>1 DEF Act, Plain
  <2> QED
    BY <1>1, <2>1, ActModsPress, PressSameLayers
<1>2. CASE a.kind = "OSM"
  <2>1. Act(s, a, TRUE, n) = ActOneshotMods(s, a, TRUE, n)
    BY <1>2 DEF Act
  <2> QED
    BY <1>2, <2>1, ActOneshotModsDone, PressSameLayers
<1>3. CASE a.kind = "MT"
  <2>1. Act(s, a, TRUE, n) = ActModsTap(s, a, TRUE, n)
    BY <1>3 DEF Act
  <2> QED
    BY <1>3, <2>1, ActModsTapDone
<1>4. CASE a.kind \in {"MO", "LT"}
  <2>1. Act(s, a, TRUE, n) = ActLayerTap(s, a, TRUE, n) /\ a.kind # "OSL"
    BY <1>4 DEF Act
  <2> QED
    BY <1>4, <2>1, ActLayerTapDone
<1>5. CASE a.kind = "LM"
  <2>1. Act(s, a, TRUE, n) = ActLayerMods(s, a, TRUE)
    BY <1>5 DEF Act
  <2> QED
    BY <1>5, <2>1, ActLayerModsDone
<1>6. CASE a.kind = "OSL"
  <2>1. Act(s, a, TRUE, n) = ActOneshotLayer(s, a, TRUE, n)
    BY <1>6 DEF Act
  <2> QED
    BY <1>6, <2>1, ActOneshotLayerDone
<1>7. CASE a.kind \in Toggling
  <2>1. /\ a.kind # "OSL"
        /\ Act(s, a, TRUE, n) = IF a.kind = "TT" THEN ActTapToggle(s, a, TRUE, n)
                                ELSE ActLayer(s, a, TRUE)
    BY <1>7 DEF Act, Toggling
  <2> QED
    BY <1>7, <2>1, ActToggleDone
<1>8. CASE a.kind = "TRNS"
  <2>1. Act(s, a, TRUE, n) = s
    BY <1>8 DEF Act
  <2>2. SameReport(s, s) /\ SameLayers(s, s) /\ Keeps(D, C, s, s)
    BY DEF SameReport, SameLayers, Keeps
  <2> QED
    BY <1>8, <2>1, <2>2, NothingAdded, PressSameLayers
<1>9. \/ Plain(a) \/ a.kind = "OSM" \/ a.kind = "MT" \/ a.kind \in {"MO", "LT"}
      \/ a.kind = "LM" \/ a.kind = "OSL" \/ a.kind \in Toggling \/ a.kind = "TRNS"
  <2>1. a.kind \in Kinds
    BY ActionType
  <2> QED
    BY <2>1 DEF Kinds, TapKinds, Plain, Toggling
<1> QED
  BY <1>1, <1>2, <1>3, <1>4, <1>5, <1>6, <1>7, <1>8, <1>9

LEMMA ActRelease ==
    ASSUME NEW D, NEW C, LayerSet(D), NEW s \in State(D, C), NEW a \in Action(D, C), NEW n \in Nat
    PROVE  ReleaseDone(D, C, s, Act(s, a, FALSE, n), a, n)
<1>1. CASE Plain(a)
  <2>1. Act(s, a, FALSE, n) = ActMods(s, a, FALSE) /\ LayersOf(a, n) = {}
    BY <1>1 DEF Act, Plain, LayersOf
  <2> QED
    BY <1>1, <2>1, ActModsRelease, ReleaseSameLayers
<1>2. CASE a.kind = "OSM"
  <2>1. Act(s, a, FALSE, n) = ActOneshotMods(s, a, FALSE, n) /\ LayersOf(a, n) = {}
    BY <1>2 DEF Act, LayersOf
  <2> QED
    BY <1>2, <2>1, ActOneshotModsDone, ReleaseSameLayers
<1>3. CASE a.kind = "MT"
  <2>1. Act(s, a, FALSE, n) = ActModsTap(s, a, FALSE, n)
    BY <1>3 DEF Act
  <2> QED
    BY <1>3, <2>1, ActModsTapDone
<1>4. CASE a.kind \in {"MO", "LT"}
  <2>1. Act(s, a, FALSE, n) = ActLayerTap(s, a, FALSE, n)
    BY <1>4 DEF Act
  <2> QED
    BY <1>4, <2>1, ActLayerTapDone
<1>5. CASE a.kind = "LM"
  <2>1. Act(s, a, FALSE, n) = ActLayerMods(s, a, FALSE)
    BY <1>5 DEF Act
  <2> QED
    BY <1>5, <2>1, ActLayerModsDone
<1>6. CASE a.kind = "OSL"
  <2>1. Act(s, a, FALSE, n) = ActOneshotLayer(s, a, FALSE, n)
    BY <1>6 DEF Act
  <2> QED
    BY <1>6, <2>1, ActOneshotLayerDone
<1>7. CASE a.kind \in Toggling
  <2>1. Act(s, a, FALSE, n) = IF a.kind = "TT" THEN ActTapToggle(s, a, FALSE, n)
                              ELSE ActLayer(s, a, FALSE)
    BY <1>7 DEF Act, Toggling
  <2> QED
    BY <1>7, <2>1, ActToggleDone
<1>8. CASE a.kind = "TRNS"
  <2>1. Act(s, a, FALSE, n) = s
    BY <1>8 DEF Act
  <2>2. SameReport(s, s) /\ SameLayers(s, s) /\ Keeps(D, C, s, s)
    BY DEF SameReport, SameLayers, Keeps
  <2>3. KeysOf(a, n) = {} /\ ModsOf(a, n) = {} /\ WeakOf(a) = {} /\ LayersOf(a, n) = {}
    BY <1>8 DEF KeysOf, ModsOf, WeakOf, Plain, Taps, LayersOf
  <2> QED
    BY <2>1, <2>2, <2>3, NothingRemoved, ReleaseSameLayers
<1>9. \/ Plain(a) \/ a.kind = "OSM" \/ a.kind = "MT" \/ a.kind \in {"MO", "LT"}
      \/ a.kind = "LM" \/ a.kind = "OSL" \/ a.kind \in Toggling \/ a.kind = "TRNS"
  <2>1. a.kind \in Kinds
    BY ActionType
  <2> QED
    BY <2>1 DEF Kinds, TapKinds, Plain, Toggling
<1> QED
  BY <1>1, <1>2, <1>3, <1>4, <1>5, <1>6, <1>7, <1>8, <1>9
-----------------------------------------------------------------------------
(* process_action: a press that ends a one-shot layer is followed by an    *)
(* artificial release, after which the key counts as held all the same.    *)

\* What the key added, it may as well have added and lost again.
LEMMA AddsThenRemoves ==
    ASSUME NEW s, NEW u, NEW v, NEW w, NEW r, NEW a, NEW n,
           v.oneshot_enable = s.oneshot_enable,
           Adds(s, u, a, n), SameReport(u, v), Removes(v, w, a, n), SameReport(w, r)
    PROVE  Adds(s, r, a, n)
<1>1. \A W : Reported(u, W) => Reported(v, W)
  BY DEF SameReport, Reported, Shown
<1>2. \A W : Reported(w, W) => Reported(r, W \cup WeakOf(a))
  BY DEF SameReport, Reported, Shown
<1>3. OneShotFits(s, a) => OneShotFits(v, a)
  BY DEF OneShotFits, Adds, SameReport
<1> QED
  BY <1>1, <1>2, <1>3 DEF Adds, Removes, SameReport, Shown

\* A function that leaves keys and modifiers alone comes first.
LEMMA SameThenAdds ==
    ASSUME NEW s, NEW t, NEW u, NEW a, NEW n, SameReport(s, t), Adds(t, u, a, n),
           OneShotFits(s, a) => OneShotFits(t, a)
    PROVE  Adds(s, u, a, n)
<1>1. \A W : Reported(s, W) => Reported(t, W)
  BY DEF SameReport, Reported, Shown
<1> QED
  BY <1>1 DEF Adds, SameReport, Shown

LEMMA ProcessPress ==
    ASSUME NEW D, NEW C, LayerSet(D), NEW s \in State(D, C), NEW a \in Action(D, C), NEW n \in Nat
    PROVE  LET r == process_action(s, a, TRUE, n)
           IN  /\ Keeps(D, C, s, r) /\ Adds(s, r, a, n)
               /\ a.kind # "OSL" /\ ~OneShotLayerActive(s) => ~OneShotLayerActive(r)
               /\ \A o : Momentary(s, a, o) => AddsLayers(s, r, a, n, o)
<1> DEFINE ends == EndsOneShot(s, a, TRUE, n)
           c == clear_oneshot_layer_state(s, ONESHOT_OTHER_KEY_PRESSED)
           t == IF ends THEN c ELSE s
           u == Act(t, a, TRUE, n)
           v == layer_on(u, get_oneshot_layer(u))
           w == Act(v, a, FALSE, n)
           x == layer_off(w, get_oneshot_layer(w))
           back == (ends /\ ~OneShotLayerActive(t)) /\ ONESHOT_PRESSED \notin u.osl.state
           r == IF back THEN x ELSE u
<1>1. process_action(s, a, TRUE, n) = r
  BY DEF process_action
<1>2. /\ c \in State(D, C) /\ SameReport(s, c) /\ c.oneshot_enable = s.oneshot_enable
      /\ OneShotEnds(s, c, ONESHOT_OTHER_KEY_PRESSED)
  BY ClearState
<1>3. ends => s.oneshot_enable
  BY DEF EndsOneShot
<1>4. ASSUME NEW o, Momentary(s, a, o), ends
      PROVE  OslFits(c, o) /\ \A L : LayersFit(s, L) => LayersFit(c, L)
  <2>1. o \in 0 .. 15 /\ OslFits(s, o)
    BY <1>4 DEF Momentary
  <2> QED
    BY <1>3, <1>4, <2>1, ClearFits
<1> HIDE DEF ends, c
<1>5. /\ t \in State(D, C) /\ SameReport(s, t) /\ t.oneshot_enable = s.oneshot_enable
      /\ ~OneShotLayerActive(s) => ~OneShotLayerActive(t)
  BY <1>2 DEF SameReport, OneShotLayerActive, OneShotEnds
<1>6. ASSUME NEW o, Momentary(s, a, o)
      PROVE  Momentary(t, a, o) /\ \A L : LayersFit(s, L) => LayersFit(t, L)
  BY <1>4, <1>5, <1>6 DEF Momentary
<1>7. OneShotFits(s, a) => OneShotFits(t, a)
  BY <1>5 DEF OneShotFits, SameReport
<1> HIDE DEF t
<1>8. /\ PressDone(D, C, t, u, a, n)
      /\ a.kind = "OSL" /\ t.oneshot_enable => ONESHOT_PRESSED \in u.osl.state
  BY <1>5, ActPress
<1> HIDE DEF u
<1>9. u \in State(D, C) /\ u.oneshot_enable = s.oneshot_enable /\ Adds(s, u, a, n)
  BY <1>5, <1>7, <1>8, SameThenAdds DEF PressDone, Keeps
<1>10. a.kind # "OSL" /\ ~OneShotLayerActive(s) => ~OneShotLayerActive(u)
  BY <1>5, <1>8 DEF PressDone, OneShotLayerActive
<1>11. ASSUME NEW o, Momentary(s, a, o)
       PROVE  AddsLayers(s, u, a, n, o)
  BY <1>6, <1>8, <1>11 DEF PressDone, AddsLayers
<1>12. CASE ~back
  <2>1. r = u
    BY <1>12
  <2> HIDE DEF r
  <2> QED
    BY <1>1, <1>9, <1>10, <1>11, <2>1 DEF Keeps
<1>13. CASE back
  <2>1. Bit(get_oneshot_layer(u)) \subseteq D
    BY <1>9, OneShotBit
  <2>2. /\ v \in State(D, C) /\ SameReport(u, v) /\ v.oneshot_enable = u.oneshot_enable
        /\ v.osl = u.osl /\ v.layers = u.layers \cup Bit(get_oneshot_layer(u))
    BY <1>9, <2>1, LayerOn
  <2> HIDE DEF v
  <2>4. ReleaseDone(D, C, v, w, a, n)
    BY <2>2, ActRelease
  <2> HIDE DEF w
  <2>5. w \in State(D, C) /\ w.oneshot_enable = v.oneshot_enable /\ Removes(v, w, a, n)
    BY <2>4 DEF ReleaseDone, Keeps
  <2>6. /\ x \in State(D, C) /\ SameReport(w, x) /\ x.oneshot_enable = w.oneshot_enable
        /\ x.osl = w.osl /\ x.layers = w.layers \ Bit(get_oneshot_layer(w))
    BY <2>5, LayerOff
  <2>7. r = x
    BY <1>13
  <2> HIDE DEF x, r
  <2>8. Keeps(D, C, s, x) /\ Adds(s, x, a, n)
    BY <1>9, <2>2, <2>5, <2>6, AddsThenRemoves DEF Keeps
  <2>9. a.kind # "OSL" => x.osl = u.osl
    BY <2>2, <2>4, <2>6 DEF ReleaseDone
  <2>10. a.kind # "OSL" /\ ~OneShotLayerActive(s) => ~OneShotLayerActive(x)
    BY <1>10, <2>9 DEF OneShotLayerActive
  <2>11. ASSUME NEW o, Momentary(s, a, o)
         PROVE  AddsLayers(s, x, a, n, o)
    <3>1. a.kind # "OSL" /\ ~OneShotLayerActive(u)
      <4>1. ~(a.kind = "OSL" /\ t.oneshot_enable) /\ ~OneShotLayerActive(t)
        BY <1>8, <1>13
      <4>2. a.kind # "OSL"
        BY <1>6, <2>11, <4>1 DEF Momentary
      <4> QED
        BY <1>8, <4>1, <4>2 DEF PressDone, OneShotLayerActive
    <3> DEFINE B == Bit(get_oneshot_layer(u))
    <3>2. w.osl = u.osl /\ get_oneshot_layer(w) = get_oneshot_layer(u)
      BY <2>2, <2>4, <3>1 DEF ReleaseDone, get_oneshot_layer
    <3>3. Momentary(v, a, o)
      BY <2>2, <2>11, <3>1 DEF Momentary, OslFits, OneShotLayerActive
    <3>4. RemovesLayers(v, w, a, n, o)
      BY <2>4, <3>3 DEF ReleaseDone
    <3>5. Kept(u) = {} /\ Kept(v) = {} /\ Kept(w) = {} /\ Kept(x) = {}
      BY <2>2, <2>6, <3>1, <3>2 DEF Kept, OneShotLayerActive
    <3>6. OslFits(x, o)
      BY <2>6, <3>1, <3>2 DEF OslFits, OneShotLayerActive
    <3>7. ASSUME NEW L, LayersFit(s, L)
          PROVE  LayersFit(x, L \cup LayersOf(a, n))
      <4>1. u.layers \subseteq L \cup LayersOf(a, n)
        BY <1>11, <2>11, <3>5, <3>7 DEF AddsLayers, LayersFit
      <4>2. LayersFit(v, (L \cup B) \cup LayersOf(a, n))
        BY <2>2, <4>1 DEF LayersFit
      <4>3. LayersFit(w, L \cup B)
        BY <3>4, <4>2 DEF RemovesLayers
      <4>4. w.layers \subseteq L \cup B
        BY <3>5, <4>3 DEF LayersFit
      <4> QED
        BY <2>6, <3>2, <4>4 DEF LayersFit
    <3> QED
      BY <3>6, <3>7 DEF AddsLayers
  <2> QED
    BY <1>1, <2>7, <2>8, <2>10, <2>11
<1> QED
  BY <1>12, <1>13

LEMMA ProcessRelease ==
    ASSUME NEW D, NEW C, LayerSet(D), NEW s \in State(D, C), NEW a \in Action(D, C), NEW n \in Nat
    PROVE  ReleaseDone(D, C, s, process_record(s, a, FALSE, n), a, n)
<1>1. ~EndsOneShot(s, a, FALSE, n)
  BY DEF EndsOneShot
<1>2. process_record(s, a, FALSE, n) = Act(s, a, FALSE, n)
  BY <1>1 DEF process_record, process_action
<1> QED
  BY <1>2, ActRelease

\* process_record: the key that turns one-shot keys on and off does so first.
LEMMA RecordPress ==
    ASSUME NEW D, NEW C, LayerSet(D), NEW s \in State(D, C), NEW a \in Action(D, C), NEW n \in Nat
    PROVE  LET r == process_record(s, a, TRUE, n)
           IN  /\ r \in State(D, C) /\ Adds(s, r, a, n)
               /\ a.kind # "OS_TOGG" => r.oneshot_enable = s.oneshot_enable
               /\ a.kind # "OSL" /\ ~OneShotLayerActive(s) => ~OneShotLayerActive(r)
               /\ \A o : Momentary(s, a, o) /\ (a.kind = "OS_TOGG" => ~OneShotLayerActive(s))
                         => AddsLayers(s, r, a, n, o)
<1>1. CASE a.kind # "OS_TOGG"
  <2>1. process_record(s, a, TRUE, n) = process_action(s, a, TRUE, n)
    BY <1>1 DEF process_record
  <2>2. LET r == process_action(s, a, TRUE, n)
        IN  /\ Keeps(D, C, s, r) /\ Adds(s, r, a, n)
            /\ a.kind # "OSL" /\ ~OneShotLayerActive(s) => ~OneShotLayerActive(r)
            /\ \A o : Momentary(s, a, o) => AddsLayers(s, r, a, n, o)
    BY ProcessPress
  <2> QED
    BY <2>1, <2>2 DEF Keeps
<1>2. CASE a.kind = "OS_TOGG"
  <2> DEFINE e == [s EXCEPT !.oneshot_enable = ~s.oneshot_enable]
             t == clear_oneshot_layer_state(e, ONESHOT_OTHER_KEY_PRESSED)
             r == process_action(t, a, TRUE, n)
  <2>1. process_record(s, a, TRUE, n) = r
    <3>1. s.oneshot_enable # ~s.oneshot_enable
      BY DEF State
    <3> QED
      BY <1>2, <3>1 DEF process_record, oneshot_set
  <2>2. e \in State(D, C) /\ SameReport(s, e) /\ e.layers = s.layers /\ e.osl = s.osl
    BY DEF State, SameReport
  <2> HIDE DEF e
  <2>3. t \in State(D, C) /\ SameReport(e, t) /\ OneShotEnds(e, t, ONESHOT_OTHER_KEY_PRESSED)
    BY <2>2, ClearState
  <2> HIDE DEF t
  <2>4. SameReport(s, t) /\ OneShotFits(t, a)
    BY <1>2, <2>2, <2>3 DEF SameReport, OneShotFits
  <2>5. /\ Keeps(D, C, t, r) /\ Adds(t, r, a, n)
        /\ a.kind # "OSL" /\ ~OneShotLayerActive(t) => ~OneShotLayerActive(r)
        /\ \A o : Momentary(t, a, o) => AddsLayers(t, r, a, n, o)
    BY <2>3, <2>4, ProcessPress
  <2> HIDE DEF r
  <2>6. ~OneShotLayerActive(s) => ~OneShotLayerActive(t) /\ t.layers \subseteq s.layers
    BY <2>2, <2>3 DEF OneShotLayerActive, OneShotEnds
  <2>7. r \in State(D, C) /\ Adds(s, r, a, n)
    BY <2>4, <2>5, SameThenAdds DEF Keeps
  <2>8. ASSUME NEW o, Momentary(s, a, o), ~OneShotLayerActive(s)
        PROVE  AddsLayers(s, r, a, n, o)
    <3>1. Momentary(t, a, o)
      BY <1>2, <2>6, <2>8 DEF Momentary, OslFits
    <3>2. \A L : LayersFit(s, L) => LayersFit(t, L)
      BY <2>6, <2>8 DEF LayersFit, Kept
    <3> QED
      BY <2>5, <3>1, <3>2 DEF AddsLayers
  <2> QED
    BY <1>2, <2>1, <2>5, <2>6, <2>7, <2>8
<1> QED
  BY <1>1, <1>2
-----------------------------------------------------------------------------
(* The keyboard as a whole. *)

MapActions(m) == {m[l][k] : l \in DOMAIN m, k \in Keys}

Event == [key : Keys, pressed : BOOLEAN]

Types ==
    /\ keymap \in Keymaps
    /\ kb \in State(Layers, KeymapCodes(keymap))
    /\ source_layers_cache \in [Keys -> Layers] /\ tap \in [Keys -> Nat]
    /\ down \subseteq Keys /\ waiting \in Seq(Event)

LEMMA KeymapTypes ==
    ASSUME keymap \in Keymaps
    PROVE  /\ LayerSet(Layers)
           /\ \A l \in Layers, k \in Keys :
                  /\ keymap[l][k] \in Action(Layers, KeymapCodes(keymap))
                  /\ keymap[l][k] \in MapActions(keymap)
<1>1. /\ 0 \in DOMAIN keymap /\ DOMAIN keymap \subseteq 0 .. 31
      /\ \A l \in DOMAIN keymap, k \in Keys :
             keymap[l][k] \in [kind : Kinds, layer : DOMAIN keymap, mods : SUBSET Mods,
                               code : KeymapCodes(keymap)]
  BY KeymapAssumption
<1>2. \A l \in Layers, k \in Keys : keymap[l][k] \in Action(Layers, KeymapCodes(keymap))
  BY <1>1 DEF Action, Layers
<1> QED
  BY <1>1, <1>2 DEF LayerSet, Layers, MapActions

Less == {p \in Nat \X Nat : p[1] < p[2]}

\* A set of layers that is not empty has a topmost layer.
LEMMA TopmostExists ==
    ASSUME NEW S, S \subseteq 0 .. 31, S # {}
    PROVE  \E l \in S : \A m \in S : m =< l
<1> DEFINE T == {31 - l : l \in S}
<1>1. T \subseteq Nat /\ T # {}
  <2>1. ASSUME NEW l \in S
        PROVE  31 - l \in Nat
    <3>1. l \in 0 .. 31
      OBVIOUS
    <3> QED
      BY <3>1
  <2>2. PICK l \in S : TRUE
    OBVIOUS
  <2>3. 31 - l \in T
    OBVIOUS
  <2> QED
    BY <2>1, <2>3
<1>2. IsWellFoundedOn(Less, Nat)
  BY NatLessThanWellFounded DEF OpToRel, Less
<1>3. PICK x \in T : \A y \in T : ~ (<<y, x>> \in Less)
  <2> HIDE DEF T
  <2> QED
    BY <1>1, <1>2, WFMin
<1>4. PICK l \in S : x = 31 - l
  BY <1>3
<1>5. ASSUME NEW m \in S
      PROVE  m =< l
  <2>1. 31 - m \in T /\ 31 - m \in Nat /\ x \in Nat /\ m \in Int /\ l \in Int
    BY <1>1, <1>4
  <2>2. ~ (31 - m < x)
    BY <1>3, <2>1 DEF Less
  <2> QED
    BY <1>4, <2>1, <2>2
<1> QED
  BY <1>5

\* store_or_get_action finds a layer of the keymap.
LEMMA SwitchType ==
    ASSUME Types, NEW k \in Keys
    PROVE  layer_switch_get_layer(kb, k) \in Layers
<1> DEFINE solid == {l \in kb.layers \cup kb.default_layers : keymap[l][k].kind # "TRNS"}
<1>1. LayerSet(Layers)
  BY KeymapTypes DEF Types
<1>2. kb.layers \subseteq Layers /\ kb.default_layers \subseteq Layers
  BY DEF Types, State
<1>3. solid \subseteq Layers /\ solid \subseteq 0 .. 31 /\ 0 \in Layers
  BY <1>1, <1>2 DEF LayerSet
<1>4. layer_switch_get_layer(kb, k) =
          IF solid = {} THEN 0 ELSE CHOOSE l \in solid : \A m \in solid : m <= l
  BY DEF layer_switch_get_layer
<1> HIDE DEF solid
<1>5. solid # {} => \E l \in solid : \A m \in solid : m <= l
  BY <1>3, TopmostExists
<1> QED
  BY <1>3, <1>4, <1>5

ActionOf(k) == keymap[source_layers_cache[k]][k]

\* The next event of the queue is the press of k, found on layer l, with n taps.
Presses(k, l, n) ==
    /\ Head(waiting).key = k /\ Head(waiting).pressed
    /\ l = SourceLayer(Head(waiting))
    /\ keymap[l][k].kind = "OSM" => n =< MaxTaps["OSM"]
    /\ kb' = process_record(kb, keymap[l][k], TRUE, n)
    /\ source_layers_cache' = [source_layers_cache EXCEPT ![k] = l]
    /\ tap' = [tap EXCEPT ![k] = n]

\* It is the release of k.
Releases(k) ==
    /\ Head(waiting).key = k /\ ~Head(waiting).pressed
    /\ kb' = process_record(kb, ActionOf(k), FALSE, tap[k])
    /\ UNCHANGED <<source_layers_cache, tap>>

LEMMA HeadType ==
    ASSUME Types, waiting # <<>>
    PROVE  /\ Len(waiting) \in Nat /\ Len(waiting) >= 1 /\ Head(waiting) = waiting[1]
           /\ Head(waiting) \in Event /\ Head(waiting).key \in Keys
           /\ Head(waiting).pressed \in BOOLEAN
           /\ Tail(waiting) \in Seq(Event)
<1>1. waiting \in Seq(Event)
  BY DEF Types
<1>2. Len(waiting) \in Nat /\ Len(waiting) >= 1 /\ Head(waiting) = waiting[1]
      /\ Head(waiting) \in Event /\ Tail(waiting) \in Seq(Event)
  BY <1>1
<1> QED
  BY <1>2 DEF Event

LEMMA ProcessCases ==
    ASSUME Types, Process
    PROVE  /\ waiting # <<>> /\ waiting' = Tail(waiting) /\ keymap' = keymap /\ down' = down
           /\ \/ \E k \in Keys, l \in Layers, n \in Nat : Presses(k, l, n)
              \/ \E k \in Keys : Releases(k)
<1>1. waiting # <<>> /\ waiting' = Tail(waiting) /\ keymap' = keymap /\ down' = down
  BY DEF Process
<1> DEFINE r == Head(waiting)
           k == r.key
           l == SourceLayer(r)
           a == keymap[l][k]
<1>2. PICK taps \in IF r.pressed /\ a.kind \in TapKinds THEN 0 .. MaxTaps[a.kind]
                    ELSE IF r.pressed THEN {0} ELSE {tap[k]} :
         /\ kb' = process_record(kb, a, r.pressed, taps)
         /\ source_layers_cache' = [source_layers_cache EXCEPT ![k] = l]
         /\ tap' = [tap EXCEPT ![k] = taps]
  BY DEF Process
<1>3. k \in Keys /\ r.pressed \in BOOLEAN
  BY <1>1, HeadType
<1>4. CASE r.pressed = TRUE
  <2>1. l \in Layers
    BY <1>3, <1>4, SwitchType DEF SourceLayer
  <2>2. \A x \in TapKinds : MaxTaps[x] \in Nat
    BY TapAssumption
  <2>3. taps \in Nat
    BY <1>2, <1>4, <2>2
  <2>4. a.kind = "OSM" => taps =< MaxTaps["OSM"]
    BY <1>2, <1>4, <2>2 DEF TapKinds
  <2>5. Presses(k, l, taps)
    BY <1>2, <1>4, <2>4 DEF Presses
  <2> QED
    BY <1>1, <1>3, <2>1, <2>3, <2>5
<1>5. CASE r.pressed = FALSE
  <2>1. l = source_layers_cache[k] /\ taps = tap[k]
    BY <1>2, <1>5 DEF SourceLayer
  <2>2. source_layers_cache' = source_layers_cache /\ tap' = tap
    BY <1>2, <1>3, <2>1 DEF Types
  <2>3. kb' = process_record(kb, ActionOf(k), FALSE, tap[k])
    BY <1>2, <1>5, <2>1 DEF ActionOf
  <2>4. Releases(k)
    BY <1>5, <2>2, <2>3 DEF Releases
  <2> QED
    BY <1>1, <1>3, <2>4
<1> QED
  BY <1>3, <1>4, <1>5
\* The queue from the keys held when its first event is processed: an event
\* changes whether its key is held, and the last one leaves the keys that are down.
Moves(g, e, h) ==
    IF e.pressed THEN e.key \notin g /\ h = g \cup {e.key}
    ELSE e.key \in g /\ h = g \ {e.key}

Replay(H) ==
    /\ H[0] \subseteq Keys
    /\ H[Len(waiting)] = down
    /\ \A i \in 1 .. Len(waiting) : Moves(H[i - 1], waiting[i], H[i])

LEMMA ReplayTail ==
    ASSUME Types, waiting # <<>>, waiting' = Tail(waiting), down' = down, NEW H, Replay(H)
    PROVE  /\ Moves(H[0], Head(waiting), H[1])
           /\ \E G : Replay(G)' /\ G[0] = H[1]
<1>0. waiting \in Seq(Event) /\ Len(waiting) \in Nat /\ Len(waiting) >= 1
      /\ Head(waiting) = waiting[1] /\ Head(waiting).key \in Keys
  BY HeadType DEF Types
<1>1. Moves(H[0], Head(waiting), H[1])
  BY <1>0 DEF Replay
<1>2. PICK G : G = [i \in 0 .. Len(waiting) - 1 |-> H[i + 1]]
  OBVIOUS
<1>3. Len(waiting') = Len(waiting) - 1
      /\ \A i \in 1 .. Len(waiting) - 1 : waiting'[i] = waiting[i + 1]
  BY <1>0
<1>4. G[0] = H[1] /\ G[Len(waiting')] = H[Len(waiting)]
  BY <1>0, <1>2, <1>3
<1>5. H[1] \subseteq Keys
  BY <1>0, <1>1 DEF Moves, Replay
<1>6. ASSUME NEW i \in 1 .. Len(waiting')
      PROVE  Moves(G[i - 1], waiting'[i], G[i])
  <2>1. i \in Int /\ i >= 1 /\ i =< Len(waiting) - 1
    BY <1>0, <1>3
  <2>2. i + 1 \in 1 .. Len(waiting) /\ (i + 1) - 1 = i /\ (i - 1) + 1 = i
        /\ i \in 0 .. Len(waiting) - 1 /\ i - 1 \in 0 .. Len(waiting) - 1
    BY <1>0, <2>1
  <2>3. Moves(H[i], waiting[i + 1], H[i + 1])
    BY <2>2 DEF Replay
  <2>4. G[i - 1] = H[i] /\ G[i] = H[i + 1] /\ waiting'[i] = waiting[i + 1]
    BY <1>2, <1>3, <2>1, <2>2
  <2> QED
    BY <2>3, <2>4
<1>7. Replay(G)'
  BY <1>4, <1>5, <1>6 DEF Replay
<1> QED
  BY <1>1, <1>4, <1>7

LEMMA ReplayAppend ==
    ASSUME Types, NEW e \in Event, waiting' = Append(waiting, e), Moves(down, e, down'),
           NEW H, Replay(H)
    PROVE  \E G : Replay(G)' /\ G[0] = H[0]
<1>0. waiting \in Seq(Event) /\ Len(waiting) \in Nat
  BY DEF Types
<1>1. PICK d : d = down'
  OBVIOUS
<1>2. PICK G : G = [i \in 0 .. Len(waiting) + 1 |-> IF i =< Len(waiting) THEN H[i] ELSE d]
  OBVIOUS
<1>3. Len(waiting') = Len(waiting) + 1 /\ waiting'[Len(waiting) + 1] = e
      /\ \A i \in 1 .. Len(waiting) : waiting'[i] = waiting[i]
  BY <1>0
<1>4. \A i \in 0 .. Len(waiting) : G[i] = H[i]
  BY <1>0, <1>2
<1>5. G[Len(waiting) + 1] = d /\ G[0] = H[0] /\ G[Len(waiting)] = down
  BY <1>0, <1>2, <1>4 DEF Replay
<1>6. ASSUME NEW i \in 1 .. Len(waiting')
      PROVE  Moves(G[i - 1], waiting'[i], G[i])
  <2>1. i \in Int /\ i >= 1 /\ i =< Len(waiting) + 1
    BY <1>0, <1>3
  <2>2. CASE i = Len(waiting) + 1
    <3>1. i - 1 = Len(waiting)
      BY <1>0, <2>2
    <3> QED
      BY <1>1, <1>3, <1>5, <2>2, <3>1
  <2>3. CASE i # Len(waiting) + 1
    <3>1. i \in 1 .. Len(waiting) /\ i \in 0 .. Len(waiting) /\ i - 1 \in 0 .. Len(waiting)
      BY <1>0, <2>1, <2>3
    <3>2. Moves(H[i - 1], waiting[i], H[i])
      BY <3>1 DEF Replay
    <3> QED
      BY <1>3, <1>4, <3>1, <3>2
  <2> QED
    BY <2>2, <2>3
<1>7. Replay(G)'
  BY <1>1, <1>3, <1>5, <1>6 DEF Replay
<1> QED
  BY <1>5, <1>7
-----------------------------------------------------------------------------
(* What the keys of a set have added. *)

HeldKeys(h)   == UNION {KeysOf(ActionOf(k), tap[k]) : k \in h}
HeldMods(h)   == UNION {ModsOf(ActionOf(k), tap[k]) : k \in h}
HeldWeak(h)   == UNION {WeakOf(ActionOf(k)) : k \in h}
HeldLayers(h) == UNION {LayersOf(ActionOf(k), tap[k]) : k \in h}

LEMMA HeldSame ==
    ASSUME UNCHANGED <<keymap, source_layers_cache, tap>>, NEW h
    PROVE  /\ HeldKeys(h)' = HeldKeys(h) /\ HeldMods(h)' = HeldMods(h)
           /\ HeldWeak(h)' = HeldWeak(h) /\ HeldLayers(h)' = HeldLayers(h)
           /\ \A j : ActionOf(j)' = ActionOf(j) /\ tap'[j] = tap[j]
<1>1. \A j : ActionOf(j)' = ActionOf(j) /\ tap'[j] = tap[j]
  BY DEF ActionOf
<1> QED
  BY <1>1 DEF HeldKeys, HeldMods, HeldWeak, HeldLayers, KeysOf, ModsOf, WeakOf, LayersOf,
              KeyOf, ModOf, Plain, Taps, Strong

LEMMA HeldRelease ==
    ASSUME NEW h, NEW k \in h
    PROVE  LET a == ActionOf(k)
               g == h \ {k}
           IN  /\ HeldKeys(h) = HeldKeys(g) \cup KeysOf(a, tap[k])
               /\ HeldMods(h) = HeldMods(g) \cup ModsOf(a, tap[k])
               /\ HeldWeak(h) = HeldWeak(g) \cup WeakOf(a)
               /\ HeldLayers(h) = HeldLayers(g) \cup LayersOf(a, tap[k])
<1>1. HeldKeys(h) = HeldKeys(h \ {k}) \cup KeysOf(ActionOf(k), tap[k])
  BY DEF HeldKeys
<1>2. HeldMods(h) = HeldMods(h \ {k}) \cup ModsOf(ActionOf(k), tap[k])
  BY DEF HeldMods
<1>3. HeldWeak(h) = HeldWeak(h \ {k}) \cup WeakOf(ActionOf(k))
  BY DEF HeldWeak
<1>4. HeldLayers(h) = HeldLayers(h \ {k}) \cup LayersOf(ActionOf(k), tap[k])
  BY DEF HeldLayers
<1> QED
  BY <1>1, <1>2, <1>3, <1>4
-----------------------------------------------------------------------------
(* The conditions on keymaps, and the invariant. *)

\* The one-shot modifier keys of a keymap all have the same modifiers, and a
\* keymap that has one has no key that turns one-shot keys off.
OneShotAlike(m) ==
    \A a, b \in MapActions(m) : a.kind = "OSM" =>
        b.kind # "OS_TOGG" /\ (b.kind = "OSM" => b.mods = a.mods)

HasOSL(m) == \E a \in MapActions(m) : a.kind = "OSL"

\* The keymap toggles no layer, its one-shot layer keys all name layer o, and a
\* keymap that has one has no key that turns one-shot keys off.
OneLayer(m, o) ==
    /\ o \in 0 .. 15
    /\ \A a \in MapActions(m) :
           /\ a.kind \notin Toggling
           /\ a.kind = "OSL" => a.layer = o
           /\ a.kind = "OS_TOGG" => ~HasOSL(m)

ModsHeld(h) ==
    /\ kb.real_mods \subseteq HeldMods(h)
    /\ \A a \in MapActions(keymap) : OneShotFits(kb, a)

ReportHeld(h) ==
    /\ Reported(kb, HeldWeak(h))
    /\ \A k \in h : ActionOf(k).kind = "OSM" => tap[k] =< 1

LayersHeld(h, o) ==
    /\ LayersFit(kb, HeldLayers(h)) /\ OslFits(kb, o)
    /\ HasOSL(keymap) => kb.oneshot_enable
    /\ OneShotLayerActive(kb) => HasOSL(keymap)

\* The state has nothing but what the keys of h have added.
Held(h) ==
    /\ kb.keys \subseteq HeldKeys(h) /\ Shown(kb)
    /\ OneShotAlike(keymap) => ModsHeld(h)
    /\ OneShotAlike(keymap) /\ MaxTaps["OSM"] =< 1 => ReportHeld(h)
    /\ \A o : OneLayer(keymap, o) => LayersHeld(h, o)

\* The inductive invariant.
HeldInv == Types /\ \E H : Replay(H) /\ Held(H[0])
LEMMA PressHolds ==
    ASSUME Types, keymap' = keymap, NEW h, h \subseteq Keys, NEW k \in Keys, k \notin h,
           NEW l \in Layers, NEW n \in Nat, Presses(k, l, n), Held(h)
    PROVE  kb' \in State(Layers, KeymapCodes(keymap)) /\ Held(h \cup {k})'
<1> DEFINE a == keymap[l][k]
           g == h \cup {k}
<1>1. LayerSet(Layers) /\ kb \in State(Layers, KeymapCodes(keymap))
      /\ a \in Action(Layers, KeymapCodes(keymap)) /\ a \in MapActions(keymap)
  BY KeymapTypes DEF Types
<1>2. kb' = process_record(kb, a, TRUE, n) /\ (a.kind = "OSM" => n =< MaxTaps["OSM"])
  BY DEF Presses
<1>3. /\ kb' \in State(Layers, KeymapCodes(keymap)) /\ Adds(kb, kb', a, n)
      /\ a.kind # "OS_TOGG" => kb'.oneshot_enable = kb.oneshot_enable
      /\ a.kind # "OSL" /\ ~OneShotLayerActive(kb) => ~OneShotLayerActive(kb')
      /\ \A o : Momentary(kb, a, o) /\ (a.kind = "OS_TOGG" => ~OneShotLayerActive(kb))
                => AddsLayers(kb, kb', a, n, o)
  <2> HIDE DEF a
  <2>1. LET r == process_record(kb, a, TRUE, n)
        IN  /\ r \in State(Layers, KeymapCodes(keymap)) /\ Adds(kb, r, a, n)
            /\ a.kind # "OS_TOGG" => r.oneshot_enable = kb.oneshot_enable
            /\ a.kind # "OSL" /\ ~OneShotLayerActive(kb) => ~OneShotLayerActive(r)
            /\ \A o : Momentary(kb, a, o) /\ (a.kind = "OS_TOGG" => ~OneShotLayerActive(kb))
                      => AddsLayers(kb, r, a, n, o)
    BY <1>1, RecordPress
  <2> QED
    BY <1>2, <2>1
<1>4. /\ HeldKeys(g)' = HeldKeys(h) \cup KeysOf(a, n)
      /\ HeldMods(g)' = HeldMods(h) \cup ModsOf(a, n)
      /\ HeldWeak(g)' = HeldWeak(h) \cup WeakOf(a)
      /\ HeldLayers(g)' = HeldLayers(h) \cup LayersOf(a, n)
      /\ \A j \in h : ActionOf(j)' = ActionOf(j) /\ tap'[j] = tap[j]
      /\ ActionOf(k)' = a /\ tap'[k] = n
  <2>1. \A j \in h : ActionOf(j)' = ActionOf(j) /\ tap'[j] = tap[j]
    BY DEF Types, ActionOf, Presses
  <2>2. ActionOf(k)' = a /\ tap'[k] = n
    BY DEF Types, ActionOf, Presses
  <2>3. HeldKeys(g)' = HeldKeys(h) \cup KeysOf(a, n)
    <3>1. \A j \in h : KeysOf(ActionOf(j), tap[j])' = KeysOf(ActionOf(j), tap[j])
      BY <2>1 DEF KeysOf, Plain, Taps, KeyOf
    <3>2. KeysOf(ActionOf(k), tap[k])' = KeysOf(a, n)
      BY <2>2 DEF KeysOf, Plain, Taps, KeyOf
    <3> QED
      BY <3>1, <3>2 DEF HeldKeys
  <2>4. HeldMods(g)' = HeldMods(h) \cup ModsOf(a, n)
    <3>1. \A j \in h : ModsOf(ActionOf(j), tap[j])' = ModsOf(ActionOf(j), tap[j])
      BY <2>1 DEF ModsOf, Plain, Taps, ModOf, Strong
    <3>2. ModsOf(ActionOf(k), tap[k])' = ModsOf(a, n)
      BY <2>2 DEF ModsOf, Plain, Taps, ModOf, Strong
    <3> QED
      BY <3>1, <3>2 DEF HeldMods
  <2>5. HeldWeak(g)' = HeldWeak(h) \cup WeakOf(a)
    <3>1. \A j \in h : WeakOf(ActionOf(j))' = WeakOf(ActionOf(j))
      BY <2>1 DEF WeakOf, Plain, Strong
    <3>2. WeakOf(ActionOf(k))' = WeakOf(a)
      BY <2>2 DEF WeakOf, Plain, Strong
    <3> QED
      BY <3>1, <3>2 DEF HeldWeak
  <2>6. HeldLayers(g)' = HeldLayers(h) \cup LayersOf(a, n)
    <3>1. \A j \in h : LayersOf(ActionOf(j), tap[j])' = LayersOf(ActionOf(j), tap[j])
      BY <2>1 DEF LayersOf
    <3>2. LayersOf(ActionOf(k), tap[k])' = LayersOf(a, n)
      BY <2>2 DEF LayersOf
    <3> QED
      BY <3>1, <3>2 DEF HeldLayers
  <2> QED
    BY <2>1, <2>2, <2>3, <2>4, <2>5, <2>6
<1>5. (kb.keys \subseteq HeldKeys(g))' /\ Shown(kb)'
  <2>1. kb'.keys \subseteq kb.keys \cup KeysOf(a, n) /\ Shown(kb')
    BY <1>3 DEF Adds, Held
  <2>2. Shown(kb)' = Shown(kb')
    BY DEF Shown
  <2> QED
    BY <1>4, <2>1, <2>2 DEF Held
<1>6. ASSUME OneShotAlike(keymap)
      PROVE  ModsHeld(g)'
  <2>1. kb.real_mods \subseteq HeldMods(h) /\ \A b \in MapActions(keymap) : OneShotFits(kb, b)
    BY <1>6 DEF Held, ModsHeld
  <2>2. OneShotFits(kb, a)
    BY <1>1, <2>1
  <2>3. /\ kb'.real_mods \subseteq kb.real_mods \cup ModsOf(a, n)
        /\ kb'.oneshot_mods \subseteq IF a.kind = "OSM" THEN a.mods ELSE kb.oneshot_mods
    BY <1>3, <2>2 DEF Adds
  <2>4. ASSUME NEW b \in MapActions(keymap), b.kind = "OSM"
        PROVE  kb'.oneshot_enable /\ kb'.oneshot_mods \subseteq b.mods
    <3>1. a.kind # "OS_TOGG" /\ (a.kind = "OSM" => a.mods = b.mods)
      BY <1>1, <1>6, <2>4 DEF OneShotAlike
    <3>2. kb.oneshot_enable /\ kb.oneshot_mods \subseteq b.mods
      BY <2>1, <2>4 DEF OneShotFits
    <3> QED
      BY <1>3, <2>3, <3>1, <3>2
  <2>5. (kb.real_mods \subseteq HeldMods(g))'
    BY <1>4, <2>1, <2>3
  <2>6. MapActions(keymap)' = MapActions(keymap)
    BY DEF MapActions
  <2> QED
    BY <2>4, <2>5, <2>6 DEF ModsHeld, OneShotFits
<1>7. ASSUME OneShotAlike(keymap), MaxTaps["OSM"] =< 1
      PROVE  ReportHeld(g)'
  <2>1. Reported(kb, HeldWeak(h)) /\ \A j \in h : ActionOf(j).kind = "OSM" => tap[j] =< 1
    BY <1>7 DEF Held, ReportHeld
  <2>2. OneShotFits(kb, a)
    BY <1>1, <1>7 DEF Held, ModsHeld
  <2>3. a.kind = "OSM" => n =< 1
    <3>1. MaxTaps["OSM"] \in Nat
      BY TapAssumption DEF TapKinds
    <3> QED
      BY <1>2, <1>7, <3>1
  <2>4. Reported(kb', HeldWeak(h) \cup WeakOf(a))
    BY <1>3, <2>1, <2>2, <2>3 DEF Adds
  <2>5. Reported(kb, HeldWeak(g))'
    BY <1>4, <2>4 DEF Reported, Shown
  <2>6. \A j \in g : (ActionOf(j).kind = "OSM" => tap[j] =< 1)'
    BY <1>4, <2>1, <2>3
  <2> QED
    BY <2>5, <2>6 DEF ReportHeld
<1>8. ASSUME NEW o, OneLayer(keymap, o)
      PROVE  LayersHeld(g, o)'
  <2>1. /\ LayersFit(kb, HeldLayers(h)) /\ OslFits(kb, o)
        /\ HasOSL(keymap) => kb.oneshot_enable
        /\ OneShotLayerActive(kb) => HasOSL(keymap)
    BY <1>8 DEF Held, LayersHeld
  <2>2. /\ o \in 0 .. 15 /\ a.kind \notin Toggling
        /\ a.kind = "OSL" => a.layer = o /\ HasOSL(keymap)
        /\ a.kind = "OS_TOGG" => ~HasOSL(keymap)
    BY <1>1, <1>8 DEF OneLayer, HasOSL
  <2>3. Momentary(kb, a, o) /\ (a.kind = "OS_TOGG" => ~OneShotLayerActive(kb))
    BY <2>1, <2>2 DEF Momentary, Toggling
  <2>4. LayersFit(kb', HeldLayers(h) \cup LayersOf(a, n)) /\ OslFits(kb', o)
    BY <1>3, <2>1, <2>3 DEF AddsLayers
  <2>5. HasOSL(keymap)' = HasOSL(keymap)
    BY DEF HasOSL, MapActions
  <2>6. HasOSL(keymap) => kb'.oneshot_enable
    BY <1>3, <2>1, <2>2
  <2>7. OneShotLayerActive(kb') => HasOSL(keymap)
    BY <1>3, <2>1, <2>2
  <2> QED
    BY <1>4, <2>4, <2>5, <2>6, <2>7 DEF LayersHeld, LayersFit, OslFits, Kept, OneShotLayerActive
<1>9. Held(g)'
  <2>1. OneShotAlike(keymap)' = OneShotAlike(keymap)
    BY DEF OneShotAlike, MapActions
  <2>2. \A o : OneLayer(keymap, o)' = OneLayer(keymap, o)
    BY DEF OneLayer, MapActions, HasOSL
  <2> QED
    BY <1>5, <1>6, <1>7, <1>8, <2>1, <2>2 DEF Held
<1> QED
  BY <1>3, <1>9

LEMMA ReleaseHolds ==
    ASSUME Types, keymap' = keymap, NEW h, h \subseteq Keys, NEW k \in h, Releases(k), Held(h)
    PROVE  kb' \in State(Layers, KeymapCodes(keymap)) /\ Held(h \ {k})'
<1> DEFINE a == ActionOf(k)
           n == tap[k]
           g == h \ {k}
<1>0. k \in Keys /\ n \in Nat /\ source_layers_cache[k] \in Layers
  BY DEF Types
<1>1. LayerSet(Layers) /\ kb \in State(Layers, KeymapCodes(keymap))
      /\ a \in Action(Layers, KeymapCodes(keymap)) /\ a \in MapActions(keymap)
  BY <1>0, KeymapTypes DEF Types, ActionOf
<1>2. kb' = process_record(kb, a, FALSE, n)
  BY DEF Releases
<1>3. ReleaseDone(Layers, KeymapCodes(keymap), kb, kb', a, n)
  <2> HIDE DEF a, n
  <2> QED
    BY <1>0, <1>1, <1>2, ProcessRelease
<1>3a. /\ kb' \in State(Layers, KeymapCodes(keymap))
       /\ kb'.oneshot_enable = kb.oneshot_enable /\ Removes(kb, kb', a, n)
       /\ a.kind # "OSL" => kb'.osl = kb.osl
       /\ \A o : Momentary(kb, a, o) => RemovesLayers(kb, kb', a, n, o)
  BY <1>3 DEF ReleaseDone, Keeps
<1>4. /\ HeldKeys(h) = HeldKeys(g) \cup KeysOf(a, n)
      /\ HeldMods(h) = HeldMods(g) \cup ModsOf(a, n)
      /\ HeldWeak(h) = HeldWeak(g) \cup WeakOf(a)
      /\ HeldLayers(h) = HeldLayers(g) \cup LayersOf(a, n)
  BY HeldRelease
<1>4a. /\ HeldKeys(g)' = HeldKeys(g) /\ HeldMods(g)' = HeldMods(g)
       /\ HeldWeak(g)' = HeldWeak(g) /\ HeldLayers(g)' = HeldLayers(g)
       /\ \A j : ActionOf(j)' = ActionOf(j) /\ tap'[j] = tap[j]
  BY HeldSame DEF Releases
<1>5. (kb.keys \subseteq HeldKeys(g))' /\ Shown(kb)'
  <2>1. kb'.keys \subseteq kb.keys \ KeysOf(a, n) /\ Shown(kb')
    BY <1>3a DEF Removes, Held
  <2>2. Shown(kb)' = Shown(kb')
    BY DEF Shown
  <2> QED
    BY <1>4, <1>4a, <2>1, <2>2 DEF Held
<1>6. ASSUME OneShotAlike(keymap)
      PROVE  ModsHeld(g)'
  <2>1. kb.real_mods \subseteq HeldMods(h) /\ \A b \in MapActions(keymap) : OneShotFits(kb, b)
    BY <1>6 DEF Held, ModsHeld
  <2>2. OneShotFits(kb, a)
    BY <1>1, <2>1
  <2>3. /\ kb'.real_mods \subseteq kb.real_mods \ ModsOf(a, n)
        /\ kb'.oneshot_mods \subseteq kb.oneshot_mods
    BY <1>3a, <2>2 DEF Removes
  <2>4. ASSUME NEW b \in MapActions(keymap), b.kind = "OSM"
        PROVE  kb'.oneshot_enable /\ kb'.oneshot_mods \subseteq b.mods
    <3>1. kb.oneshot_enable /\ kb.oneshot_mods \subseteq b.mods
      BY <2>1, <2>4 DEF OneShotFits
    <3> QED
      BY <1>3a, <2>3, <3>1
  <2>5. (kb.real_mods \subseteq HeldMods(g))'
    BY <1>4, <1>4a, <2>1, <2>3
  <2>6. MapActions(keymap)' = MapActions(keymap)
    BY DEF MapActions
  <2> QED
    BY <2>4, <2>5, <2>6 DEF ModsHeld, OneShotFits
<1>7. ASSUME OneShotAlike(keymap), MaxTaps["OSM"] =< 1
      PROVE  ReportHeld(g)'
  <2>1. Reported(kb, HeldWeak(h)) /\ \A j \in h : ActionOf(j).kind = "OSM" => tap[j] =< 1
    BY <1>7 DEF Held, ReportHeld
  <2>2. OneShotFits(kb, a)
    BY <1>1, <1>7 DEF Held, ModsHeld
  <2>3. Reported(kb', HeldWeak(g))
    BY <1>3a, <1>4, <2>1, <2>2 DEF Removes
  <2>4. Reported(kb, HeldWeak(g))'
    BY <1>4a, <2>3 DEF Reported, Shown
  <2>5. \A j \in g : (ActionOf(j).kind = "OSM" => tap[j] =< 1)'
    BY <1>4a, <2>1
  <2> QED
    BY <2>4, <2>5 DEF ReportHeld
<1>8. ASSUME NEW o, OneLayer(keymap, o)
      PROVE  LayersHeld(g, o)'
  <2>1. /\ LayersFit(kb, HeldLayers(h)) /\ OslFits(kb, o)
        /\ HasOSL(keymap) => kb.oneshot_enable
        /\ OneShotLayerActive(kb) => HasOSL(keymap)
    BY <1>8 DEF Held, LayersHeld
  <2>2. /\ o \in 0 .. 15 /\ a.kind \notin Toggling
        /\ a.kind = "OSL" => a.layer = o /\ HasOSL(keymap)
    BY <1>1, <1>8 DEF OneLayer, HasOSL
  <2>3. Momentary(kb, a, o)
    BY <2>1, <2>2 DEF Momentary, Toggling
  <2>4. LayersFit(kb', HeldLayers(g)) /\ OslFits(kb', o)
    BY <1>3a, <1>4, <2>1, <2>3 DEF RemovesLayers
  <2>5. HasOSL(keymap)' = HasOSL(keymap)
    BY DEF HasOSL, MapActions
  <2>6. HasOSL(keymap) => kb'.oneshot_enable
    BY <1>3a, <2>1
  <2>7. OneShotLayerActive(kb') => HasOSL(keymap)
    BY <1>3a, <2>1, <2>2 DEF OneShotLayerActive
  <2> QED
    BY <1>4a, <2>4, <2>5, <2>6, <2>7 DEF LayersHeld, LayersFit, OslFits, Kept, OneShotLayerActive
<1>9. Held(g)'
  <2>1. OneShotAlike(keymap)' = OneShotAlike(keymap)
    BY DEF OneShotAlike, MapActions
  <2>2. \A o : OneLayer(keymap, o)' = OneLayer(keymap, o)
    BY DEF OneLayer, MapActions, HasOSL
  <2> QED
    BY <1>5, <1>6, <1>7, <1>8, <2>1, <2>2 DEF Held
<1> QED
  BY <1>3a, <1>9
\* action_exec forgets weak modifiers and changes nothing else of the state.
LEMMA ForgetHolds ==
    ASSUME Types, UNCHANGED <<keymap, source_layers_cache, tap>>, NEW h, Held(h),
           kb' \in {kb, [kb EXCEPT !.weak_mods = {}]}
    PROVE  kb' \in State(Layers, KeymapCodes(keymap)) /\ Held(h)'
<1>0. kb \in State(Layers, KeymapCodes(keymap))
  BY DEF Types
<1>1. kb' \in State(Layers, KeymapCodes(keymap))
  BY <1>0 DEF State
<1>2. /\ kb'.keys = kb.keys /\ kb'.real_mods = kb.real_mods /\ kb'.weak_mods \subseteq kb.weak_mods
      /\ kb'.oneshot_mods = kb.oneshot_mods /\ kb'.osl = kb.osl /\ kb'.layers = kb.layers
      /\ kb'.oneshot_enable = kb.oneshot_enable /\ kb'.last = kb.last
  BY <1>0 DEF State
<1>3. /\ HeldKeys(h)' = HeldKeys(h) /\ HeldMods(h)' = HeldMods(h)
      /\ HeldWeak(h)' = HeldWeak(h) /\ HeldLayers(h)' = HeldLayers(h)
      /\ \A j : ActionOf(j)' = ActionOf(j) /\ tap'[j] = tap[j]
  BY HeldSame
<1>4. MapActions(keymap)' = MapActions(keymap) /\ HasOSL(keymap)' = HasOSL(keymap)
      /\ OneShotAlike(keymap)' = OneShotAlike(keymap)
      /\ \A o : OneLayer(keymap, o)' = OneLayer(keymap, o)
  BY DEF MapActions, HasOSL, OneShotAlike, OneLayer
<1>5. (kb.keys \subseteq HeldKeys(h))' /\ Shown(kb)'
  BY <1>2, <1>3 DEF Held, Shown
<1>6. ModsHeld(h) => ModsHeld(h)'
  BY <1>2, <1>3, <1>4 DEF ModsHeld, OneShotFits
<1>7. ReportHeld(h) => ReportHeld(h)'
  BY <1>2, <1>3 DEF ReportHeld, Reported, Shown
<1>8. \A o : LayersHeld(h, o) => LayersHeld(h, o)'
  BY <1>2, <1>3, <1>4 DEF LayersHeld, LayersFit, OslFits, Kept, OneShotLayerActive
<1> QED
  BY <1>1, <1>4, <1>5, <1>6, <1>7, <1>8 DEF Held

LEMMA InitHolds ==
    ASSUME Init
    PROVE  HeldInv
<1>1. LayerSet(Layers) /\ keymap \in Keymaps
  BY KeymapTypes DEF Init
<1>2. kb \in State(Layers, KeymapCodes(keymap))
  BY <1>1 DEF Init, State, LayerSet, ONESHOT_START
<1>3. Types
  <2>1. source_layers_cache \in [Keys -> Layers] /\ tap \in [Keys -> Nat]
    BY <1>1 DEF Init, LayerSet
  <2>2. down \subseteq Keys /\ waiting \in Seq(Event)
    BY DEF Init
  <2> QED
    BY <1>1, <1>2, <2>1, <2>2 DEF Types
<1>4. PICK H : H = [i \in {0} |-> {}]
  OBVIOUS
<1>5. H[0] = {}
  BY <1>4
<1>6. Replay(H)
  BY <1>5 DEF Replay, Init
<1>7. /\ kb.keys = {} /\ kb.real_mods = {} /\ kb.weak_mods = {} /\ kb.oneshot_mods = {}
      /\ kb.osl.state = {} /\ kb.layers = {} /\ kb.oneshot_enable = TRUE
      /\ kb.last.mods = {} /\ kb.last.keys = {}
  BY DEF Init
<1>8. Held({})
  <2>1. ModsHeld({})
    BY <1>7 DEF ModsHeld, OneShotFits
  <2>2. ReportHeld({})
    BY <1>7 DEF ReportHeld, Reported, Shown
  <2>3. \A o : LayersHeld({}, o)
    BY <1>7 DEF LayersHeld, LayersFit, OslFits, OneShotLayerActive
  <2> QED
    BY <1>7, <2>1, <2>2, <2>3 DEF Held, Shown
<1> QED
  BY <1>3, <1>5, <1>6, <1>8 DEF HeldInv

LEMMA ExecHolds ==
    ASSUME HeldInv, NEW k \in Keys, action_exec(k)
    PROVE  HeldInv'
<1>0. Types
  BY DEF HeldInv
<1>1. PICK H : Replay(H) /\ Held(H[0])
  BY DEF HeldInv
<1> DEFINE e == [key |-> k, pressed |-> k \notin down]
<1>2. /\ waiting' = Append(waiting, e) /\ UNCHANGED <<keymap, source_layers_cache, tap>>
      /\ down' = IF e.pressed THEN down \cup {k} ELSE down \ {k}
      /\ kb' \in {kb, [kb EXCEPT !.weak_mods = {}]}
  BY DEF action_exec
<1>3. e \in Event /\ Moves(down, e, down')
  BY <1>2 DEF Event, Moves
<1>4. PICK G : Replay(G)' /\ G[0] = H[0]
  <2> HIDE DEF e
  <2> QED
    BY <1>0, <1>1, <1>2, <1>3, ReplayAppend
<1>5. kb' \in State(Layers, KeymapCodes(keymap)) /\ Held(H[0])'
  BY <1>0, <1>1, <1>2, ForgetHolds
<1>6. Types'
  <2>1. waiting' \in Seq(Event)
    BY <1>0, <1>2, <1>3 DEF Types
  <2>2. down' \subseteq Keys
    BY <1>0, <1>2 DEF Types
  <2> QED
    BY <1>0, <1>2, <1>5, <2>1, <2>2 DEF Types, Layers, KeymapCodes
<1>7. Held(G[0])'
  BY <1>4, <1>5
<1> QED
  BY <1>4, <1>6, <1>7 DEF HeldInv

LEMMA ProcessHolds ==
    ASSUME HeldInv, Process
    PROVE  HeldInv'
<1>0. Types
  BY DEF HeldInv
<1>1. PICK H : Replay(H) /\ Held(H[0])
  BY DEF HeldInv
<1>2. waiting # <<>> /\ waiting' = Tail(waiting) /\ keymap' = keymap /\ down' = down
  BY <1>0, ProcessCases
<1>3. Moves(H[0], Head(waiting), H[1])
  BY <1>0, <1>1, <1>2, ReplayTail
<1>4. PICK G : Replay(G)' /\ G[0] = H[1]
  BY <1>0, <1>1, <1>2, ReplayTail
<1>5. H[0] \subseteq Keys
  BY <1>1 DEF Replay
<1>6. /\ kb' \in State(Layers, KeymapCodes(keymap)) /\ Held(H[1])'
      /\ source_layers_cache' \in [Keys -> Layers] /\ tap' \in [Keys -> Nat]
  <2>1. ASSUME NEW k \in Keys, NEW l \in Layers, NEW n \in Nat, Presses(k, l, n)
        PROVE  /\ kb' \in State(Layers, KeymapCodes(keymap)) /\ Held(H[1])'
               /\ source_layers_cache' \in [Keys -> Layers] /\ tap' \in [Keys -> Nat]
    <3>1. k \notin H[0] /\ H[1] = H[0] \cup {k}
      BY <1>3, <2>1 DEF Moves, Presses
    <3>2. kb' \in State(Layers, KeymapCodes(keymap)) /\ Held(H[0] \cup {k})'
      BY <1>0, <1>1, <1>2, <1>5, <2>1, <3>1, PressHolds
    <3>3. source_layers_cache' \in [Keys -> Layers] /\ tap' \in [Keys -> Nat]
      BY <1>0, <2>1 DEF Presses, Types
    <3> QED
      BY <3>1, <3>2, <3>3
  <2>2. ASSUME NEW k \in Keys, Releases(k)
        PROVE  /\ kb' \in State(Layers, KeymapCodes(keymap)) /\ Held(H[1])'
               /\ source_layers_cache' \in [Keys -> Layers] /\ tap' \in [Keys -> Nat]
    <3>1. k \in H[0] /\ H[1] = H[0] \ {k}
      BY <1>3, <2>2 DEF Moves, Releases
    <3>2. kb' \in State(Layers, KeymapCodes(keymap)) /\ Held(H[0] \ {k})'
      BY <1>0, <1>1, <1>2, <1>5, <2>2, <3>1, ReleaseHolds
    <3>3. source_layers_cache' \in [Keys -> Layers] /\ tap' \in [Keys -> Nat]
      BY <1>0, <2>2 DEF Releases, Types
    <3> QED
      BY <3>1, <3>2, <3>3
  <2> QED
    BY <1>0, <2>1, <2>2, ProcessCases
<1>7. Types'
  <2>1. waiting' \in Seq(Event)
    BY <1>0, <1>2, HeadType
  <2> QED
    BY <1>0, <1>2, <1>6, <2>1 DEF Types, Layers, KeymapCodes
<1>8. Held(G[0])'
  BY <1>4, <1>6
<1> QED
  BY <1>4, <1>7, <1>8 DEF HeldInv

LEMMA StutterHolds ==
    ASSUME HeldInv, UNCHANGED vars
    PROVE  HeldInv'
<1>0. Types
  BY DEF HeldInv
<1>1. PICK H : Replay(H) /\ Held(H[0])
  BY DEF HeldInv
<1>2. Replay(H)'
  BY <1>1 DEF Replay, vars
<1>3. Held(H[0])'
  BY <1>0, <1>1, ForgetHolds DEF vars
<1>4. Types'
  BY <1>0 DEF Types, vars, Layers, KeymapCodes
<1> QED
  BY <1>2, <1>3, <1>4 DEF HeldInv

LEMMA HeldAlways == Spec => []HeldInv
<1>1. Init => HeldInv
  BY InitHolds
<1>2. HeldInv /\ [Next]_vars => HeldInv'
  BY ExecHolds, ProcessHolds, StutterHolds DEF Next
<1> QED
  BY <1>1, <1>2, PTL DEF Spec

\* When the keyboard is idle no key has added anything.
LEMMA IdleHeld ==
    ASSUME HeldInv, Idle
    PROVE  Held({})
<1>1. PICK H : Replay(H) /\ Held(H[0])
  BY DEF HeldInv
<1>2. Len(waiting) = 0 /\ H[0] = {}
  BY <1>1 DEF Idle, Replay
<1> QED
  BY <1>1, <1>2

LEMMA NoneHeld == HeldKeys({}) = {} /\ HeldMods({}) = {} /\ HeldWeak({}) = {} /\ HeldLayers({}) = {}
BY DEF HeldKeys, HeldMods, HeldWeak, HeldLayers

\* The state keeps its types: with the layers and codes of the keymap in use.
THEOREM ActionsTyped == Spec => []Types
<1>1. HeldInv => Types
  BY DEF HeldInv
<1> QED
  BY <1>1, HeldAlways, PTL

\* For every set of keys and every keymap in which the one-shot modifier keys
\* have the same modifiers: when all keys are up, none is left registered.
THEOREM NothingStuckAlways ==
    ASSUME \A m \in Keymaps : OneShotAlike(m)
    PROVE  Spec => []NothingStuck
<1>1. ASSUME HeldInv
      PROVE  NothingStuck
  <2>1. SUFFICES ASSUME Idle
                 PROVE  kb.keys = {} /\ kb.real_mods = {}
    BY DEF NothingStuck
  <2>2. Held({}) /\ OneShotAlike(keymap)
    BY <1>1, <2>1, IdleHeld DEF HeldInv, Types
  <2> QED
    BY <2>2, NoneHeld DEF Held, ModsHeld
<1> QED
  BY <1>1, HeldAlways, PTL

\* And if a one-shot modifier key counts at most one tap, the host is left with
\* no key and no modifier but those a one-shot key keeps for the next key.
THEOREM HostSettlesAlways ==
    ASSUME \A m \in Keymaps : OneShotAlike(m), MaxTaps["OSM"] =< 1
    PROVE  Spec => []HostSettles
<1>1. ASSUME HeldInv
      PROVE  HostSettles
  <2>1. SUFFICES ASSUME Idle
                 PROVE  kb.last.keys = {} /\ kb.last.mods \subseteq kb.oneshot_mods
    BY DEF HostSettles
  <2>2. Held({}) /\ OneShotAlike(keymap)
    BY <1>1, <2>1, IdleHeld DEF HeldInv, Types
  <2>3. kb.keys = {} /\ kb.real_mods = {} /\ Reported(kb, {})
    BY <2>2, NoneHeld DEF Held, ModsHeld, ReportHeld
  <2> QED
    BY <2>3 DEF Reported, Shown
<1> QED
  BY <1>1, HeldAlways, PTL

\* If the one-shot layer keys of every keymap without layer toggles name one
\* layer below 16 and no key there turns one-shot keys off, the only layer left
\* on when all keys are up is the one a one-shot key keeps.
THEOREM LayersSettleAlways ==
    ASSUME \A m \in Keymaps :
               \/ \E o : OneLayer(m, o)
               \/ \E a \in MapActions(m) : a.kind \in {"TG", "TO", "DF"}
    PROVE  Spec => []LayersSettle
<1>1. ASSUME HeldInv
      PROVE  LayersSettle
  <2>1. SUFFICES ASSUME Idle, Toggles = {}
                 PROVE  kb.layers \subseteq IF OneShotLayerActive(kb) THEN {kb.osl.layer} ELSE {}
    BY DEF LayersSettle
  <2>2. Held({})
    BY <1>1, <2>1, IdleHeld
  <2>3. ~ \E a \in MapActions(keymap) : a.kind \in {"TG", "TO", "DF"}
    BY <2>1 DEF Toggles, Actions, MapActions, Layers
  <2>4. PICK o : OneLayer(keymap, o)
    BY <1>1, <2>3 DEF HeldInv, Types
  <2>5. LayersFit(kb, {})
    BY <2>2, <2>4, NoneHeld DEF Held, LayersHeld
  <2> QED
    BY <2>5 DEF LayersFit, Kept
<1> QED
  BY <1>1, HeldAlways, PTL
-----------------------------------------------------------------------------
(* A plain key and the one-shot modifiers. *)

\* A key whose code is not down yet is reported once, with every modifier.
LEMMA PlainCode ==
    ASSUME NEW D, NEW C, NEW s \in State(D, C), NEW c \in C, c \notin Mods \cup {NoCode},
           c \notin s.keys
    PROVE  LET t == register_code(s, c)
           IN  /\ t.last.mods = s.real_mods \cup s.weak_mods \cup s.oneshot_mods
               /\ t.oneshot_mods = {}
<1> DEFINE v == [s EXCEPT !.keys = s.keys \cup {c}]
<1>1. register_code(s, c) = send_keyboard_report(v)
  BY DEF register_code, add_key
<1>2. /\ v \in State(D, C) /\ v.keys = s.keys \cup {c} /\ v.real_mods = s.real_mods
      /\ v.weak_mods = s.weak_mods /\ v.oneshot_mods = s.oneshot_mods
  BY DEF State
<1> HIDE DEF v
<1>3. v.keys # {}
  BY <1>2
<1>4. LET t == send_keyboard_report(v)
      IN  /\ t.oneshot_mods = IF v.keys # {} THEN {} ELSE v.oneshot_mods
          /\ t.last.mods = v.real_mods \cup v.weak_mods \cup v.oneshot_mods
  BY <1>2, SendEffect
<1> QED
  BY <1>1, <1>2, <1>3, <1>4

LEMMA PlainPress ==
    ASSUME NEW D, NEW C, LayerSet(D), NEW s \in State(D, C), NEW a \in Action(D, C), NEW n \in Nat,
           a.kind = "KEY", a.mods = {}, a.code \notin Mods \cup {NoCode}, a.code \notin s.keys,
           s.weak_mods = {}, Shown(s),
           a.code \in process_record(s, a, TRUE, n).last.keys
    PROVE  LET r == process_record(s, a, TRUE, n)
           IN  r.last.mods = s.real_mods \cup s.oneshot_mods /\ r.oneshot_mods = {}
<1> DEFINE ends == EndsOneShot(s, a, TRUE, n)
           c == clear_oneshot_layer_state(s, ONESHOT_OTHER_KEY_PRESSED)
           t == IF ends THEN c ELSE s
           u == Act(t, a, TRUE, n)
           v == layer_on(u, get_oneshot_layer(u))
           w == Act(v, a, FALSE, n)
           x == layer_off(w, get_oneshot_layer(w))
           back == (ends /\ ~OneShotLayerActive(t)) /\ ONESHOT_PRESSED \notin u.osl.state
           r == IF back THEN x ELSE u
<1>0. a.code \in C
  BY ActionType
<1>1. process_record(s, a, TRUE, n) = r
  BY DEF process_record, process_action
<1>2. c \in State(D, C) /\ SameReport(s, c)
  BY ClearState
<1> HIDE DEF ends, c
<1>3. t \in State(D, C) /\ SameReport(s, t)
  BY <1>2 DEF SameReport
<1> HIDE DEF t
<1>4. u = register_code(t, a.code)
  BY DEF Act, ActMods
<1>5. u.last.mods = s.real_mods \cup s.oneshot_mods /\ u.oneshot_mods = {}
  <2>1. /\ t.real_mods = s.real_mods /\ t.weak_mods = {} /\ t.oneshot_mods = s.oneshot_mods
        /\ a.code \notin t.keys
    BY <1>3 DEF SameReport
  <2>2. LET q == register_code(t, a.code)
        IN  /\ q.last.mods = t.real_mods \cup t.weak_mods \cup t.oneshot_mods
            /\ q.oneshot_mods = {}
    BY <1>0, <1>3, <2>1, PlainCode
  <2> QED
    BY <1>4, <2>1, <2>2
<1>6. u \in State(D, C) /\ Shown(u) /\ u.osl = t.osl
  <2>1. LET q == register_code(t, a.code)
        IN  /\ q \in State(D, C)
            /\ Registers(t, q, t.keys \cup KeyOf(a.code), t.real_mods \cup ModOf(a.code))
    BY <1>0, <1>3, RegisterCode
  <2> QED
    BY <1>3, <1>4, <2>1 DEF Registers, SameReport, Shown, SameLayers
<1> HIDE DEF u
<1>7. ASSUME back
      PROVE  a.code \notin x.last.keys
  <2>0. Bit(get_oneshot_layer(u)) \subseteq D
    BY <1>6, OneShotBit
  <2>1. v \in State(D, C) /\ SameReport(u, v)
    BY <1>6, <2>0, LayerOn
  <2> HIDE DEF v
  <2>2. ReleaseDone(D, C, v, w, a, n)
    BY <2>1, ActRelease
  <2>3. w \in State(D, C) /\ Removes(v, w, a, n)
    BY <2>2 DEF ReleaseDone, Keeps
  <2> HIDE DEF w
  <2>4. a.code \notin w.keys /\ Shown(w)
    <3>1. Shown(v)
      BY <1>6, <2>1 DEF Shown, SameReport
    <3>2. KeysOf(a, n) = {a.code}
      BY DEF KeysOf, KeyOf, Plain
    <3> QED
      BY <2>3, <3>1, <3>2 DEF Removes
  <2>5. SameReport(w, x)
    BY <2>3, LayerOff
  <2> QED
    BY <2>4, <2>5 DEF SameReport, Shown
<1> QED
  BY <1>1, <1>5, <1>7
\* No key of the keymap has modifiers of its own.
Unshifted(m) == \A a \in MapActions(m) : WeakOf(a) = {}

\* With a queue of two: no weak modifiers are left when a press is next, and an
\* event waits for another only if that is the press of a dual-role key.
Paced ==
    /\ Len(waiting) =< 2
    /\ waiting # <<>> /\ Head(waiting).pressed => kb.weak_mods = {}
    /\ Len(waiting) = 2 =>
           /\ Head(waiting).pressed
           /\ keymap[SourceLayer(Head(waiting))][Head(waiting).key].kind \in TapKinds

LEMMA WeakOfTap ==
    ASSUME NEW a, a.kind \in TapKinds
    PROVE  WeakOf(a) = {}
BY DEF WeakOf, Plain, TapKinds

\* What processing the next event does to the weak modifiers.
LEMMA ProcessWeak ==
    ASSUME Types, Process
    PROVE  IF Head(waiting).pressed
           THEN kb'.weak_mods \subseteq
                    kb.weak_mods \cup WeakOf(keymap[SourceLayer(Head(waiting))][Head(waiting).key])
           ELSE kb'.weak_mods \subseteq kb.weak_mods
<1>0. LayerSet(Layers) /\ kb \in State(Layers, KeymapCodes(keymap))
  BY KeymapTypes DEF Types
<1>1. ASSUME NEW k \in Keys, NEW l \in Layers, NEW n \in Nat, Presses(k, l, n)
      PROVE  Head(waiting).pressed /\ kb'.weak_mods \subseteq
                 kb.weak_mods \cup WeakOf(keymap[SourceLayer(Head(waiting))][Head(waiting).key])
  <2> DEFINE a == keymap[l][k]
  <2>1. a \in Action(Layers, KeymapCodes(keymap))
    BY KeymapTypes DEF Types
  <2>2. /\ Head(waiting).pressed /\ k = Head(waiting).key /\ l = SourceLayer(Head(waiting))
        /\ kb' = process_record(kb, a, TRUE, n)
    BY <1>1 DEF Presses
  <2>3. Adds(kb, process_record(kb, a, TRUE, n), a, n)
    <3> HIDE DEF a
    <3> QED
      BY <1>0, <2>1, RecordPress
  <2>4. kb'.weak_mods \subseteq kb.weak_mods \cup WeakOf(a)
    BY <2>2, <2>3 DEF Adds
  <2> QED
    BY <2>2, <2>4
<1>2. ASSUME NEW k \in Keys, Releases(k)
      PROVE  ~Head(waiting).pressed /\ kb'.weak_mods \subseteq kb.weak_mods
  <2> DEFINE a == ActionOf(k)
             n == tap[k]
  <2>1. a \in Action(Layers, KeymapCodes(keymap)) /\ n \in Nat
    BY KeymapTypes DEF Types, ActionOf
  <2>2. ~Head(waiting).pressed /\ kb' = process_record(kb, a, FALSE, n)
    BY <1>2 DEF Releases
  <2>3. ReleaseDone(Layers, KeymapCodes(keymap), kb, process_record(kb, a, FALSE, n), a, n)
    <3> HIDE DEF a, n
    <3> QED
      BY <1>0, <2>1, ProcessRelease
  <2> QED
    BY <2>2, <2>3 DEF ReleaseDone, Removes
<1> QED
  BY <1>1, <1>2, ProcessCases

LEMMA SmallNumbers ==
    ASSUME NEW m \in Nat, NEW w \in Nat
    PROVE  /\ w =< 2 /\ m \in 1 .. w - 1 => m = 1
           /\ m >= 1 /\ m =< 2 => m = 1 \/ m = 2
OBVIOUS

LEMMA PacedExec ==
    ASSUME Types, Paced, Waiting =< 2, NEW k \in Keys, action_exec(k)
    PROVE  Paced'
<1>0. waiting \in Seq(Event) /\ Waiting \in Nat
  BY TapAssumption DEF Types
<1>1. PICK e \in Event : /\ waiting' = Append(waiting, e)
                         /\ kb' = IF e.pressed THEN [kb EXCEPT !.weak_mods = {}] ELSE kb
  <2>1. [key |-> k, pressed |-> k \notin down] \in Event
    BY DEF Event
  <2> QED
    BY <2>1 DEF action_exec
<1>2. CanWait /\ keymap' = keymap /\ source_layers_cache' = source_layers_cache
  BY DEF action_exec
<1>3. CASE waiting = <<>>
  <2>1. Len(waiting') = 1 /\ Head(waiting') = e
    BY <1>0, <1>1, <1>3
  <2>2. e.pressed => kb'.weak_mods = {}
    BY <1>1 DEF Types, State
  <2> QED
    BY <2>1, <2>2 DEF Paced
<1>4. CASE waiting # <<>>
  <2>1. /\ Len(waiting) \in 1 .. Waiting - 1 /\ Head(waiting).pressed
        /\ keymap[SourceLayer(Head(waiting))][Head(waiting).key].kind \in TapKinds
    BY <1>2, <1>4 DEF CanWait
  <2>2. Len(waiting) = 1
    <3>1. Len(waiting) \in 1 .. Waiting - 1 /\ Len(waiting) \in Nat
      BY <1>0, <2>1
    <3> QED
      BY <1>0, <3>1, SmallNumbers
  <2>3. Len(waiting') = 2 /\ Head(waiting') = Head(waiting)
    <3>1. Len(waiting') = Len(waiting) + 1
      BY <1>0, <1>1
    <3>2. Head(waiting') = Head(waiting)
      BY <1>0, <1>1, <1>4
    <3> QED
      BY <2>2, <3>1, <3>2
  <2>4. kb.weak_mods = {}
    BY <1>4, <2>1 DEF Paced
  <2>5. kb'.weak_mods = {} /\ kb'.layers = kb.layers /\ kb'.default_layers = kb.default_layers
    BY <1>1, <2>4 DEF Types, State
  <2>6. PICK r : r = Head(waiting)
    OBVIOUS
  <2>7. SourceLayer(r)' = SourceLayer(r)
    BY <1>2, <2>5 DEF SourceLayer, layer_switch_get_layer
  <2>8. r.pressed /\ keymap'[SourceLayer(r)'][r.key].kind \in TapKinds
    BY <1>2, <2>1, <2>6, <2>7
  <2> QED
    BY <2>3, <2>5, <2>6, <2>8 DEF Paced
<1> QED
  BY <1>3, <1>4

LEMMA PacedProcess ==
    ASSUME Types, Paced, Process
    PROVE  Paced'
<1>1. waiting # <<>> /\ waiting' = Tail(waiting) /\ waiting \in Seq(Event)
  BY ProcessCases DEF Types
<1>2. CASE Len(waiting) = 1
  <2>1. Len(waiting') = 0 /\ waiting' = <<>>
    BY <1>1, <1>2
  <2> QED
    BY <2>1 DEF Paced
<1>3. CASE Len(waiting) = 2
  <2>1. Len(waiting') = 1
    BY <1>1, <1>3
  <2>2. /\ kb.weak_mods = {} /\ Head(waiting).pressed
        /\ keymap[SourceLayer(Head(waiting))][Head(waiting).key].kind \in TapKinds
    BY <1>1, <1>3 DEF Paced
  <2>3. kb'.weak_mods = {}
    BY <2>2, ProcessWeak, WeakOfTap
  <2> QED
    BY <2>1, <2>3 DEF Paced
<1>4. Len(waiting) = 1 \/ Len(waiting) = 2
  <2>1. Len(waiting) \in Nat /\ Len(waiting) >= 1 /\ Len(waiting) =< 2
    BY <1>1, HeadType DEF Paced
  <2> QED
    BY <2>1, SmallNumbers
<1> QED
  BY <1>2, <1>3, <1>4

\* When a press leaves the queue, the weak modifiers of the keys before it are gone.
NextIsClear == waiting # <<>> /\ Head(waiting).pressed => kb.weak_mods = {}

LEMMA ClearAlways ==
    ASSUME Waiting =< 2 \/ \A m \in Keymaps : Unshifted(m)
    PROVE  Spec => []NextIsClear
<1>0. HeldInv => Types
  BY DEF HeldInv
<1>1. CASE Waiting =< 2
  <2>1. Init => Paced
    BY DEF Init, Paced
  <2>2. Types /\ Paced /\ [Next]_vars => Paced'
    <3>1. Types /\ Paced /\ UNCHANGED vars => Paced'
      BY DEF Paced, vars, SourceLayer, layer_switch_get_layer
    <3> QED
      BY <1>1, <3>1, PacedExec, PacedProcess DEF Next
  <2>3. Paced => NextIsClear
    BY DEF Paced, NextIsClear
  <2> QED
    BY <1>0, <2>1, <2>2, <2>3, HeldAlways, PTL DEF Spec
<1>2. CASE \A m \in Keymaps : Unshifted(m)
  <2> DEFINE Clear == kb.weak_mods = {}
  <2>1. Init => Clear
    BY DEF Init
  <2>2. Types /\ Clear /\ [Next]_vars => Clear'
    <3>1. ASSUME Types, Clear, NEW k \in Keys, action_exec(k)
          PROVE  Clear'
      BY <3>1 DEF action_exec, Types, State
    <3>2. ASSUME Types, Clear, Process
          PROVE  Clear'
      <4>1. WeakOf(keymap[SourceLayer(Head(waiting))][Head(waiting).key]) = {}
            \/ ~Head(waiting).pressed
        <5>1. SUFFICES ASSUME Head(waiting).pressed
                       PROVE  WeakOf(keymap[SourceLayer(Head(waiting))][Head(waiting).key]) = {}
          OBVIOUS
        <5>2. Head(waiting).key \in Keys
          BY <3>2, ProcessCases, HeadType
        <5>3. SourceLayer(Head(waiting)) \in Layers
          BY <3>2, <5>1, <5>2, SwitchType DEF SourceLayer
        <5>4. keymap[SourceLayer(Head(waiting))][Head(waiting).key] \in MapActions(keymap)
          BY <3>2, <5>2, <5>3, KeymapTypes DEF Types
        <5> QED
          BY <1>2, <3>2, <5>4 DEF Unshifted, Types
      <4> QED
        BY <3>2, <4>1, ProcessWeak
    <3>3. ASSUME Clear, UNCHANGED vars
          PROVE  Clear'
      BY <3>3 DEF vars
    <3> QED
      BY <3>1, <3>2, <3>3 DEF Next
  <2>3. Clear => NextIsClear
    BY DEF NextIsClear
  <2> HIDE DEF Clear
  <2> QED
    BY <1>0, <2>1, <2>2, <2>3, HeldAlways, PTL DEF Spec
<1> QED
  BY <1>1, <1>2
\* Two keys have no code in common, on whatever layers, but modifiers and KC_NO.
DistinctCodes(m) ==
    \A l, p \in DOMAIN m, k, j \in Keys :
        k # j /\ m[l][k].code = m[p][j].code => m[l][k].code \in Mods \cup {NoCode}

LEMMA HeldCode ==
    ASSUME Types, DistinctCodes(keymap), NEW h, h \subseteq Keys, NEW k \in Keys, k \notin h,
           NEW l \in Layers, keymap[l][k].code \notin Mods \cup {NoCode}
    PROVE  keymap[l][k].code \notin HeldKeys(h)
<1> DEFINE c == keymap[l][k].code
<1>1. SUFFICES ASSUME NEW j \in h, c \in KeysOf(ActionOf(j), tap[j])
               PROVE  FALSE
  BY DEF HeldKeys
<1>2. c = ActionOf(j).code
  BY <1>1 DEF KeysOf, KeyOf
<1>3. j \in Keys /\ j # k /\ source_layers_cache[j] \in DOMAIN keymap /\ l \in DOMAIN keymap
  BY <1>1 DEF Types, Layers
<1>4. c = keymap[source_layers_cache[j]][j].code
  BY <1>2 DEF ActionOf
<1> QED
  BY <1>3, <1>4 DEF DistinctCodes

LEMMA HeldNoMods ==
    ASSUME NEW h, NEW c \in HeldKeys(h)
    PROVE  c \notin Mods \cup {NoCode}
BY DEF HeldKeys, KeysOf, KeyOf

LEMMA UsedOnceStep ==
    ASSUME HeldInv, NextIsClear, DistinctCodes(keymap), Process, Head(waiting).pressed,
           LET a == keymap[SourceLayer(Head(waiting))][Head(waiting).key]
           IN  a.kind = "KEY" /\ a.mods = {} /\ a.code \in kb'.last.keys
    PROVE  kb'.last.mods = kb.real_mods \cup kb.oneshot_mods /\ kb'.oneshot_mods = {}
<1>0. Types
  BY DEF HeldInv
<1>1. PICK H : Replay(H) /\ Held(H[0])
  BY DEF HeldInv
<1>2. waiting # <<>> /\ waiting' = Tail(waiting) /\ keymap' = keymap /\ down' = down
  BY <1>0, ProcessCases
<1>3. PICK k \in Keys, l \in Layers, n \in Nat : Presses(k, l, n)
  BY <1>0, ProcessCases DEF Releases
<1> DEFINE a == keymap[l][k]
<1>4. /\ a.kind = "KEY" /\ a.mods = {} /\ a.code \in kb'.last.keys
      /\ kb' = process_record(kb, a, TRUE, n)
  BY <1>3 DEF Presses
<1>5. k \notin H[0] /\ H[0] \subseteq Keys
  <2>1. Moves(H[0], Head(waiting), H[1])
    BY <1>0, <1>1, <1>2, ReplayTail
  <2> QED
    BY <1>1, <1>3, <2>1 DEF Moves, Presses, Replay
<1>6. LayerSet(Layers) /\ kb \in State(Layers, KeymapCodes(keymap))
      /\ a \in Action(Layers, KeymapCodes(keymap))
  BY <1>0, KeymapTypes DEF Types
<1>7. kb.keys \subseteq HeldKeys(H[0]) /\ Shown(kb)
  BY <1>1 DEF Held
<1>8. kb.weak_mods = {}
  BY <1>2 DEF NextIsClear
<1>9. a.code \notin Mods \cup {NoCode}
  <2>1. Adds(kb, process_record(kb, a, TRUE, n), a, n)
    <3> HIDE DEF a
    <3> QED
      BY <1>6, RecordPress
  <2>2. a.code \in kb.keys \cup KeysOf(a, n)
    BY <1>4, <1>7, <2>1 DEF Adds, Shown
  <2>3. a.code \in KeysOf(a, n) => a.code \notin Mods \cup {NoCode}
    BY DEF KeysOf, KeyOf
  <2> QED
    BY <1>7, <2>2, <2>3, HeldNoMods
<1>10. a.code \notin kb.keys
  BY <1>0, <1>5, <1>7, <1>9, HeldCode
<1>11. a.code \in process_record(kb, a, TRUE, n).last.keys
  BY <1>4
<1>12. LET r == process_record(kb, a, TRUE, n)
       IN  r.last.mods = kb.real_mods \cup kb.oneshot_mods /\ r.oneshot_mods = {}
  <2>1. a.kind = "KEY" /\ a.mods = {}
    BY <1>4
  <2> HIDE DEF a
  <2> QED
    BY <1>6, <1>7, <1>8, <1>9, <1>10, <1>11, <2>1, PlainPress
<1> QED
  BY <1>4, <1>12

\* For every keymap in which two keys have no code in common: a plain key goes to
\* the host with the modifiers held and the one-shot modifiers, and uses these up.
\* Either no key has modifiers of its own, or at most two events wait.
THEOREM OneShotUsedOnceAlways ==
    ASSUME \A m \in Keymaps : DistinctCodes(m),
           Waiting =< 2 \/ \A m \in Keymaps : Unshifted(m)
    PROVE  Spec => OneShotUsedOnce
<1> DEFINE Once ==
             \A r \in {waiting[i] : i \in 1 .. Len(waiting)} :
               LET a == keymap[SourceLayer(r)][r.key]
               IN  /\ waiting' = Tail(waiting) /\ r = Head(waiting) /\ r.pressed
                   /\ a.kind = "KEY" /\ a.mods = {} /\ a.code \in kb'.last.keys
                   => /\ kb'.last.mods = kb.real_mods \cup kb.oneshot_mods
                      /\ kb'.oneshot_mods = {}
<1>1. ASSUME HeldInv, NextIsClear, Next
      PROVE  Once
  <2>1. SUFFICES ASSUME NEW i \in 1 .. Len(waiting), waiting' = Tail(waiting),
                        Head(waiting).pressed,
                        LET a == keymap[SourceLayer(Head(waiting))][Head(waiting).key]
                        IN  a.kind = "KEY" /\ a.mods = {} /\ a.code \in kb'.last.keys
                 PROVE  /\ kb'.last.mods = kb.real_mods \cup kb.oneshot_mods
                        /\ kb'.oneshot_mods = {}
    OBVIOUS
  <2>2. DistinctCodes(keymap) /\ waiting \in Seq(Event)
    BY <1>1 DEF HeldInv, Types
  <2>3. Len(waiting) \in Nat /\ Len(waiting) >= 1
    BY <2>1, <2>2
  <2>4. ASSUME NEW k \in Keys, action_exec(k)
        PROVE  FALSE
    <3>1. \E e : waiting' = Append(waiting, e)
      BY <2>4 DEF action_exec
    <3>2. Len(waiting') = Len(waiting) + 1
      BY <2>2, <3>1
    <3>3. Len(waiting') = Len(waiting) - 1
      BY <2>1, <2>2, <2>3
    <3> QED
      BY <2>3, <3>2, <3>3
  <2>5. Process
    BY <1>1, <2>4 DEF Next
  <2> QED
    BY <1>1, <2>1, <2>2, <2>5, UsedOnceStep
<1>2. HeldInv /\ NextIsClear /\ [Next]_vars => [Once]_vars
  BY <1>1
<1>3. OneShotUsedOnce <=> [][Once]_vars
  BY DEF OneShotUsedOnce
<1> HIDE DEF Once
<1> QED
  BY <1>2, <1>3, HeldAlways, ClearAlways, PTL DEF Spec
=============================================================================
