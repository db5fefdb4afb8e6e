----------------------------- MODULE MCActions -----------------------------
\* Keymaps for Actions: Typing and Toggling are checked together; each of the others
\* shows one disagreement with the documentation, as the README says.
EXTENDS Actions, TLC

A(kind, layer, mods, code) ==
    [kind |-> kind, layer |-> layer, mods |-> mods, code |-> code]

KC(code)     == A("KEY", 0, {}, code)
S(code)      == A("KEY", 0, {"shift"}, code)
MO(l)        == A("MO", l, {}, NoCode)
OSL(l)       == A("OSL", l, {}, NoCode)
OSM(m)       == A("OSM", 0, {m}, NoCode)
TRNS         == A("TRNS", 0, {}, NoCode)

\* Keys, momentary layers and one-shot keys, and a layer that hides them.
Typing ==
    0 :> ("k1" :> KC("a") @@ "k2" :> MO(1)  @@ "k3" :> OSM("shift") @@ "k4" :> OSL(2))
 @@ 1 :> ("k1" :> S("b")  @@ "k2" :> TRNS   @@ "k3" :> A("LM", 2, {"ctrl"}, NoCode)
                          @@ "k4" :> KC("f"))
 @@ 2 :> ("k1" :> KC("c") @@ "k2" :> A("LT", 1, {}, "d") @@ "k3" :> A("MT", 0, {"ctrl"}, "e")
                          @@ "k4" :> KC("shift"))

\* Layer toggles: layers change while keys are held.
Toggling ==
    0 :> ("k1" :> KC("a")    @@ "k2" :> A("TG", 1, {}, NoCode)
                             @@ "k3" :> A("TT", 2, {}, NoCode) @@ "k4" :> A("DF", 1, {}, NoCode))
 @@ 1 :> ("k1" :> S("b")     @@ "k2" :> TRNS
                             @@ "k3" :> A("TO", 2, {}, NoCode) @@ "k4" :> A("DF", 0, {}, NoCode))
 @@ 2 :> ("k1" :> KC("ctrl") @@ "k2" :> A("OS_TOGG", 0, {}, NoCode)
                             @@ "k3" :> A("MT", 0, {"shift"}, "c") @@ "k4" :> A("TO", 0, {}, NoCode))

\* Two one-shot layers.
TwoOSL ==
    0 :> ("k1" :> KC("a") @@ "k2" :> OSL(1) @@ "k3" :> OSL(2))
 @@ 1 :> ("k1" :> KC("b") @@ "k2" :> TRNS   @@ "k3" :> TRNS)
 @@ 2 :> ("k1" :> KC("c") @@ "k2" :> TRNS   @@ "k3" :> TRNS)

\* A one-shot layer past the sixteenth.
HighOSL ==
    0  :> ("k1" :> KC("a") @@ "k2" :> OSL(16))
 @@ 16 :> ("k1" :> KC("b") @@ "k2" :> TRNS)

\* A tap-toggle key on a one-shot layer.
TapToggleOSL ==
    0 :> ("k1" :> A("TT", 2, {}, NoCode) @@ "k2" :> OSL(1))
 @@ 1 :> ("k1" :> TRNS @@ "k2" :> TRNS)
 @@ 2 :> ("k1" :> TRNS @@ "k2" :> TRNS)

\* A one-shot layer and the key that turns one-shot keys off.
OffOSL ==
    0 :> ("k1" :> A("OS_TOGG", 0, {}, NoCode) @@ "k2" :> OSL(1))
 @@ 1 :> ("k1" :> TRNS @@ "k2" :> TRNS)

\* One-shot modifiers and keys.
TwoOSM ==
    0 :> ("k1" :> KC("a") @@ "k2" :> OSM("shift") @@ "k3" :> OSM("ctrl"))

RollOSM ==
    0 :> ("k1" :> KC("a") @@ "k2" :> OSM("shift") @@ "k3" :> KC("b"))

\* A shifted key beside a plain one and a dual-role key.
Shifted ==
    0 :> ("k1" :> KC("a") @@ "k2" :> S("b") @@ "k3" :> A("MT", 0, {"ctrl"}, "c"))

\* Two keys with the same code.
SharedCode ==
    0 :> ("k1" :> KC("a") @@ "k2" :> OSM("shift") @@ "k3" :> KC("b") @@ "k4" :> KC("a"))

\* Two taps of a one-shot modifier are left out: HostSettles says why.
MCMaxTaps == [kind \in TapKinds |-> CASE kind = "TT" -> 3 [] kind = "OSM" -> 1 [] OTHER -> 2]

MCKeymaps == {Typing, Toggling}
=============================================================================
