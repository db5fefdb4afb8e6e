----------------------------- MODULE MCDebounce -----------------------------
(* Debounce with two keys of one row, and with a key of another row too.   *)
EXTENDS Debounce

MCRow == {<<1, 1>>, <<1, 2>>}
MCKeys == {<<1, 1>>, <<1, 2>>, <<2, 1>>}
=============================================================================
