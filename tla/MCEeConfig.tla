----------------------------- MODULE MCEeConfig -----------------------------
(* EeConfig with a keymap of two bytes, and builds 1 and 2 of one day and 3 *)
(* of another.                                                              *)
EXTENDS EeConfig

MCKeyBytes == <<"key1", "key2">>

\* Builds 1 and 2 share the date; build 3 shares the year only.
MCDate ==
    [b \in Firmware |-> IF b = 3 THEN [via0 |-> 1, via1 |-> 2, via2 |-> 3]
                                 ELSE [via0 |-> 1, via1 |-> 1, via2 |-> 1]]
=============================================================================
