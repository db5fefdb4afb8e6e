------------------------------- MODULE Eeprom -------------------------------
(***************************************************************************)
(* What an EEPROM driver promises its callers: an array of bytes that      *)
(* outlives a loss of power.  A write of one naturally aligned unit is     *)
(* atomic: it has happened or it has not, whenever power is lost.  A power *)
(* loss that damages the medium itself is noticed at the next start, and   *)
(* then the whole array reads as erased, never a part of it.               *)
(*                                                                         *)
(* This is the abstract specification that FlashEeprom implements and on   *)
(* which EeConfig builds.                                                  *)
(***************************************************************************)
EXTENDS Naturals

CONSTANTS
    Addr,       \* the byte addresses
    Value,      \* what a byte may hold
    Units       \* the sets of addresses that one write changes together

VARIABLES
    store,      \* store[a]: the byte that address a holds
    pending,    \* the write that has been asked for and is not done: none or one
    powered     \* the controller has power

vars == <<store, pending, powered>>

\* An erased EEPROM reads as zero everywhere.
Erased == [a \in Addr |-> 0]

\* The bytes s, those of d written over them.
Overwrite(d, s) == [a \in Addr |-> IF a \in DOMAIN d THEN d[a] ELSE s[a]]

Init == store = Erased /\ pending = {} /\ powered = FALSE

PowerOn == ~powered /\ powered' = TRUE /\ UNCHANGED <<store, pending>>

Request(d) ==
    /\ powered
    /\ pending = {}
    /\ pending' = {d}
    /\ UNCHANGED <<store, powered>>

Write(d) ==
    /\ powered
    /\ pending \subseteq {d}
    /\ store' = Overwrite(d, store)
    /\ pending' = {}
    /\ UNCHANGED powered

Erase ==
    /\ powered
    /\ pending = {}
    /\ store' = Erased
    /\ UNCHANGED <<pending, powered>>

\* Power is lost: the pending write has been done or not, and nothing else is lost,
\* or everything is.
PowerLoss ==
    /\ powered
    /\ powered' = FALSE
    /\ pending' = {}
    /\ store' \in {store, Erased} \cup {Overwrite(d, store) : d \in pending}

Next ==
    \/ PowerOn
    \/ \E u \in Units : \E d \in [u -> Value] : Request(d) \/ Write(d)
    \/ Erase
    \/ PowerLoss

Spec == Init /\ [][Next]_vars
=============================================================================
