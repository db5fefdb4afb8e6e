--------------------------- MODULE MCWearLeveling ---------------------------
(* WearLeveling on stores that are written 2, 4 and 8 bytes at a time.     *)
EXTENDS WearLeveling

\* Bytes, and words of 0, 1 and more than that; the long one takes three words of
\* two bytes, or two of four.
MCBlocks == {<<2>>, <<0, 0>>, <<1, 0>>, <<1, 2, 3>>}

Store(size, blocks, backing, pages, cut) ==
    [WriteSize |-> size, BackingSize |-> backing, Blocks |-> blocks,
     Pages |-> pages, LockedErase |-> TRUE, CutDuring |-> cut]

\* With 8 bytes every entry is one word, and power may be lost anywhere; otherwise
\* between calls, and not in the middle of an entry.
MCStores ==
    {Store(2, MCBlocks, 24, 1, {"idle"}),
     Store(4, MCBlocks, 32, 2, {"idle", "data", "hash"}),
     Store(8, {<<2>>, <<1, 0, 3>>}, 32, 1, {"idle", "log", "erase", "wipe", "data", "hash"})}
=============================================================================
