------------------------- MODULE WearLevelingProofs -------------------------
(***************************************************************************)
(* Proofs about WearLeveling, for every store that meets the conditions    *)
(* the theorems state and blocks of every length.                          *)
(*                                                                         *)
(* First, what was encoded is what is decoded, entry by entry.  Then, what *)
(* playback makes of a log is found without an induction over the log: the *)
(* invariant says that there is a list of the positions and caches that    *)
(* playback goes through, and every step of the driver extends it.         *)
(***************************************************************************)
EXTENDS WearLeveling, WellFoundedInduction, SequenceTheorems, TLAPS

\* A block of bytes at an address.
Fits(a, d) ==
    /\ a \in Nat /\ d \in Seq(0..255) /\ Len(d) >= 1
    /\ a + Len(d) <= LogicalSize

\* A part of a block.
LEMMA PartOfBlock ==
    ASSUME NEW d, d \in Seq(0..255), NEW m \in Nat, NEW n \in Nat,
           1 <= m, m <= n + 1, n <= Len(d)
    PROVE  /\ SubSeq(d, m, n) \in Seq(0..255)
           /\ Len(SubSeq(d, m, n)) = n - m + 1
           /\ \A i \in 1..n - m + 1 : SubSeq(d, m, n)[i] = d[m + i - 1]
           /\ \A i \in 1..Len(d) : d[i] \in 0..255
<1>1. Len(d) \in Nat
  OBVIOUS
<1>2. \A i \in 1..Len(d) : d[i] \in 0..255
  BY ElementOfSeq
<1>3. ASSUME NEW i \in m..n
      PROVE  d[i] \in 0..255
  <2>1. i \in 1..Len(d)
    BY <1>1
  <2> QED
    BY <1>2, <2>1
<1>4. m \in Int /\ n \in Int
  OBVIOUS
<1> DEFINE t == SubSeq(d, m, n)
<1>5. /\ t \in Seq(0..255)
      /\ Len(t) = IF m <= n THEN n - m + 1 ELSE 0
      /\ \A i \in 1..n - m + 1 : t[i] = d[m + i - 1]
  BY <1>3, <1>4, SubSeqProperties
<1> HIDE DEF t
<1>6. Len(t) = n - m + 1
  BY <1>5
<1> QED
  BY <1>2, <1>5, <1>6 DEF t

LEMMA FirstOfBlock ==
    ASSUME NEW d, d \in Seq(0..255), NEW n \in Nat, n <= Len(d)
    PROVE  /\ SubSeq(d, 1, n) \in Seq(0..255)
           /\ Len(SubSeq(d, 1, n)) = n
           /\ \A i \in 1..n : SubSeq(d, 1, n)[i] = d[i]
<1>1. PICK m \in Nat : m = 1
  OBVIOUS
<1>2. 1 <= m /\ m <= n + 1
  BY <1>1
<1> DEFINE t == SubSeq(d, m, n)
<1>3. /\ t \in Seq(0..255) /\ Len(t) = n - m + 1
      /\ \A i \in 1..n - m + 1 : t[i] = d[m + i - 1]
  BY <1>2, PartOfBlock
<1> HIDE DEF t
<1>4. n - m + 1 = n /\ \A i \in 1..n : m + i - 1 = i
  BY <1>1
<1>5. t \in Seq(0..255) /\ Len(t) = n /\ \A i \in 1..n : t[i] = d[i]
  BY <1>3, <1>4
<1> QED
  BY <1>1, <1>5 DEF t

LEMMA DivMod ==
    ASSUME NEW a \in Nat, NEW r \in Nat, r > 0
    PROVE  /\ a \div r \in Nat /\ a % r \in Nat /\ a % r < r
           /\ a = (a \div r) * r + (a % r)
<1>1. a \div r \in Nat /\ a % r \in Nat /\ a % r < r
  OBVIOUS
<1>2. PICK q \in Int, m \in Int : q = a \div r /\ m = a % r
  BY <1>1
<1>3. a = q * r + m
  BY <1>2, Z3
<1> QED
  BY <1>1, <1>2, <1>3

LEMMA BuildTypes ==
    ASSUME build \in Stores
    PROVE  /\ WriteSize \in {2, 4, 8} /\ build.Pages \in Nat /\ build.Pages >= 1
           /\ build.LockedErase \in BOOLEAN
           /\ LogWords \in Int
           /\ \A d \in build.Blocks : d \in Seq(0..255) /\ Len(d) >= 1 /\ Len(d) <= LogicalSize
<1>1. build \in Build
  BY WearLevelingAssumption
<1>2. /\ build.WriteSize \in {2, 4, 8} /\ build.Pages \in Nat \ {0} /\ build.BackingSize \in Nat
      /\ build.LockedErase \in BOOLEAN /\ build.Blocks \in SUBSET Seq(0..255)
      /\ \A d \in build.Blocks : Len(d) \in 1..LogicalSize
  BY <1>1 DEF Build
<1>3. LogicalSize \in Nat
  BY WearLevelingAssumption
<1>4. LogWords \in Int
  BY <1>2, <1>3 DEF LogWords, WriteSize
<1> QED
  BY <1>2, <1>3, <1>4 DEF WriteSize

-----------------------------------------------------------------------------
(* An entry. *)

Multi(a, d) == ~IsWord01(a, d) /\ ~IsByte(a, d)

LEMMA TakenBounds ==
    ASSUME build \in Stores, NEW a, NEW d, Fits(a, d)
    PROVE  /\ Taken(a, d) \in Nat /\ Taken(a, d) >= 1 /\ Taken(a, d) <= 5
           /\ Taken(a, d) <= Len(d) /\ Len(d) \in Nat
           /\ IsWord01(a, d) => Taken(a, d) = 2
           /\ IsByte(a, d) => Taken(a, d) = 1 /\ ~IsWord01(a, d)
           /\ Multi(a, d) => Taken(a, d) = IF Len(d) < 5 THEN Len(d) ELSE 5
<1>1. Len(d) \in Nat /\ Len(d) >= 1
  BY DEF Fits
<1>2. ASSUME NEW m \in Nat
      PROVE  Min({m, 5}) = IF m < 5 THEN m ELSE 5
  BY DEF Min
<1>3. Min({Len(d), 5}) = IF Len(d) < 5 THEN Len(d) ELSE 5
  BY <1>1, <1>2
<1>4. IsWord01(a, d) => Len(d) >= 2
  BY DEF IsWord01
<1>5. IsByte(a, d) => ~IsWord01(a, d)
  BY DEF IsByte
<1>6. CASE IsWord01(a, d)
  BY <1>1, <1>4, <1>5, <1>6 DEF Taken, Multi
<1>7. CASE ~IsWord01(a, d) /\ IsByte(a, d)
  BY <1>1, <1>7 DEF Taken, Multi
<1>8. CASE ~IsWord01(a, d) /\ ~IsByte(a, d)
  <2>1. Taken(a, d) = IF Len(d) < 5 THEN Len(d) ELSE 5
    BY <1>3, <1>8 DEF Taken, LOG_ENTRY_MULTIBYTE_MAX_BYTES
  <2> QED
    BY <1>1, <1>8, <2>1
<1> QED
  BY <1>6, <1>7, <1>8

\* The parts of an address in a multi-byte entry.
Hi(a) == (a \div Radix) \div Radix
Mid(a) == (a \div Radix) % Radix
Lo(a) == a % Radix

LEMMA DivLess ==
    ASSUME NEW q \in Nat, NEW k \in Nat, NEW r \in Nat, r > 0, q * r < k * r
    PROVE  q < k
<1>1. SUFFICES ASSUME q >= k
               PROVE  FALSE
  OBVIOUS
<1>2. PICK u \in Nat : q = k + u
  <2>1. q - k \in Nat /\ q = k + (q - k)
    BY <1>1
  <2> QED
    BY <2>1
<1>3. q * r = k * r + u * r
  BY <1>2
<1>4. u * r \in Nat /\ q * r \in Nat /\ k * r \in Nat
  OBVIOUS
<1> QED
  BY <1>3, <1>4

LEMMA Digits ==
    ASSUME NEW a \in Nat, a < LogicalSize
    PROVE  /\ Hi(a) \in Nat /\ Hi(a) <= 7 /\ Mid(a) \in Nat /\ Lo(a) \in Nat
           /\ (Hi(a) * Radix + Mid(a)) * Radix + Lo(a) = a
<1> DEFINE h == a \div Radix
           q == h \div Radix
           m == h % Radix
           l == a % Radix
           r == Radix
<1>1. r \in Nat /\ r > 0 /\ LogicalSize \in Nat /\ LogicalSize <= 8 * r * r
  BY WearLevelingAssumption
<1>2. h \in Nat /\ l \in Nat /\ a = h * r + l
  BY <1>1, DivMod
<1> HIDE DEF h
<1>3. q \in Nat /\ m \in Nat /\ h = q * r + m
  BY <1>1, <1>2, DivMod
<1> HIDE DEF q, m, l, r
<1>4. h < 8 * r
  <2>1. 8 * r \in Nat /\ h * r \in Nat /\ (8 * r) * r \in Nat /\ (8 * r) * r = 8 * r * r
    BY <1>1, <1>2
  <2>2. h * r < (8 * r) * r
    BY <1>1, <1>2, <2>1
  <2> QED
    BY <1>1, <1>2, <2>1, <2>2, DivLess
<1>5. q < 8
  <2>1. q * r \in Nat
    BY <1>1, <1>3
  <2>2. q * r < 8 * r
    BY <1>1, <1>2, <1>3, <1>4, <2>1
  <2> QED
    BY <1>1, <1>3, <2>2, DivLess
<1>6. (q * r + m) * r + l = a
  BY <1>2, <1>3
<1> QED
  BY <1>2, <1>3, <1>5, <1>6 DEF Hi, Mid, Lo, h, q, m, l, r

LEMMA MultiBytes ==
    ASSUME build \in Stores, NEW a, NEW d, Fits(a, d), Multi(a, d)
    PROVE  LET e == EntryBytes(a, d)
               n == Taken(a, d)
           IN  /\ Len(e) = 3 + n
               /\ e[1] = 8 * n + Hi(a) /\ e[2] = Mid(a) /\ e[3] = Lo(a)
               /\ \A i \in 1..n : e[3 + i] = d[i]
<1> DEFINE n == Taken(a, d)
           h == <<8 * n + Hi(a), Mid(a), Lo(a)>>
           t == SubSeq(d, 1, n)
<1>1. n \in Nat /\ n >= 1 /\ n <= Len(d) /\ Len(d) \in Nat /\ d \in Seq(0..255) /\ a \in Nat
  BY TakenBounds DEF Fits
<1>2. EntryBytes(a, d) = h \o t
  BY DEF EntryBytes, Multi, Hi, Mid, Lo
<1>a. Hi(a) \in Int /\ Mid(a) \in Int /\ Lo(a) \in Int
  <2>1. a < LogicalSize /\ a \in Nat
    BY WearLevelingAssumption DEF Fits
  <2> QED
    BY <2>1, Digits
<1> HIDE DEF n
<1>3. t \in Seq(0..255) /\ Len(t) = n /\ \A i \in 1..n : t[i] = d[i]
  BY <1>1, FirstOfBlock
<1>4. h \in Seq(Int) /\ Len(h) = 3 /\ h[1] = 8 * n + Hi(a) /\ h[2] = Mid(a) /\ h[3] = Lo(a)
  BY <1>1, <1>a
<1> HIDE DEF h, t
<1>5. t \in Seq(Int)
  <2>1. 0..255 \subseteq Int
    OBVIOUS
  <2> QED
    BY <1>3, <2>1, SeqMonotonic
<1>6. /\ Len(h \o t) = Len(h) + Len(t)
      /\ \A i \in 1..Len(h) + Len(t) :
             (h \o t)[i] = IF i <= Len(h) THEN h[i] ELSE t[i - Len(h)]
  BY <1>4, <1>5, ConcatProperties
<1>7. (h \o t)[1] = h[1] /\ (h \o t)[2] = h[2] /\ (h \o t)[3] = h[3]
  BY <1>1, <1>3, <1>4, <1>6
<1>8. ASSUME NEW i \in 1..n
      PROVE  (h \o t)[3 + i] = d[i]
  <2>1. 3 + i \in 1..Len(h) + Len(t) /\ ~(3 + i <= Len(h)) /\ (3 + i) - Len(h) = i
    BY <1>1, <1>3, <1>4
  <2> QED
    BY <1>3, <1>6, <2>1
<1> QED
  BY <1>2, <1>3, <1>4, <1>6, <1>7, <1>8 DEF n

LEMMA ShortBytes ==
    ASSUME build \in Stores, NEW a, NEW d, Fits(a, d), ~Multi(a, d)
    PROVE  LET e == EntryBytes(a, d)
           IN  /\ WriteSize = 2 /\ Len(e) = 2
               /\ IsWord01(a, d) => e[1] = 128 + 32 * d[1] + (a \div 512) /\ e[2] = (a \div 2) % 256
               /\ IsByte(a, d) => e[1] = 64 + a /\ e[2] = d[1]
<1>1. CASE IsWord01(a, d)
  <2>1. EntryBytes(a, d) = <<128 + 32 * d[1] + (a \div 512), (a \div 2) % 256>> /\ WriteSize = 2 /\ ~IsByte(a, d)
    BY <1>1 DEF EntryBytes, IsWord01, IsByte
  <2> QED
    BY <2>1
<1>2. CASE ~IsWord01(a, d)
  <2>1. IsByte(a, d)
    BY <1>2 DEF Multi
  <2>2. EntryBytes(a, d) = <<64 + a, d[1]>> /\ WriteSize = 2
    BY <1>2, <2>1 DEF EntryBytes, IsByte
  <2> QED
    BY <1>2, <2>2
<1> QED
  BY <1>1, <1>2
\* The entry for the first bytes of the block d at address a is in the log at x.
Holds(x, a, d) ==
    LET e == EntryBytes(a, d)
    IN  /\ x + Words(e) - 1 <= LogWords
        /\ \A k \in 1..Words(e) : log[x + k - 1] = Word(e, k)

\* What playback has read when it goes on at x with the cache c.
Rec(x, c) == [at |-> x, cache |-> c, stop |-> FALSE, failed |-> FALSE, outside |-> FALSE]

\* The number of words that the encodings take, which is what playback expects.
LEMMA WordCount ==
    ASSUME build \in Stores, NEW a, NEW d, Fits(a, d)
    PROVE  /\ Words(EntryBytes(a, d)) \in Nat /\ Words(EntryBytes(a, d)) >= 1
           /\ ~Multi(a, d) => Words(EntryBytes(a, d)) = 1
           /\ WriteSize = 8 => Words(EntryBytes(a, d)) = 1
           /\ Multi(a, d) =>
                LET n == Taken(a, d)
                IN  Words(EntryBytes(a, d)) =
                        CASE WriteSize = 2 -> IF n > 3 THEN 4 ELSE IF n > 1 THEN 3 ELSE 2
                          [] WriteSize = 4 -> IF n > 1 THEN 2 ELSE 1
                          [] WriteSize = 8 -> 1
<1> DEFINE n == Taken(a, d)
           e == EntryBytes(a, d)
<1>1. WriteSize \in {2, 4, 8}
  BY BuildTypes
<1>2. CASE Multi(a, d)
  <2>1. Len(e) = 3 + n
    BY <1>2, MultiBytes
  <2>2. n \in Nat /\ n >= 1 /\ n <= 5
    BY TakenBounds
  <2> HIDE DEF n, e
  <2>3. Words(e) = (3 + n + WriteSize - 1) \div WriteSize
    BY <2>1 DEF Words
  <2>4. WriteSize = 2 => Words(e) = IF n > 3 THEN 4 ELSE IF n > 1 THEN 3 ELSE 2
    BY <2>2, <2>3
  <2>5. WriteSize = 4 => Words(e) = IF n > 1 THEN 2 ELSE 1
    BY <2>2, <2>3
  <2>6. WriteSize = 8 => Words(e) = 1
    BY <2>2, <2>3
  <2>7. Words(e) \in Nat /\ Words(e) >= 1
    BY <1>1, <2>2, <2>4, <2>5, <2>6
  <2>8. CASE WriteSize = 2
    BY <1>2, <2>4, <2>7, <2>8 DEF n, e
  <2>9. CASE WriteSize = 4
    BY <1>2, <2>5, <2>7, <2>9 DEF n, e
  <2>10. CASE WriteSize = 8
    BY <1>2, <2>6, <2>7, <2>10 DEF n, e
  <2> QED
    BY <1>1, <2>8, <2>9, <2>10
<1>3. CASE ~Multi(a, d)
  <2>1. Len(e) = 2 /\ WriteSize = 2
    BY <1>3, ShortBytes
  <2> HIDE DEF e
  <2>2. Words(e) = 1
    BY <2>1 DEF Words
  <2> QED
    BY <1>3, <2>1, <2>2 DEF e
<1> QED
  BY <1>2, <1>3

\* The bytes of a word in the log.
LEMMA ByteOfWord ==
    ASSUME build \in Stores, NEW a, NEW d, Fits(a, d), NEW x \in Nat, Holds(x, a, d),
           NEW j \in Nat, 1 <= j, j <= Len(EntryBytes(a, d)), Len(EntryBytes(a, d)) \in Nat
    PROVE  /\ (j - 1) \div WriteSize \in Nat
           /\ x + ((j - 1) \div WriteSize) <= LogWords
           /\ log[x + ((j - 1) \div WriteSize)][1 + ((j - 1) % WriteSize)]
                = EntryBytes(a, d)[j]
<1> DEFINE e == EntryBytes(a, d)
           W == WriteSize
           q == (j - 1) \div W
           r == (j - 1) % W
<1>1. W \in Nat /\ W > 0 /\ W \in {2, 4, 8} /\ LogWords \in Int
  BY BuildTypes
<1>2. j - 1 \in Nat
  OBVIOUS
<1> HIDE DEF W
<1>3. q \in Nat /\ r \in Nat /\ r < W /\ j - 1 = q * W + r
  BY <1>1, <1>2, DivMod
<1>4. Words(e) \in Nat
  BY WordCount
<1> HIDE DEF e, q, r
<1>5. Words(e) = (Len(e) + W - 1) \div W
  BY DEF Words, W
<1>6. j <= Len(e) /\ Len(e) \in Nat
  BY DEF e
<1>7. q + 1 <= Words(e)
  <2>1. CASE W = 2
    BY <1>2, <1>3, <1>4, <1>5, <1>6, <2>1
  <2>2. CASE W = 4
    BY <1>2, <1>3, <1>4, <1>5, <1>6, <2>2
  <2>3. CASE W = 8
    BY <1>2, <1>3, <1>4, <1>5, <1>6, <2>3
  <2> QED
    BY <1>1, <2>1, <2>2, <2>3
<1>8. /\ x + Words(e) - 1 <= LogWords
      /\ \A k \in 1..Words(e) : log[x + k - 1] = Word(e, k)
  BY DEF Holds, e
<1>9. x + (q + 1) - 1 = x + q /\ q + 1 \in 1..Words(e) /\ x + q <= LogWords
  BY <1>1, <1>3, <1>4, <1>7, <1>8
<1>10. log[x + q] = Word(e, q + 1)
  BY <1>8, <1>9
<1>11. 1 + r \in 1..W /\ ((q + 1) - 1) * W + (1 + r) = j
  <2>1. (q + 1) - 1 = q
    BY <1>3
  <2>2. q * W \in Int
    BY <1>1, <1>3
  <2> QED
    BY <1>1, <1>3, <2>1, <2>2
<1>12. Word(e, q + 1)[1 + r] = e[j]
  BY <1>6, <1>11 DEF Word, W
<1> QED
  BY <1>3, <1>9, <1>10, <1>12 DEF e, q, r, W
LEMMA PlayedRec ==
    ASSUME NEW x \in Nat, NEW c, NEW n \in Nat, LogWords \in Int, x + n - 1 <= LogWords,
           NEW a, NEW t
    PROVE  Played(Rec(x, c), n, a, t) = Rec(x + n, Put(c, a, t))
<1>1. Outside(Rec(x, c), n) = FALSE
  BY DEF Outside, Rec
<1> QED
  BY <1>1 DEF Played, Rec

LEMMA BytesBehind ==
    ASSUME NEW B, NEW d, d \in Seq(0..255), NEW n \in Nat, n >= 1, n <= Len(d),
           \A i \in 1..n : B[3 + i] = d[i]
    PROVE  SubSeq(B, 4, 3 + n) = SubSeq(d, 1, n)
<1> DEFINE m == 3 + n
           s == SubSeq(B, 4, m)
           t == SubSeq(d, 1, n)
<1>1. t \in Seq(0..255) /\ Len(t) = n /\ \A i \in 1..n : t[i] = d[i]
  BY FirstOfBlock
<1>2. \A i \in 1..Len(d) : d[i] \in 0..255
  BY ElementOfSeq
<1>3. Len(d) \in Nat
  OBVIOUS
<1>4. ASSUME NEW i \in 4..m
      PROVE  B[i] \in 0..255
  <2>1. i - 3 \in 1..n /\ i - 3 \in 1..Len(d) /\ 3 + (i - 3) = i
    BY <1>3
  <2> QED
    BY <1>2, <2>1
<1>5. 4 \in Int /\ m \in Int
  OBVIOUS
<1> HIDE DEF m
<1>6. /\ s \in Seq(0..255)
      /\ Len(s) = IF 4 <= m THEN m - 4 + 1 ELSE 0
      /\ \A i \in 1..m - 4 + 1 : s[i] = B[4 + i - 1]
  BY <1>4, <1>5, SubSeqProperties
<1>7. m - 4 + 1 = n /\ 4 <= m
  BY DEF m
<1> HIDE DEF s, t
<1>8. ASSUME NEW i \in 1..n
      PROVE  s[i] = t[i]
  <2>1. 4 + i - 1 = 3 + i
    OBVIOUS
  <2>2. s[i] = B[3 + i]
    BY <1>6, <1>7, <2>1
  <2> QED
    BY <1>1, <2>2
<1>9. s = t
  <2>1. Len(s) = n /\ s \in Seq(0..255)
    BY <1>6, <1>7
  <2> QED
    BY <1>1, <1>8, <2>1, SeqEqual
<1> QED
  BY <1>9 DEF s, t, m

LEMMA FirstByte ==
    ASSUME NEW n \in Nat, n <= 5, NEW h \in Nat, h <= 7
    PROVE  /\ (8 * n + h) % 8 = h /\ ((8 * n + h) \div 8) % 8 = n
           /\ (8 * n + h) \div 64 = 0
  OBVIOUS

LEMMA PlayMulti ==
    ASSUME build \in Stores, NEW a, NEW d, Fits(a, d), Multi(a, d),
           NEW x \in Nat, Holds(x, a, d), NEW c, NEW junk
    PROVE  PlayMultibyte(Rec(x, c), junk)
             = Rec(x + Words(EntryBytes(a, d)), Put(c, a, SubSeq(d, 1, Taken(a, d))))
<1> DEFINE n == Taken(a, d)
           e == EntryBytes(a, d)
           W == WriteSize
           p == Rec(x, c)
           word(k) == IF p.at + k <= LogWords THEN log[p.at + k] ELSE junk
           B == [j \in 1..4 * W |-> word((j - 1) \div W)[1 + ((j - 1) % W)]]
           len == (B[1] \div 8) % 8
           addr == ((B[1] % 8) * Radix + B[2]) * Radix + B[3]
           count == CASE W = 2 -> IF len > 3 THEN 4 ELSE IF len > 1 THEN 3 ELSE 2
                      [] W = 4 -> IF len > 1 THEN 2 ELSE 1
                      [] W = 8 -> 1
<1>1. W \in {2, 4, 8} /\ LogWords \in Int /\ Radix \in Nat /\ Radix > 0 /\ LogicalSize \in Nat
  BY BuildTypes, WearLevelingAssumption
<1>2. /\ n \in Nat /\ n >= 1 /\ n <= 5 /\ n <= Len(d) /\ Len(d) \in Nat
      /\ a \in Nat /\ d \in Seq(0..255) /\ a + Len(d) <= LogicalSize
  BY TakenBounds DEF Fits
<1>3. /\ Len(e) = 3 + n
      /\ e[1] = 8 * n + Hi(a) /\ e[2] = Mid(a) /\ e[3] = Lo(a)
      /\ \A i \in 1..n : e[3 + i] = d[i]
  BY MultiBytes
<1>4. ASSUME NEW j \in 1..3 + n
      PROVE  j \in 1..4 * W /\ B[j] = e[j]
  <2>1. j \in Nat /\ 1 <= j /\ j <= Len(e) /\ Len(e) \in Nat
    BY <1>2, <1>3
  <2>2. /\ x + ((j - 1) \div W) <= LogWords
        /\ log[x + ((j - 1) \div W)][1 + ((j - 1) % W)] = e[j]
    BY <2>1, ByteOfWord
  <2>3. word((j - 1) \div W) = log[x + ((j - 1) \div W)]
    BY <2>2 DEF Rec
  <2>4. j \in 1..4 * W
    BY <1>1, <1>2
  <2>5. B[j] = word((j - 1) \div W)[1 + ((j - 1) % W)]
    BY <2>4
  <2> QED
    BY <2>2, <2>3, <2>4, <2>5
<1>5. PlayMultibyte(p, junk) =
        IF addr + len > LogicalSize THEN Cancelled(p, IF W = 2 THEN 2 ELSE 1)
        ELSE Played(p, count, addr, SubSeq(B, 4, 3 + len))
  BY DEF PlayMultibyte
<1>6. /\ Words(e) \in Nat
      /\ Words(e) = CASE W = 2 -> IF n > 3 THEN 4 ELSE IF n > 1 THEN 3 ELSE 2
                      [] W = 4 -> IF n > 1 THEN 2 ELSE 1
                      [] W = 8 -> 1
  BY WordCount
<1>7. x + Words(e) - 1 <= LogWords
  BY DEF Holds
<1> HIDE DEF n, e, W, B
<1>a. /\ Hi(a) \in Nat /\ Hi(a) <= 7 /\ Mid(a) \in Nat /\ Lo(a) \in Nat
      /\ (Hi(a) * Radix + Mid(a)) * Radix + Lo(a) = a
  <2>1. a < LogicalSize /\ a \in Nat
    BY <1>1, <1>2
  <2> QED
    BY <2>1, Digits
<1>b. B[1] = 8 * n + Hi(a) /\ B[2] = Mid(a) /\ B[3] = Lo(a)
  BY <1>2, <1>3, <1>4
<1>8. len = n
  <2>1. ((8 * n + Hi(a)) \div 8) % 8 = n
    BY <1>2, <1>a, FirstByte
  <2> QED
    BY <1>b, <2>1
<1>9. addr = a
  <2>1. B[1] % 8 = Hi(a)
    <3>1. (8 * n + Hi(a)) % 8 = Hi(a)
      BY <1>2, <1>a, FirstByte
    <3> QED
      BY <1>b, <3>1
  <2> QED
    BY <1>a, <1>b, <2>1
<1>10. SubSeq(B, 4, 3 + n) = SubSeq(d, 1, n)
  <2>1. ASSUME NEW i \in 1..n
        PROVE  B[3 + i] = d[i]
    <3>1. 3 + i \in 1..3 + n
      BY <1>2
    <3> QED
      BY <1>3, <1>4, <3>1
  <2> QED
    BY <1>2, <2>1, BytesBehind
<1>11. count = Words(e)
  BY <1>6, <1>8
<1> HIDE DEF len, addr, count, p
<1>12. PlayMultibyte(p, junk) = Played(p, Words(e), a, SubSeq(d, 1, n))
  <2>1. ~(a + n > LogicalSize)
    BY <1>1, <1>2
  <2> QED
    BY <1>5, <1>8, <1>9, <1>10, <1>11, <2>1
<1>13. Played(p, Words(e), a, SubSeq(d, 1, n)) = Rec(x + Words(e), Put(c, a, SubSeq(d, 1, n)))
  <2> DEFINE t == SubSeq(d, 1, n)
             w == Words(e)
  <2>1. LogWords \in Int /\ w \in Nat /\ x + w - 1 <= LogWords
    BY <1>1, <1>6, <1>7
  <2> HIDE DEF t, w
  <2>2. Played(Rec(x, c), w, a, t) = Rec(x + w, Put(c, a, t))
    BY <2>1, PlayedRec
  <2> QED
    BY <2>2 DEF t, w, p
<1> QED
  BY <1>12, <1>13 DEF n, e, p
\* The first word of an entry.
LEMMA FirstWord ==
    ASSUME build \in Stores, NEW a, NEW d, Fits(a, d), NEW x \in Nat, Holds(x, a, d)
    PROVE  /\ x <= LogWords /\ LogWords \in Int
           /\ log[x][1] = EntryBytes(a, d)[1]
           /\ WriteSize = 2 => log[x][2] = EntryBytes(a, d)[2]
           /\ log[x][1] # 0 => log[x] # Blank
<1> DEFINE e == EntryBytes(a, d)
<1>1. WriteSize \in {2, 4, 8} /\ LogWords \in Int
  BY BuildTypes
<1>2. Words(e) \in Nat /\ Words(e) >= 1
  BY WordCount
<1>3. Len(e) \in Nat /\ Len(e) >= 2
  <2>1. CASE Multi(a, d)
    <3>1. Len(e) = 3 + Taken(a, d) /\ Taken(a, d) \in Nat
      BY <2>1, MultiBytes, TakenBounds
    <3> HIDE DEF e
    <3> QED
      BY <3>1
  <2>2. CASE ~Multi(a, d)
    <3>1. Len(e) = 2
      BY <2>2, ShortBytes
    <3> HIDE DEF e
    <3> QED
      BY <3>1
  <2> QED
    BY <2>1, <2>2
<1>4. x + Words(e) - 1 <= LogWords /\ \A k \in 1..Words(e) : log[x + k - 1] = Word(e, k)
  BY DEF Holds
<1> HIDE DEF e
<1>5. log[x] = Word(e, 1)
  <2>1. 1 \in 1..Words(e) /\ x + 1 - 1 = x
    BY <1>2
  <2> QED
    BY <1>4, <2>1
<1>6. Word(e, 1)[1] = e[1]
  <2>1. 1 \in 1..WriteSize /\ (1 - 1) * WriteSize + 1 = 1 /\ 1 <= Len(e)
    BY <1>1, <1>3
  <2> QED
    BY <2>1 DEF Word
<1>7. Word(e, 1)[2] = e[2]
  <2>1. 2 \in 1..WriteSize /\ (1 - 1) * WriteSize + 2 = 2 /\ 2 <= Len(e)
    BY <1>1, <1>3
  <2> QED
    BY <2>1 DEF Word
<1>8. Blank[1] = 0
  BY <1>1 DEF Blank
<1>9. x <= LogWords
  BY <1>1, <1>2, <1>4
<1> QED
  BY <1>1, <1>5, <1>6, <1>7, <1>8, <1>9 DEF e

LEMMA OneByte ==
    ASSUME NEW d, d \in Seq(0..255), Len(d) >= 1
    PROVE  SubSeq(d, 1, 1) = <<d[1]>>
<1> DEFINE s == SubSeq(d, 1, 1)
           t == <<d[1]>>
<1>1. Len(d) \in Nat /\ 1 \in Nat /\ 1 <= Len(d)
  OBVIOUS
<1>2. s \in Seq(0..255) /\ Len(s) = 1 /\ \A i \in 1..1 : s[i] = d[i]
  BY <1>1, FirstOfBlock
<1>3. d[1] \in 0..255
  BY <1>1, ElementOfSeq
<1>4. t \in Seq(0..255) /\ Len(t) = 1 /\ t[1] = d[1]
  BY <1>3
<1> HIDE DEF s, t
<1>5. \A i \in 1..1 : s[i] = t[i]
  BY <1>2, <1>4
<1>6. s = t
  BY <1>2, <1>4, <1>5, SeqEqual
<1> QED
  BY <1>6 DEF s, t

LEMMA TwoBytes ==
    ASSUME NEW d, d \in Seq(0..255), Len(d) >= 2
    PROVE  SubSeq(d, 1, 2) = <<d[1], d[2]>>
<1> DEFINE s == SubSeq(d, 1, 2)
           t == <<d[1], d[2]>>
<1>1. Len(d) \in Nat /\ 2 \in Nat /\ 2 <= Len(d)
  OBVIOUS
<1>2. s \in Seq(0..255) /\ Len(s) = 2 /\ \A i \in 1..2 : s[i] = d[i]
  BY <1>1, FirstOfBlock
<1>3. d[1] \in 0..255 /\ d[2] \in 0..255
  <2>1. 1 \in 1..Len(d) /\ 2 \in 1..Len(d)
    BY <1>1
  <2> QED
    BY <2>1, ElementOfSeq
<1>4. t \in Seq(0..255) /\ Len(t) = 2 /\ t[1] = d[1] /\ t[2] = d[2]
  BY <1>3
<1> HIDE DEF s, t
<1>5. \A i \in 1..2 : s[i] = t[i]
  BY <1>2, <1>4
<1>6. s = t
  BY <1>2, <1>4, <1>5, SeqEqual
<1> QED
  BY <1>6 DEF s, t

LEMMA WordAddress ==
    ASSUME NEW a \in Nat, a % 2 = 0, a < 16384
    PROVE  /\ a \div 512 \in Nat /\ a \div 512 < 32
           /\ (a \div 512) * 512 + ((a \div 2) % 256) * 2 = a
<1>1. PICK u \in Nat : u = a \div 2 /\ a = 2 * u
  OBVIOUS
<1>2. PICK w \in Nat, v \in Nat : v = u % 256 /\ v < 256 /\ u = 256 * w + v
  <2>1. u \div 256 \in Nat /\ u % 256 \in Nat /\ u % 256 < 256
        /\ u = 256 * (u \div 256) + (u % 256)
    OBVIOUS
  <2> QED
    BY <2>1
<1>3. a = 512 * w + 2 * v /\ 2 * v < 512
  BY <1>1, <1>2
<1>4. a \div 512 = w
  BY <1>3
<1> QED
  BY <1>1, <1>2, <1>3, <1>4

\* Playback decodes an entry as what was encoded.
LEMMA PlayHeld ==
    ASSUME build \in Stores, NEW a, NEW d, Fits(a, d), NEW x \in Nat, Holds(x, a, d),
           NEW c, NEW junk
    PROVE  PlayEntry(Rec(x, c), junk)
             = Rec(x + Words(EntryBytes(a, d)), Put(c, a, SubSeq(d, 1, Taken(a, d))))
<1> DEFINE p == Rec(x, c)
           first == log[p.at]
           type == first[1] \div 64
           byteAddr == first[1] % 64
           wordAddr == (first[1] % 32) * 512 + first[2] * 2
           n == Taken(a, d)
           e == EntryBytes(a, d)
<1>1. /\ x <= LogWords /\ LogWords \in Int
      /\ log[x][1] = e[1]
      /\ WriteSize = 2 => log[x][2] = e[2]
      /\ log[x][1] # 0 => log[x] # Blank
  BY FirstWord
<1>2. p.at = x /\ p.stop = FALSE
  BY DEF Rec
<1>3. first = log[x]
  BY <1>2
<1>4. a \in Nat /\ d \in Seq(0..255) /\ Len(d) \in Nat /\ a + Len(d) <= LogicalSize /\ Len(d) >= 1
      /\ LogicalSize \in Nat
  BY WearLevelingAssumption DEF Fits
<1>5. ASSUME log[x][1] # 0
      PROVE  /\ type = 0 => PlayEntry(p, junk) = PlayMultibyte(p, junk)
             /\ type = 1 /\ WriteSize = 2 =>
                  PlayEntry(p, junk) = IF byteAddr >= LogicalSize THEN Cancelled(p, 1)
                                       ELSE Played(p, 1, byteAddr, <<first[2]>>)
             /\ type = 2 /\ WriteSize = 2 =>
                  PlayEntry(p, junk) = IF wordAddr + 1 >= LogicalSize THEN Cancelled(p, 1)
                                       ELSE Played(p, 1, wordAddr, <<(first[1] \div 32) % 2, 0>>)
  <2>1. ~(p.stop \/ p.at > LogWords) /\ first # Blank
    BY <1>1, <1>2, <1>3, <1>5
  <2> HIDE DEF p
  <2>2. PlayEntry(p, junk) =
          CASE type = 0 -> PlayMultibyte(p, junk)
            [] type = 1 /\ WriteSize = 2 ->
                 IF byteAddr >= LogicalSize THEN Cancelled(p, 1)
                 ELSE Played(p, 1, byteAddr, <<first[2]>>)
            [] type = 2 /\ WriteSize = 2 ->
                 IF wordAddr + 1 >= LogicalSize THEN Cancelled(p, 1)
                 ELSE Played(p, 1, wordAddr, <<(first[1] \div 32) % 2, 0>>)
            [] OTHER -> Cancelled(p, 1)
    BY <2>1 DEF PlayEntry
  <2> HIDE DEF type, byteAddr, wordAddr, first
  <2> QED
    BY <2>2
<1>6. CASE Multi(a, d)
  <2>1. e[1] = 8 * n + Hi(a)
    BY <1>6, MultiBytes
  <2>2. n \in Nat /\ n >= 1 /\ n <= 5
    BY TakenBounds
  <2>3. Hi(a) \in Nat /\ Hi(a) <= 7
    <3>1. a < LogicalSize
      BY <1>4
    <3> QED
      BY <1>4, <3>1, Digits
  <2> HIDE DEF n, e
  <2>4. type = 0 /\ log[x][1] # 0
    <3>1. (8 * n + Hi(a)) \div 64 = 0 /\ 8 * n + Hi(a) # 0
      BY <2>2, <2>3, FirstByte
    <3> QED
      BY <1>1, <1>3, <2>1, <3>1
  <2>5. PlayEntry(p, junk) = PlayMultibyte(p, junk)
    BY <1>5, <2>4
  <2> QED
    BY <1>6, <2>5, PlayMulti DEF n, e
<1>7. CASE IsByte(a, d)
  <2>1. WriteSize = 2 /\ e[1] = 64 + a /\ e[2] = d[1] /\ a < Small /\ n = 1 /\ ~Multi(a, d)
    BY <1>7, ShortBytes, TakenBounds DEF IsByte, Multi
  <2>2. a < 64 /\ a < LogicalSize
    BY <1>4, <2>1, WearLevelingAssumption
  <2>3. Words(e) = 1
    BY <2>1, WordCount
  <2>4. SubSeq(d, 1, n) = <<d[1]>>
    BY <1>4, <2>1, OneByte
  <2> HIDE DEF e, n
  <2>5. first[1] = 64 + a /\ first[2] = d[1] /\ log[x][1] # 0
    BY <1>1, <1>3, <1>4, <2>1
  <2>6. type = 1 /\ byteAddr = a
    <3>1. (64 + a) \div 64 = 1 /\ (64 + a) % 64 = a
      BY <1>4, <2>2
    <3> QED
      BY <2>5, <3>1
  <2> HIDE DEF p, first, type, byteAddr, wordAddr
  <2>7. PlayEntry(p, junk) = Played(p, 1, a, <<d[1]>>)
    <3>1. ~(a >= LogicalSize)
      BY <1>4, <2>2
    <3> QED
      BY <1>5, <2>1, <2>5, <2>6, <3>1
  <2>8. Played(Rec(x, c), 1, a, SubSeq(d, 1, n)) = Rec(x + 1, Put(c, a, SubSeq(d, 1, n)))
    <3> DEFINE t == SubSeq(d, 1, n)
    <3> HIDE DEF t
    <3>1. 1 \in Nat /\ x + 1 - 1 <= LogWords
      BY <1>1
    <3>2. Played(Rec(x, c), 1, a, t) = Rec(x + 1, Put(c, a, t))
      BY <1>1, <3>1, PlayedRec
    <3> QED
      BY <3>2 DEF t
  <2> QED
    BY <2>3, <2>4, <2>7, <2>8 DEF e, n, p
<1>8. CASE IsWord01(a, d)
  <2>1. /\ WriteSize = 2 /\ Len(d) >= 2 /\ a % 2 = 0 /\ a < 16384 /\ d[2] = 0 /\ d[1] \in {0, 1}
        /\ n = 2 /\ ~Multi(a, d)
    BY <1>8, TakenBounds DEF IsWord01, Multi
  <2>2. e[1] = 128 + 32 * d[1] + (a \div 512) /\ e[2] = (a \div 2) % 256
    BY <1>8, <2>1, ShortBytes
  <2>3. Words(e) = 1
    BY <2>1, WordCount
  <2>4. SubSeq(d, 1, n) = <<d[1], 0>>
    BY <1>4, <2>1, TwoBytes
  <2> HIDE DEF e, n
  <2>5. first[1] = 128 + 32 * d[1] + (a \div 512) /\ first[2] = (a \div 2) % 256
    BY <1>1, <1>3, <2>1, <2>2
  <2>6. /\ type = 2 /\ wordAddr = a /\ (first[1] \div 32) % 2 = d[1]
        /\ log[x][1] # 0
    <3> DEFINE h == a \div 512
    <3>1. h \in Nat /\ h < 32 /\ h * 512 + ((a \div 2) % 256) * 2 = a
      BY <1>4, <2>1, WordAddress
    <3> HIDE DEF h
    <3>2. ASSUME NEW v \in {0, 1}, NEW b, b = 128 + 32 * v + h
          PROVE  b \div 64 = 2 /\ b % 32 = h /\ (b \div 32) % 2 = v /\ b # 0
      BY <3>1, <3>2
    <3>3. /\ first[1] \div 64 = 2 /\ first[1] % 32 = h /\ (first[1] \div 32) % 2 = d[1]
          /\ first[1] # 0
      <4>1. first[1] = 128 + 32 * d[1] + h
        BY <2>5 DEF h
      <4> HIDE DEF first
      <4> QED
        BY <2>1, <3>2, <4>1
    <3> QED
      BY <1>3, <2>5, <3>1, <3>3
  <2> HIDE DEF p, first, type, byteAddr, wordAddr
  <2>7. PlayEntry(p, junk) = Played(p, 1, a, <<d[1], 0>>)
    <3>1. ~(a + 1 >= LogicalSize)
      BY <1>4, <2>1
    <3> QED
      BY <1>5, <2>1, <2>6, <3>1
  <2>8. Played(Rec(x, c), 1, a, SubSeq(d, 1, n)) = Rec(x + 1, Put(c, a, SubSeq(d, 1, n)))
    <3> DEFINE t == SubSeq(d, 1, n)
    <3> HIDE DEF t
    <3>1. 1 \in Nat /\ x + 1 - 1 <= LogWords
      BY <1>1
    <3>2. Played(Rec(x, c), 1, a, t) = Rec(x + 1, Put(c, a, t))
      BY <1>1, <3>1, PlayedRec
    <3> QED
      BY <3>2 DEF t
  <2> QED
    BY <2>3, <2>4, <2>7, <2>8 DEF e, n, p
<1> QED
  BY <1>6, <1>7, <1>8 DEF Multi
-----------------------------------------------------------------------------
(* The log as a list of entries. *)

\* The log has an entry from position x to y, which takes the cache from c to k.
Linked(x, c, y, k) ==
    \E a, d : /\ Fits(a, d) /\ Holds(x, a, d)
              /\ y = x + Words(EntryBytes(a, d))
              /\ k = Put(c, a, SubSeq(d, 1, Taken(a, d)))

\* E entries, one after another: A[i] is where the i-th one ends, C[i] the cache then.
Chain(A, C, E) ==
    /\ E \in Nat
    /\ A[0] = 1 /\ C[0] = ReadConsolidated
    /\ \A i \in 0..E : A[i] \in Nat /\ i + 1 <= A[i] /\ A[i] <= A[E]
    /\ \A i \in 1..E : Linked(A[i - 1], C[i - 1], A[i], C[i])

\* The log before x holds entries that make the cache c of the consolidated data.
Tape(x, c) == \E A, C, E : Chain(A, C, E) /\ A[E] = x /\ C[E] = c

BlankFrom(x) == \A k \in x..LogWords : log[k] = Blank

LEMMA LinkedPlays ==
    ASSUME build \in Stores, NEW x \in Nat, NEW c, NEW y, NEW k, Linked(x, c, y, k)
    PROVE  /\ y \in Nat /\ y >= x + 1 /\ y <= LogWords + 1
           /\ \A junk : PlayEntry(Rec(x, c), junk) = Rec(y, k)
<1>1. PICK a, d : /\ Fits(a, d) /\ Holds(x, a, d)
                  /\ y = x + Words(EntryBytes(a, d))
                  /\ k = Put(c, a, SubSeq(d, 1, Taken(a, d)))
  BY DEF Linked
<1>2. Words(EntryBytes(a, d)) \in Nat /\ Words(EntryBytes(a, d)) >= 1 /\ LogWords \in Int
  BY <1>1, WordCount, BuildTypes
<1>3. x + Words(EntryBytes(a, d)) - 1 <= LogWords
  BY <1>1 DEF Holds
<1>4. y \in Nat /\ y >= x + 1 /\ y <= LogWords + 1
  BY <1>1, <1>2, <1>3
<1>5. ASSUME NEW junk
      PROVE  PlayEntry(Rec(x, c), junk) = Rec(y, k)
  BY <1>1, PlayHeld
<1> QED
  BY <1>4, <1>5

\* Playback ends where the log is blank.
Final(x, c) ==
    IF x > LogWords THEN Rec(x, c)
    ELSE [at |-> x, cache |-> c, stop |-> TRUE, failed |-> FALSE, outside |-> FALSE]

LEMMA PlayEnd ==
    ASSUME build \in Stores, NEW x \in Nat, NEW c, BlankFrom(x), NEW junk
    PROVE  /\ PlayEntry(Rec(x, c), junk) = Final(x, c)
           /\ PlayEntry(Final(x, c), junk) = Final(x, c)
<1>1. LogWords \in Int
  BY BuildTypes
<1> DEFINE p == Rec(x, c)
           f == Final(x, c)
<1>2. p.at = x /\ ~p.stop /\ p.cache = c /\ p.outside = FALSE
  BY DEF Rec
<1>3. CASE x > LogWords
  <2>1. f = p
    BY <1>3 DEF Final
  <2>2. p.stop \/ p.at > LogWords
    BY <1>2, <1>3
  <2> HIDE DEF p, f
  <2>3. PlayEntry(p, junk) = p
    BY <2>2 DEF PlayEntry
  <2> QED
    BY <2>1, <2>3 DEF p, f
<1>4. CASE x <= LogWords
  <2>1. log[x] = Blank
    BY <1>1, <1>4 DEF BlankFrom
  <2>2. ~(p.stop \/ p.at > LogWords)
    BY <1>1, <1>2, <1>4
  <2>3. log[p.at] = Blank
    BY <1>2, <2>1
  <2>a. f = [at |-> x, cache |-> c, stop |-> TRUE, failed |-> FALSE, outside |-> FALSE]
    BY <1>1, <1>4 DEF Final
  <2>b. f.stop
    BY <2>a
  <2>4. Ended(p) = f
    BY <1>2, <2>a DEF Ended
  <2> HIDE DEF p, f
  <2>5. PlayEntry(p, junk) = Ended(p)
    BY <2>2, <2>3 DEF PlayEntry
  <2>6. PlayEntry(f, junk) = f
    BY <2>b DEF PlayEntry
  <2> QED
    BY <2>4, <2>5, <2>6 DEF p, f
<1> QED
  BY <1>1, <1>3, <1>4
\* f is what playback goes through.
IsPlay(f, junk) ==
    f = [k \in 0..LogWords + 1 |-> IF k = 0 THEN Rec(1, ReadConsolidated)
                                   ELSE PlayEntry(f[k - 1], junk)]

LEMMA PlaybackIs ==
    ASSUME NEW junk
    PROVE  Playback(junk) = (CHOOSE f : IsPlay(f, junk))[LogWords + 1]
  BY DEF Playback, IsPlay, Rec

Less == {p \in Nat \X Nat : p[1] < p[2]}

\* A set of natural numbers that is not empty has a least element.
LEMMA LeastExists ==
    ASSUME NEW S, S \subseteq Nat, S # {}
    PROVE  \E x \in S : \A y \in S : x =< y
<1>1. IsWellFoundedOn(Less, Nat)
  BY NatLessThanWellFounded DEF OpToRel, Less
<1>2. PICK x \in S : \A y \in S : ~ (<<y, x>> \in Less)
  BY <1>1, WFMin
<1>3. ASSUME NEW y \in S
      PROVE  x =< y
  <2>1. x \in Nat /\ y \in Nat
    OBVIOUS
  <2>2. ~ (y < x)
    BY <1>2, <2>1 DEF Less
  <2> QED
    BY <2>1, <2>2
<1> QED
  BY <1>3

\* There is only one such f.
LEMMA PlayUnique ==
    ASSUME NEW junk, NEW f, IsPlay(f, junk), NEW g, IsPlay(g, junk), LogWords \in Nat,
           NEW n \in 0..LogWords + 1
    PROVE  f[n] = g[n]
<1> DEFINE S == {k \in 0..LogWords + 1 : f[k] # g[k]}
<1>1. SUFFICES ASSUME S # {}
               PROVE  FALSE
  OBVIOUS
<1>2. S \subseteq Nat
  OBVIOUS
<1>3. PICK k \in S : \A y \in S : k =< y
  <2> HIDE DEF S
  <2> QED
    BY <1>1, <1>2, LeastExists
<1>4. k \in 0..LogWords + 1 /\ f[k] # g[k]
  BY <1>3
<1>5. /\ f[k] = IF k = 0 THEN Rec(1, ReadConsolidated) ELSE PlayEntry(f[k - 1], junk)
      /\ g[k] = IF k = 0 THEN Rec(1, ReadConsolidated) ELSE PlayEntry(g[k - 1], junk)
  BY <1>4 DEF IsPlay
<1>6. k # 0
  BY <1>4, <1>5
<1>7. k - 1 \in 0..LogWords + 1 /\ ~(k =< k - 1)
  BY <1>4, <1>6
<1>8. f[k - 1] = g[k - 1]
  BY <1>3, <1>7
<1> QED
  BY <1>4, <1>5, <1>6, <1>8

\* What playback makes of a list of entries.
LEMMA TapePlays ==
    ASSUME build \in Stores, NEW x \in Nat, NEW c, Tape(x, c), BlankFrom(x),
           x <= LogWords + 1, NEW junk
    PROVE  Playback(junk) = Final(x, c)
<1>1. PICK A, C, E : Chain(A, C, E) /\ A[E] = x /\ C[E] = c
  BY DEF Tape
<1>2. /\ E \in Nat /\ A[0] = 1 /\ C[0] = ReadConsolidated
      /\ \A i \in 0..E : A[i] \in Nat /\ i + 1 <= A[i] /\ A[i] <= A[E]
      /\ \A i \in 1..E : Linked(A[i - 1], C[i - 1], A[i], C[i])
  BY <1>1 DEF Chain
<1>3. LogWords \in Nat /\ E <= LogWords /\ x >= 1
  <2>1. E + 1 <= x /\ E \in 0..E
    BY <1>1, <1>2
  <2>2. LogWords \in Int
    BY BuildTypes
  <2> QED
    BY <1>2, <2>1, <2>2
<1> DEFINE w == [k \in 0..LogWords + 1 |-> IF k <= E THEN Rec(A[k], C[k]) ELSE Final(x, c)]
<1>4. ASSUME NEW k \in 1..LogWords + 1
      PROVE  w[k] = PlayEntry(w[k - 1], junk)
  <2>1. k - 1 \in 0..LogWords + 1 /\ k \in 0..LogWords + 1
    BY <1>3
  <2>2. /\ w[k] = IF k <= E THEN Rec(A[k], C[k]) ELSE Final(x, c)
        /\ w[k - 1] = IF k - 1 <= E THEN Rec(A[k - 1], C[k - 1]) ELSE Final(x, c)
    BY <2>1
  <2> HIDE DEF w
  <2>3. CASE k <= E
    <3>1. k \in 1..E /\ k - 1 \in 0..E /\ k - 1 <= E
      BY <1>2, <2>3
    <3>2. Linked(A[k - 1], C[k - 1], A[k], C[k]) /\ A[k - 1] \in Nat
      BY <1>2, <3>1
    <3>3. PlayEntry(Rec(A[k - 1], C[k - 1]), junk) = Rec(A[k], C[k])
      BY <3>2, LinkedPlays
    <3> QED
      BY <2>2, <2>3, <3>1, <3>3
  <2>4. CASE k = E + 1
    <3>1. ~(k <= E) /\ k - 1 <= E /\ k - 1 = E
      BY <1>2, <2>4
    <3>2. PlayEntry(Rec(x, c), junk) = Final(x, c)
      BY PlayEnd
    <3> QED
      BY <1>1, <2>2, <3>1, <3>2
  <2>5. CASE k > E + 1
    <3>1. ~(k <= E) /\ ~(k - 1 <= E)
      BY <1>2, <2>5
    <3>2. PlayEntry(Final(x, c), junk) = Final(x, c)
      BY PlayEnd
    <3> QED
      BY <2>2, <3>1, <3>2
  <2> QED
    BY <1>2, <2>3, <2>4, <2>5
<1>5. w[0] = Rec(1, ReadConsolidated)
  BY <1>2, <1>3
<1>6. w[LogWords + 1] = Final(x, c)
  BY <1>2, <1>3
<1>7. IsPlay(w, junk)
  <2> DEFINE v == [k \in 0..LogWords + 1 |-> IF k = 0 THEN Rec(1, ReadConsolidated)
                                             ELSE PlayEntry(w[k - 1], junk)]
  <2>1. ASSUME NEW k \in 0..LogWords + 1
        PROVE  w[k] = v[k]
    <3>1. v[k] = IF k = 0 THEN Rec(1, ReadConsolidated) ELSE PlayEntry(w[k - 1], junk)
      OBVIOUS
    <3>2. k = 0 \/ k \in 1..LogWords + 1
      BY <1>3
    <3> HIDE DEF w, v
    <3> QED
      BY <1>4, <1>5, <3>1, <3>2
  <2>2. w = v
    <3>1. w = [k \in 0..LogWords + 1 |-> w[k]] /\ v = [k \in 0..LogWords + 1 |-> v[k]]
      OBVIOUS
    <3> HIDE DEF w, v
    <3>2. [k \in 0..LogWords + 1 |-> w[k]] = [k \in 0..LogWords + 1 |-> v[k]]
      BY <2>1
    <3> QED
      BY <3>1, <3>2
  <2> HIDE DEF w
  <2> QED
    BY <2>2 DEF IsPlay
<1> HIDE DEF w
<1> DEFINE g == CHOOSE f : IsPlay(f, junk)
<1>8. IsPlay(g, junk)
  BY <1>7
<1> HIDE DEF g
<1>9. LogWords + 1 \in 0..LogWords + 1
  BY <1>3
<1>10. g[LogWords + 1] = w[LogWords + 1]
  BY <1>3, <1>7, <1>8, <1>9, PlayUnique
<1>11. Playback(junk) = g[LogWords + 1]
  BY PlaybackIs DEF g
<1> QED
  BY <1>6, <1>10, <1>11
\* The store that the firmware was built for does not change.
LEMMA SameBuild ==
    ASSUME build' = build
    PROVE  /\ WriteSize' = WriteSize /\ LogWords' = LogWords /\ Blank' = Blank
           /\ \A a, d : /\ Taken(a, d)' = Taken(a, d)
                        /\ EntryBytes(a, d)' = EntryBytes(a, d)
           /\ \A e : Words(e)' = Words(e)
           /\ \A e, k : Word(e, k)' = Word(e, k)
<1>1. WriteSize' = WriteSize /\ LogWords' = LogWords /\ Blank' = Blank
  BY DEF WriteSize, LogWords, Blank
<1>2. ASSUME NEW a, NEW d
      PROVE  IsWord01(a, d)' = IsWord01(a, d) /\ IsByte(a, d)' = IsByte(a, d)
  BY <1>1 DEF IsWord01, IsByte
<1>3. ASSUME NEW a, NEW d
      PROVE  Taken(a, d)' = Taken(a, d)
  BY <1>2 DEF Taken
<1>4. ASSUME NEW a, NEW d
      PROVE  EntryBytes(a, d)' = EntryBytes(a, d)
  BY <1>2, <1>3 DEF EntryBytes
<1>5. ASSUME NEW e
      PROVE  Words(e)' = Words(e)
  BY <1>1 DEF Words
<1>6. ASSUME NEW e, NEW k
      PROVE  Word(e, k)' = Word(e, k)
  BY <1>1 DEF Word
<1> QED
  BY <1>1, <1>3, <1>4, <1>5, <1>6

\* An entry that is already in the log stays there as long as it is not overwritten.
LEMMA LinkedStable ==
    ASSUME build \in Stores, build' = build, NEW x \in Nat, NEW c, NEW y, NEW k,
           x >= 1, Linked(x, c, y, k), \A j \in 1..y - 1 : log'[j] = log[j]
    PROVE  Linked(x, c, y, k)'
<1>1. PICK a, d : /\ Fits(a, d) /\ Holds(x, a, d)
                  /\ y = x + Words(EntryBytes(a, d))
                  /\ k = Put(c, a, SubSeq(d, 1, Taken(a, d)))
  BY DEF Linked
<1> DEFINE e == EntryBytes(a, d)
<1>2. Words(e) \in Nat /\ LogWords \in Int
  BY <1>1, WordCount, BuildTypes
<1>3. e' = e /\ Words(e)' = Words(e) /\ LogWords' = LogWords /\ Taken(a, d)' = Taken(a, d)
  BY SameBuild
<1>4. x + Words(e) - 1 <= LogWords /\ \A i \in 1..Words(e) : log[x + i - 1] = Word(e, i)
  BY <1>1 DEF Holds
<1>5. y = x + Words(e)
  BY <1>1
<1> HIDE DEF e
<1>6. ASSUME NEW i \in 1..Words(e)
      PROVE  log'[x + i - 1] = Word(e, i)'
  <2>1. x + i - 1 \in 1..y - 1
    BY <1>2, <1>5
  <2>2. Word(e, i)' = Word(e, i)
    BY <1>3, SameBuild DEF Word
  <2> QED
    BY <1>4, <2>1, <2>2
<1>7. Holds(x, a, d)'
  <2>1. x + Words(e)' - 1 <= LogWords'
    BY <1>3, <1>4
  <2>2. \A i \in 1..Words(e)' : log'[x + i - 1] = Word(e, i)'
    BY <1>3, <1>6
  <2> QED
    BY <2>1, <2>2 DEF Holds, e
<1>8. y = x + Words(e)' /\ k = Put(c, a, SubSeq(d, 1, Taken(a, d)'))
  BY <1>1, <1>3, <1>5
<1> QED
  BY <1>1, <1>7, <1>8 DEF Linked, e

LEMMA SameConsolidated ==
    ASSUME data' = data, hash' = hash
    PROVE  ReadConsolidated' = ReadConsolidated
  BY DEF ReadConsolidated

LEMMA ChainStable ==
    ASSUME build \in Stores, UNCHANGED <<build, data, hash>>, NEW A, NEW C, NEW E,
           Chain(A, C, E), \A j \in 1..A[E] - 1 : log'[j] = log[j]
    PROVE  Chain(A, C, E)'
<1>1. /\ E \in Nat /\ A[0] = 1 /\ C[0] = ReadConsolidated
      /\ \A i \in 0..E : A[i] \in Nat /\ i + 1 <= A[i] /\ A[i] <= A[E]
      /\ \A i \in 1..E : Linked(A[i - 1], C[i - 1], A[i], C[i])
  BY DEF Chain
<1>2. C[0] = ReadConsolidated'
  BY <1>1, SameConsolidated
<1>3. ASSUME NEW i \in 1..E
      PROVE  Linked(A[i - 1], C[i - 1], A[i], C[i])'
  <2>1. i \in 0..E /\ i - 1 \in 0..E
    BY <1>1
  <2>2. A[i - 1] \in Nat /\ A[i] \in Nat /\ A[i] <= A[E] /\ A[E] \in Nat
    BY <1>1, <2>1
  <2>3. A[i - 1] >= 1
    BY <1>1, <2>1
  <2>4. \A j \in 1..A[i] - 1 : log'[j] = log[j]
    BY <2>2
  <2>5. Linked(A[i - 1], C[i - 1], A[i], C[i])
    BY <1>1
  <2> QED
    BY <2>2, <2>3, <2>4, <2>5, LinkedStable
<1> QED
  BY <1>1, <1>2, <1>3 DEF Chain

LEMMA TapeStable ==
    ASSUME build \in Stores, UNCHANGED <<build, data, hash>>, NEW x, NEW c, Tape(x, c),
           \A j \in 1..x - 1 : log'[j] = log[j]
    PROVE  Tape(x, c)'
<1>1. PICK A, C, E : Chain(A, C, E) /\ A[E] = x /\ C[E] = c
  BY DEF Tape
<1>2. Chain(A, C, E)'
  BY <1>1, ChainStable
<1> QED
  BY <1>1, <1>2 DEF Tape

LEMMA TapeBounds ==
    ASSUME NEW x, NEW c, Tape(x, c)
    PROVE  x \in Nat /\ x >= 1
<1>1. PICK A, C, E : Chain(A, C, E) /\ A[E] = x /\ C[E] = c
  BY DEF Tape
<1>2. E \in Nat /\ E \in 0..E /\ A[E] \in Nat /\ E + 1 <= A[E]
  BY <1>1 DEF Chain
<1> QED
  BY <1>1, <1>2

\* One more entry at the end.
LEMMA TapeExtend ==
    ASSUME build \in Stores, UNCHANGED <<build, data, hash>>, NEW x, NEW c, Tape(x, c),
           \A j \in 1..x - 1 : log'[j] = log[j],
           NEW y, NEW k, y \in Nat, y >= x + 1, Linked(x, c, y, k)'
    PROVE  Tape(y, k)'
<1>1. PICK A, C, E : Chain(A, C, E) /\ A[E] = x /\ C[E] = c
  BY DEF Tape
<1>2. Chain(A, C, E)'
  BY <1>1, ChainStable
<1>3. /\ E \in Nat /\ A[0] = 1 /\ C[0] = ReadConsolidated'
      /\ \A i \in 0..E : A[i] \in Nat /\ i + 1 <= A[i] /\ A[i] <= A[E]
      /\ \A i \in 1..E : Linked(A[i - 1], C[i - 1], A[i], C[i])'
  BY <1>2 DEF Chain
<1> DEFINE F == E + 1
           B == [i \in 0..F |-> IF i <= E THEN A[i] ELSE y]
           D == [i \in 0..F |-> IF i <= E THEN C[i] ELSE k]
<1>4. F \in Nat /\ B[0] = 1 /\ D[0] = ReadConsolidated' /\ B[F] = y /\ D[F] = k
  BY <1>3
<1>5. x \in Nat /\ E + 1 <= x
  BY <1>1, <1>3
<1>6. ASSUME NEW i \in 0..F
      PROVE  B[i] \in Nat /\ i + 1 <= B[i] /\ B[i] <= B[F]
  <2>1. CASE i <= E
    <3>1. B[i] = A[i] /\ i \in 0..E
      BY <1>3, <2>1
    <3>2. A[i] \in Nat /\ i + 1 <= A[i] /\ A[i] <= x
      BY <1>1, <1>3, <3>1
    <3> HIDE DEF B
    <3> QED
      BY <1>4, <1>5, <3>1, <3>2
  <2>2. CASE ~(i <= E)
    <3>1. i = E + 1 /\ B[i] = y
      BY <1>3, <2>2
    <3> HIDE DEF B
    <3> QED
      BY <1>3, <1>4, <1>5, <3>1
  <2> QED
    BY <2>1, <2>2
<1>7. ASSUME NEW i \in 1..F
      PROVE  Linked(B[i - 1], D[i - 1], B[i], D[i])'
  <2>1. CASE i <= E
    <3>1. i \in 1..E /\ B[i] = A[i] /\ D[i] = C[i] /\ B[i - 1] = A[i - 1] /\ D[i - 1] = C[i - 1]
      BY <1>3, <2>1
    <3>2. Linked(A[i - 1], C[i - 1], A[i], C[i])'
      BY <1>3, <3>1
    <3> HIDE DEF B, D
    <3> QED
      BY <3>1, <3>2
  <2>2. CASE ~(i <= E)
    <3>1. i - 1 = E /\ i = F /\ E \in 0..F
      BY <1>3, <2>2
    <3>2. B[i] = y /\ D[i] = k /\ B[i - 1] = x /\ D[i - 1] = c
      BY <1>1, <1>3, <1>4, <3>1
    <3> HIDE DEF B, D
    <3> QED
      BY <3>2
  <2> QED
    BY <2>1, <2>2
<1> HIDE DEF B, D, F
<1>8. Chain(B, D, F)'
  BY <1>4, <1>6, <1>7 DEF Chain
<1> QED
  BY <1>4, <1>8 DEF Tape

\* A log without entries.
LEMMA TapeEmpty == Tape(1, ReadConsolidated)
<1> DEFINE A == [i \in {0} |-> 1]
           C == [i \in {0} |-> ReadConsolidated]
<1>1. A[0] = 1 /\ C[0] = ReadConsolidated
  OBVIOUS
<1> HIDE DEF A, C
<1>2. /\ 0 \in Nat
      /\ \A i \in 0..0 : A[i] \in Nat /\ i + 1 <= A[i] /\ A[i] <= A[0]
      /\ \A i \in 1..0 : Linked(A[i - 1], C[i - 1], A[i], C[i])
  BY <1>1
<1>3. Chain(A, C, 0)
  BY <1>1, <1>2 DEF Chain
<1> QED
  BY <1>1, <1>3 DEF Tape
LEMMA TapeEmptyNext ==
    ASSUME NEW r, r = ReadConsolidated'
    PROVE  Tape(1, r)'
<1> DEFINE A == [i \in {0} |-> 1]
           C == [i \in {0} |-> r]
<1>1. A[0] = 1 /\ C[0] = r
  OBVIOUS
<1> HIDE DEF A, C
<1>2. /\ 0 \in Nat
      /\ \A i \in 0..0 : A[i] \in Nat /\ i + 1 <= A[i] /\ A[i] <= A[0]
      /\ \A i \in 1..0 : Linked(A[i - 1], C[i - 1], A[i], C[i])'
  BY <1>1
<1>3. Chain(A, C, 0)'
  BY <1>1, <1>2 DEF Chain
<1> QED
  BY <1>1, <1>3 DEF Tape
-----------------------------------------------------------------------------
(* Blocks and pages. *)

\* An array of bytes.
Array(c) == c = [b \in Addr |-> c[b]]

LEMMA PutAt ==
    ASSUME NEW c, NEW a, NEW d
    PROVE  /\ Array(Put(c, a, d))
           /\ \A b \in Addr : Put(c, a, d)[b] = IF b \in a..a + Len(d) - 1 THEN d[b - a + 1] ELSE c[b]
  BY DEF Put, Array

LEMMA RestOfBlock ==
    ASSUME NEW d, d \in Seq(0..255), NEW n \in Nat, n <= Len(d)
    PROVE  /\ SubSeq(d, n + 1, Len(d)) \in Seq(0..255)
           /\ Len(SubSeq(d, n + 1, Len(d))) = Len(d) - n
           /\ \A i \in 1..Len(d) - n : SubSeq(d, n + 1, Len(d))[i] = d[n + i]
<1>1. PICK m \in Nat : m = n + 1
  OBVIOUS
<1>2. PICK L \in Nat : L = Len(d)
  OBVIOUS
<1>3. 1 <= m /\ m <= L + 1 /\ L <= Len(d)
  BY <1>1, <1>2
<1>a. L - m + 1 = L - n /\ \A i \in 1..L - n : m + i - 1 = n + i
  BY <1>1, <1>2
<1>4. PICK u : u = SubSeq(d, m, L)
  OBVIOUS
<1>5. u \in Seq(0..255) /\ Len(u) = L - m + 1 /\ \A i \in 1..L - m + 1 : u[i] = d[m + i - 1]
  <2>1. SubSeq(d, m, L) \in Seq(0..255) /\ Len(SubSeq(d, m, L)) = L - m + 1
    BY <1>3, PartOfBlock
  <2>2. \A i \in 1..L - m + 1 : SubSeq(d, m, L)[i] = d[m + i - 1]
    BY <1>3, PartOfBlock
  <2> QED
    BY <1>4, <2>1, <2>2
<1>6. u \in Seq(0..255) /\ Len(u) = L - n /\ \A i \in 1..L - n : u[i] = d[n + i]
  BY <1>a, <1>5
<1> QED
  BY <1>1, <1>2, <1>4, <1>6

\* A block is written by writing its first bytes and then the others.
LEMMA PutSplit ==
    ASSUME NEW c, NEW a, NEW d, Fits(a, d), NEW n \in Nat, n >= 1, n < Len(d)
    PROVE  /\ Fits(a + n, SubSeq(d, n + 1, Len(d)))
           /\ SubSeq(d, n + 1, Len(d)) # <<>>
           /\ Len(SubSeq(d, n + 1, Len(d))) <= Len(d)
           /\ Put(Put(c, a, SubSeq(d, 1, n)), a + n, SubSeq(d, n + 1, Len(d))) = Put(c, a, d)
<1> DEFINE L == Len(d)
           s == SubSeq(d, 1, n)
           t == SubSeq(d, n + 1, L)
<1>1. /\ a \in Nat /\ d \in Seq(0..255) /\ L \in Nat /\ L >= 1 /\ a + L <= LogicalSize
      /\ LogicalSize \in Nat
  BY WearLevelingAssumption DEF Fits
<1>a. n <= Len(d)
  BY <1>1
<1>2. s \in Seq(0..255) /\ Len(s) = n /\ \A i \in 1..n : s[i] = d[i]
  <2> HIDE DEF L
  <2> QED
    BY <1>1, <1>a, FirstOfBlock
<1>3. t \in Seq(0..255) /\ Len(t) = L - n /\ \A i \in 1..L - n : t[i] = d[n + i]
  BY <1>1, <1>a, RestOfBlock
<1> HIDE DEF s, t, L
<1>4. n < L
  BY DEF L
<1>5. Fits(a + n, t) /\ t # <<>> /\ Len(t) <= L
  <2>1. t # <<>>
    BY <1>1, <1>3, <1>4
  <2> QED
    BY <1>1, <1>3, <1>4, <2>1 DEF Fits
<1>6. ASSUME NEW b \in Addr
      PROVE  Put(Put(c, a, s), a + n, t)[b] = Put(c, a, d)[b]
  <2>1. b \in Int
    BY DEF Addr
  <2>2. Put(Put(c, a, s), a + n, t)[b]
          = IF b \in a + n..a + n + (L - n) - 1 THEN t[b - (a + n) + 1] ELSE Put(c, a, s)[b]
    BY <1>3, PutAt
  <2>3. Put(c, a, s)[b] = IF b \in a..a + n - 1 THEN s[b - a + 1] ELSE c[b]
    BY <1>2, PutAt
  <2>4. Put(c, a, d)[b] = IF b \in a..a + L - 1 THEN d[b - a + 1] ELSE c[b]
    BY PutAt DEF L
  <2>5. CASE b \in a..a + n - 1
    <3>1. /\ b - a + 1 \in 1..n /\ ~(b \in a + n..a + n + (L - n) - 1)
          /\ b \in a..a + L - 1
      BY <1>1, <1>4, <2>1, <2>5
    <3> QED
      BY <1>2, <2>2, <2>3, <2>4, <2>5, <3>1
  <2>6. CASE b \in a + n..a + L - 1
    <3>1. /\ b \in a + n..a + n + (L - n) - 1 /\ b \in a..a + L - 1
          /\ b - (a + n) + 1 \in 1..L - n /\ n + (b - (a + n) + 1) = b - a + 1
      BY <1>1, <1>4, <2>1, <2>6
    <3>2. t[b - (a + n) + 1] = d[b - a + 1]
      BY <1>3, <3>1
    <3> QED
      BY <2>2, <2>4, <3>1, <3>2
  <2>7. CASE ~(b \in a..a + L - 1)
    <3>1. ~(b \in a + n..a + n + (L - n) - 1) /\ ~(b \in a..a + n - 1)
      BY <1>1, <1>4, <2>1, <2>7
    <3> QED
      BY <2>2, <2>3, <2>4, <2>7, <3>1
  <2> QED
    BY <1>1, <1>4, <2>1, <2>5, <2>6, <2>7
<1>7. Put(Put(c, a, s), a + n, t) = Put(c, a, d)
  <2> DEFINE f == Put(Put(c, a, s), a + n, t)
             g == Put(c, a, d)
  <2>1. Array(f) /\ Array(g)
    BY PutAt
  <2>2. \A b \in Addr : f[b] = g[b]
    BY <1>6
  <2> HIDE DEF f, g
  <2>3. f = g
    BY <2>1, <2>2 DEF Array
  <2> QED
    BY <2>3 DEF f, g
<1> QED
  BY <1>5, <1>7 DEF s, t, L

LEMMA PutWhole ==
    ASSUME NEW a, NEW d, Fits(a, d)
    PROVE  SubSeq(d, 1, Len(d)) = d
<1>1. d \in Seq(0..255)
  BY DEF Fits
<1> QED
  BY <1>1, SubSeqFull

\* There is room in the log.
Roomy(b) == b.BackingSize >= LogicalSize + 8 + b.WriteSize

LEMMA HasRoom ==
    ASSUME build \in Stores, Roomy(build)
    PROVE  LogWords \in Nat /\ LogWords >= 1
<1>1. build \in Build
  BY WearLevelingAssumption
<1>2. build.WriteSize \in {2, 4, 8} /\ build.BackingSize \in Nat /\ LogicalSize \in Nat
  BY <1>1, WearLevelingAssumption DEF Build
<1> DEFINE r == build.BackingSize - LogicalSize - 8
           W == build.WriteSize
<1>3. r \in Int /\ r >= W /\ W \in {2, 4, 8}
  BY <1>2 DEF Roomy
<1>4. LogWords = r \div W
  BY DEF LogWords, WriteSize
<1> HIDE DEF r, W
<1>5. CASE W = 2
  BY <1>3, <1>4, <1>5
<1>6. CASE W = 4
  BY <1>3, <1>4, <1>6
<1>7. CASE W = 8
  BY <1>3, <1>4, <1>7
<1> QED
  BY <1>3, <1>5, <1>6, <1>7

\* Every word of the log is on one of the pages.
LEMMA PageBounds ==
    ASSUME build \in Stores, NEW k, k \in 1..LogWords
    PROVE  PageOfLog(k) \in 1..build.Pages
<1> DEFINE P == build.Pages
           L == LogWords
           u == (k - 1) * P
           q == u \div L
<1>1. P \in Nat /\ P >= 1 /\ L \in Int
  BY BuildTypes
<1> HIDE DEF P, L
<1>2. L \in Nat /\ L > 0 /\ k \in Int /\ k >= 1 /\ k <= L
  BY <1>1 DEF L
<1>3. u \in Nat
  BY <1>1, <1>2
<1>4. u < L * P
  <2>1. u = k * P - P
    BY <1>1, <1>2
  <2>2. PICK v \in Nat : L = k + v
    <3>1. L - k \in Nat /\ L = k + (L - k)
      BY <1>2
    <3> QED
      BY <3>1
  <2>3. L * P = k * P + v * P /\ v * P \in Nat /\ k * P \in Int
    BY <1>1, <1>2, <2>2
  <2> HIDE DEF u
  <2> QED
    BY <1>1, <2>1, <2>3
<1> HIDE DEF u
<1>5. q \in Nat /\ u % L \in Nat /\ u = q * L + (u % L)
  BY <1>2, <1>3, DivMod
<1>6. q * L < P * L
  <2>1. q * L \in Int /\ P * L = L * P
    BY <1>1, <1>2, <1>5
  <2> QED
    BY <1>1, <1>2, <1>3, <1>4, <1>5, <2>1
<1>7. q < P
  BY <1>1, <1>2, <1>5, <1>6, DivLess
<1>8. PageOfLog(k) = 1 + q
  BY DEF PageOfLog, q, u, L, P
<1> QED
  BY <1>1, <1>5, <1>7, <1>8 DEF P
-----------------------------------------------------------------------------
(***************************************************************************)
(* The invariant.  Roomy and Guarded are hypotheses on the store: power is *)
(* not lost where a store of this kind cannot stand it, which is inside an *)
(* entry of several words, between two pages of an erase, and before an    *)
(* erase that the next start could not repeat.                             *)
(***************************************************************************)
Guarded(b) ==
    /\ b.WriteSize # 8 => b.CutDuring \cap {"log", "erase"} = {}
    /\ b.Pages # 1 => b.CutDuring \cap {"erase", "wipe"} = {}
    /\ ~b.LockedErase => "erase" \notin b.CutDuring

\* Every block is one entry of one word.
Short == build.WriteSize = 8 /\ \A d \in build.Blocks : Len(d) <= 5

Shape ==
    /\ build \in Stores /\ Roomy(build) /\ Guarded(build)
    /\ log = [k \in 1..LogWords |-> log[k]]
    /\ Array(cache) /\ Array(left) /\ Array(data)

\* The log has entries up to x, which make the cache c, and room for more.
Stands(x, c) == x \in Nat /\ x <= LogWords /\ Tape(x, c) /\ BlankFrom(x)

\* While power is off, the log is whole.  It may be full, if a start can erase it.
OffInv ==
    pc = "off" =>
        \E x, c : /\ left = c /\ x \in Nat /\ x <= LogWords + 1
                  /\ Tape(x, c) /\ BlankFrom(x)
                  /\ x > LogWords => build.LockedErase

IdleInv == pc = "idle" => \E x, c : write_address = x /\ cache = c /\ Stands(x, c)

\* The log has entries up to x, which make c, and n words of the next entry; the rest
\* of the block makes k.
Writing(x, c, k, a, d, n) ==
    /\ Tape(x, c) /\ Array(c) /\ Fits(a, d) /\ Put(c, a, d) = k
    /\ n \in Nat /\ n < Words(EntryBytes(a, d)) /\ x + n <= LogWords
    /\ BlankFrom(x + n)
    /\ \A i \in 1..n : log[x + i - 1] = Word(EntryBytes(a, d), i)

\* The block that is being written.
Block(u, o, k) ==
    \E d \in build.Blocks : \E a \in 0..LogicalSize - Len(d) :
        u = a..a + Len(d) - 1 /\ Array(o) /\ k = Put(o, a, d)

LogInv ==
    pc = "log" =>
        /\ unlocked = TRUE
        /\ job = [addr |-> job.addr, bytes |-> job.bytes, part |-> job.part,
                  unit |-> job.unit, old |-> job.old]
        /\ \E u, o, k : job.unit = u /\ job.old = o /\ cache = k /\ Block(u, o, k)
        /\ \E x, c, k, a, d, n :
               /\ cache = k /\ job.addr = a /\ job.bytes = d /\ job.part = n
               /\ write_address = x + n
               /\ Writing(x, c, k, a, d, n)
               /\ Short => Len(d) <= 5 /\ c = job.old

EraseInv ==
    pc \in {"erase", "wipe"} =>
        /\ unlocked = TRUE \/ build.LockedErase = TRUE
        /\ step \in 1..build.Pages
        /\ step > 1 => data = Erased /\ hash = NoHash
        /\ \A k \in 1..LogWords : PageOfLog(k) < step => log[k] = Blank
        /\ pc = "erase" /\ "erase" \in build.CutDuring =>
               \E x, c : x = LogWords + 1 /\ Tape(x, c) /\ Array(c) /\ (Short => c = cache)
        /\ pc = "wipe" /\ "wipe" \in build.CutDuring =>
               \E x, c : write_address = x /\ cache = c /\ Stands(x, c)

DataInv ==
    pc = "data" =>
        /\ hash = NoHash /\ BlankFrom(1) /\ step \in Addr
        /\ \A b \in Addr : data[b] = IF b < step THEN cache[b] ELSE 0

HashInv == pc = "hash" => hash = NoHash /\ BlankFrom(1) /\ data = cache

Inv == Shape /\ OffInv /\ IdleInv /\ LogInv /\ EraseInv /\ DataInv /\ HashInv

LEMMA OnlyOff == ASSUME pc' = "off" PROVE IdleInv' /\ LogInv' /\ EraseInv' /\ DataInv' /\ HashInv'
  BY DEF IdleInv, LogInv, EraseInv, DataInv, HashInv

LEMMA OnlyIdle == ASSUME pc' = "idle" PROVE OffInv' /\ LogInv' /\ EraseInv' /\ DataInv' /\ HashInv'
  BY DEF OffInv, LogInv, EraseInv, DataInv, HashInv

LEMMA OnlyLog == ASSUME pc' = "log" PROVE OffInv' /\ IdleInv' /\ EraseInv' /\ DataInv' /\ HashInv'
  BY DEF OffInv, IdleInv, EraseInv, DataInv, HashInv

LEMMA OnlyErase ==
    ASSUME pc' \in {"erase", "wipe"}
    PROVE  OffInv' /\ IdleInv' /\ LogInv' /\ DataInv' /\ HashInv'
  BY DEF OffInv, IdleInv, LogInv, DataInv, HashInv

LEMMA OnlyData == ASSUME pc' = "data" PROVE OffInv' /\ IdleInv' /\ LogInv' /\ EraseInv' /\ HashInv'
  BY DEF OffInv, IdleInv, LogInv, EraseInv, HashInv

LEMMA OnlyHash == ASSUME pc' = "hash" PROVE OffInv' /\ IdleInv' /\ LogInv' /\ EraseInv' /\ DataInv'
  BY DEF OffInv, IdleInv, LogInv, EraseInv, DataInv

LEMMA ShapeFacts ==
    ASSUME Shape
    PROVE  /\ build \in Stores /\ LogWords \in Nat /\ LogWords >= 1
           /\ build.CutDuring \subseteq {"idle", "log", "erase", "wipe", "data", "hash"}
           /\ WriteSize \in {2, 4, 8} /\ build.Pages \in Nat /\ build.Pages >= 1
           /\ build.LockedErase \in BOOLEAN
<1>1. build \in Stores /\ Roomy(build)
  BY DEF Shape
<1>2. build.CutDuring \subseteq {"idle", "log", "erase", "wipe", "data", "hash"}
  <2>1. build \in Build
    BY <1>1, WearLevelingAssumption
  <2> QED
    BY <2>1 DEF Build
<1> QED
  BY <1>1, <1>2, HasRoom, BuildTypes

LEMMA BlankSame ==
    ASSUME build' = build, NEW x, BlankFrom(x), \A k \in x..LogWords : log'[k] = log[k]
    PROVE  BlankFrom(x)'
<1>1. LogWords' = LogWords /\ Blank' = Blank
  BY SameBuild
<1>2. \A k \in x..LogWords' : log'[k] = Blank'
  BY <1>1 DEF BlankFrom
<1> QED
  BY <1>2 DEF BlankFrom

LEMMA StandsSame ==
    ASSUME build \in Stores, UNCHANGED <<build, data, hash, log>>, NEW x, NEW c, Stands(x, c)
    PROVE  Stands(x, c)'
<1>1. Tape(x, c)'
  BY TapeStable DEF Stands
<1>2. BlankFrom(x)'
  BY BlankSame DEF Stands
<1>3. LogWords' = LogWords
  BY SameBuild
<1> QED
  BY <1>1, <1>2, <1>3 DEF Stands

LEMMA NoHashData ==
    ASSUME Array(data), hash = NoHash
    PROVE  ReadConsolidated = Erased
<1>1. 0 \in Addr
  BY WearLevelingAssumption DEF Addr
<1>2. DOMAIN data = Addr
  BY DEF Array
<1>3. DOMAIN NoHash = {}
  BY DEF NoHash
<1>4. hash # data
  BY <1>1, <1>2, <1>3
<1> QED
  BY <1>4 DEF ReadConsolidated
-----------------------------------------------------------------------------
(* Every operation keeps the invariant. *)

LEMMA ShapeKept ==
    ASSUME Shape, build' = build, log' = [k \in 1..LogWords |-> log'[k]],
           Array(cache'), Array(left'), Array(data')
    PROVE  Shape'
<1>1. LogWords' = LogWords
  BY SameBuild
<1>2. log' = [k \in 1..LogWords' |-> log'[k]]
  BY <1>1
<1>3. build' \in Stores /\ Roomy(build') /\ Guarded(build')
  BY DEF Shape
<1> QED
  BY <1>2, <1>3 DEF Shape, Array, Roomy, Guarded

LEMMA ErasedArray == Array(Erased) /\ \A b \in Addr : Erased[b] = 0
  BY DEF Array, Erased

LEMMA InvInit ==
    ASSUME Init, \A b \in Stores : Roomy(b) /\ Guarded(b)
    PROVE  Inv
<1>1. /\ build \in Stores /\ pc = "off" /\ data = Erased /\ hash = NoHash
      /\ log = [k \in 1..LogWords |-> Blank] /\ cache = Erased /\ left = Erased
  BY DEF Init
<1>2. Array(data) /\ Array(cache) /\ Array(left)
  BY <1>1, ErasedArray
<1>3. LogWords \in Nat /\ LogWords >= 1
  BY <1>1, HasRoom
<1>4. Shape
  BY <1>1, <1>2 DEF Shape
<1>5. Tape(1, left)
  <2>1. ReadConsolidated = left
    BY <1>1, <1>2, NoHashData
  <2> QED
    BY <2>1, TapeEmpty
<1>6. BlankFrom(1)
  BY <1>1 DEF BlankFrom
<1>7. OffInv
  <2>1. 1 \in Nat /\ 1 <= LogWords + 1 /\ ~(1 > LogWords)
    BY <1>3
  <2>2. PICK x, c : x = 1 /\ c = left
    OBVIOUS
  <2> QED
    BY <1>5, <1>6, <2>1, <2>2 DEF OffInv
<1> QED
  BY <1>1, <1>4, <1>7 DEF Inv, IdleInv, LogInv, EraseInv, DataInv, HashInv

LEMMA StepInit ==
    ASSUME Inv, NEW junk, wear_leveling_init(junk)
    PROVE  Inv'
<1>1. /\ pc = "off" /\ cache' = Playback(junk).cache /\ write_address' = Playback(junk).at
      /\ left' = Erased /\ UNCHANGED <<build, data, hash, log, unlocked, job, writes>>
      /\ IF Playback(junk).failed \/ Playback(junk).at > LogWords
         THEN pc' = "erase" /\ step' = 1 /\ starting' = TRUE
         ELSE pc' = "idle" /\ UNCHANGED <<step, starting>>
  BY DEF wear_leveling_init, store
<1>2. Shape /\ LogWords \in Nat /\ build \in Stores /\ build.Pages \in Nat /\ build.Pages >= 1
  BY ShapeFacts DEF Inv
<1>3. PICK x, c : /\ left = c /\ x \in Nat /\ x <= LogWords + 1
                  /\ Tape(x, c) /\ BlankFrom(x)
                  /\ x > LogWords => build.LockedErase
  BY <1>1 DEF Inv, OffInv
<1>4. Playback(junk) = Final(x, c)
  BY <1>2, <1>3, TapePlays
<1>5. Final(x, c).at = x /\ Final(x, c).cache = c /\ ~Final(x, c).failed
  BY DEF Final, Rec
<1>6. cache' = c /\ write_address' = x
  BY <1>1, <1>4, <1>5
<1>7. Array(c) /\ log = [k \in 1..LogWords |-> log[k]] /\ Array(data)
  BY <1>2, <1>3 DEF Shape
<1>8. Shape'
  <2>1. Array(cache') /\ Array(left') /\ Array(data') /\ build' = build
        /\ log' = [k \in 1..LogWords |-> log'[k]]
    BY <1>1, <1>6, <1>7, ErasedArray
  <2> QED
    BY <1>2, <2>1, ShapeKept
<1>9. Tape(x, c)' /\ BlankFrom(x)' /\ LogWords' = LogWords
  <2>1. \A j \in 1..x - 1 : log'[j] = log[j]
    BY <1>1
  <2>2. \A j \in x..LogWords : log'[j] = log[j]
    BY <1>1
  <2> QED
    BY <1>1, <1>2, <1>3, <2>1, <2>2, TapeStable, BlankSame, SameBuild
<1>10. CASE x <= LogWords
  <2>1. pc' = "idle"
    <3>1. ~(Playback(junk).failed \/ Playback(junk).at > LogWords)
      BY <1>2, <1>3, <1>4, <1>5, <1>10
    <3> QED
      BY <1>1, <3>1
  <2>2. Stands(x, c)'
    BY <1>3, <1>9, <1>10 DEF Stands
  <2>3. IdleInv'
    BY <1>6, <2>2 DEF IdleInv
  <2> QED
    BY <1>8, <2>1, <2>3, OnlyIdle DEF Inv
<1>11. CASE x > LogWords
  <2>1. pc' = "erase" /\ step' = 1
    <3>1. Playback(junk).at > LogWords
      BY <1>4, <1>5, <1>11
    <3> QED
      BY <1>1, <3>1
  <2>2. build'.LockedErase = TRUE
    BY <1>1, <1>2, <1>3, <1>11, ShapeFacts
  <2>3. step' \in 1..build'.Pages /\ ~(step' > 1)
    BY <1>1, <1>2, <2>1
  <2>4. ASSUME NEW k \in 1..LogWords'
        PROVE  ~(PageOfLog(k)' < step')
    <3>1. PageOfLog(k) \in 1..build.Pages
      BY <1>2, <1>9, PageBounds
    <3>2. PageOfLog(k)' = PageOfLog(k)
      BY <1>1, <1>9 DEF PageOfLog
    <3> QED
      BY <1>2, <2>1, <3>1, <3>2
  <2>5. x = LogWords' + 1
    BY <1>2, <1>3, <1>9, <1>11
  <2>6. EraseInv'
    BY <1>6, <1>7, <1>9, <2>1, <2>2, <2>3, <2>4, <2>5 DEF EraseInv
  <2> QED
    BY <1>8, <2>1, <2>6, OnlyErase DEF Inv
<1> QED
  BY <1>2, <1>3, <1>10, <1>11

LEMMA StepEraseCall ==
    ASSUME Inv, wear_leveling_erase
    PROVE  Inv'
<1>1. /\ pc = "idle" /\ pc' = "wipe" /\ step' = 1 /\ unlocked' = TRUE
      /\ UNCHANGED <<build, data, hash, log, cache, write_address, job, starting, left>>
  BY DEF wear_leveling_erase, store
<1>2. Shape /\ LogWords \in Nat /\ build \in Stores /\ build.Pages \in Nat /\ build.Pages >= 1
  BY ShapeFacts DEF Inv
<1>3. PICK x, c : write_address = x /\ cache = c /\ Stands(x, c)
  BY <1>1 DEF Inv, IdleInv
<1>4. Stands(x, c)'
  BY <1>1, <1>2, <1>3, StandsSame
<1>5. Shape'
  <2>1. Array(cache') /\ Array(left') /\ Array(data') /\ build' = build
        /\ log' = [k \in 1..LogWords |-> log'[k]]
    BY <1>1, <1>2 DEF Shape
  <2> QED
    BY <1>2, <2>1, ShapeKept
<1>6. step' \in 1..build'.Pages /\ ~(step' > 1)
  BY <1>1, <1>2
<1>7. ASSUME NEW k \in 1..LogWords'
      PROVE  ~(PageOfLog(k)' < step')
  <2>1. LogWords' = LogWords
    BY <1>1, SameBuild
  <2>2. PageOfLog(k) \in 1..build.Pages
    BY <1>2, <2>1, PageBounds
  <2>3. PageOfLog(k)' = PageOfLog(k)
    BY <1>1, <2>1 DEF PageOfLog
  <2> QED
    BY <1>1, <1>2, <2>2, <2>3
<1>8. EraseInv'
  BY <1>1, <1>3, <1>4, <1>6, <1>7 DEF EraseInv
<1> QED
  BY <1>1, <1>5, <1>8, OnlyErase DEF Inv

LEMMA StepWrite ==
    ASSUME Inv, NEW d \in build.Blocks, NEW a \in 0..LogicalSize - Len(d), wear_leveling_write(a, d)
    PROVE  Inv'
<1>1. /\ pc = "idle" /\ cache' = Put(cache, a, d)
      /\ UNCHANGED <<build, data, hash, log, write_address, left>>
      /\ IF cache' = cache
         THEN UNCHANGED <<pc, job, unlocked>>
         ELSE /\ pc' = "log" /\ unlocked' = TRUE
              /\ job' = [addr |-> a, bytes |-> d, part |-> 0,
                         unit |-> a..a + Len(d) - 1, old |-> cache]
  BY DEF wear_leveling_write, store
<1>2. Shape /\ LogWords \in Nat /\ build \in Stores
  BY ShapeFacts DEF Inv
<1>3. PICK x, c : write_address = x /\ cache = c /\ Stands(x, c)
  BY <1>1 DEF Inv, IdleInv
<1>4. Stands(x, c)'
  BY <1>1, <1>2, <1>3, StandsSame
<1>5. Array(cache) /\ Array(cache')
  BY <1>1, <1>2, PutAt DEF Shape
<1>6. Shape'
  <2>1. Array(cache') /\ Array(left') /\ Array(data') /\ build' = build
        /\ log' = [k \in 1..LogWords |-> log'[k]]
    BY <1>1, <1>2, <1>5 DEF Shape
  <2> QED
    BY <1>2, <2>1, ShapeKept
<1>7. CASE cache' = cache
  <2>1. pc' = "idle"
    BY <1>1, <1>7
  <2>2. IdleInv'
    BY <1>1, <1>3, <1>4, <1>7 DEF IdleInv
  <2> QED
    BY <1>6, <2>1, <2>2, OnlyIdle DEF Inv
<1>8. CASE cache' # cache
  <2>1. /\ pc' = "log" /\ unlocked' = TRUE
        /\ job' = [addr |-> a, bytes |-> d, part |-> 0,
                   unit |-> a..a + Len(d) - 1, old |-> cache]
    BY <1>1, <1>8
  <2>2. Fits(a, d)
    <3>1. d \in Seq(0..255) /\ Len(d) >= 1 /\ Len(d) <= LogicalSize
      BY <1>2, BuildTypes
    <3>2. Len(d) \in Nat /\ LogicalSize \in Nat
      BY <3>1, WearLevelingAssumption
    <3> QED
      BY <3>1, <3>2 DEF Fits
  <2>3. job'.addr = a /\ job'.bytes = d /\ job'.part = 0 /\ job'.old = c
        /\ job'.unit = a..a + Len(d) - 1
        /\ job' = [addr |-> job'.addr, bytes |-> job'.bytes, part |-> job'.part,
                   unit |-> job'.unit, old |-> job'.old]
    BY <1>3, <2>1
  <2>4. PICK k : k = cache'
    OBVIOUS
  <2>5. k = Put(c, a, d) /\ Array(c)
    BY <1>1, <1>3, <1>5, <2>4
  <2>6. Writing(x, c, k, a, d, 0)'
    <3>1. Words(EntryBytes(a, d)) \in Nat /\ Words(EntryBytes(a, d)) >= 1
      BY <1>2, <2>2, WordCount
    <3>2. Words(EntryBytes(a, d))' = Words(EntryBytes(a, d))
      <4>1. EntryBytes(a, d)' = EntryBytes(a, d)
        BY <1>1, SameBuild
      <4>2. WriteSize' = WriteSize
        BY <1>1, SameBuild
      <4> QED
        BY <4>1, <4>2 DEF Words
    <3>3. Tape(x, c)' /\ BlankFrom(x)' /\ x \in Nat /\ x <= LogWords'
      BY <1>4 DEF Stands
    <3>4. x + 0 = x
      BY <3>3
    <3>5. BlankFrom(x + 0)'
      BY <3>3, <3>4
    <3> QED
      BY <2>2, <2>5, <3>1, <3>2, <3>3, <3>4, <3>5 DEF Writing
  <2>7. write_address' = x + 0
    <3>1. x \in Nat
      BY <1>3 DEF Stands
    <3> QED
      BY <1>1, <1>3, <3>1
  <2>8. PICK u, o : u = a..a + Len(d) - 1 /\ o = c
    OBVIOUS
  <2>9. Block(u, o, k)'
    <3>1. d \in build'.Blocks /\ a \in 0..LogicalSize - Len(d)
      BY <1>1
    <3> QED
      BY <2>5, <2>8, <3>1 DEF Block
  <2>10. Short' => Len(d) <= 5 /\ c = job'.old
    BY <1>1, <2>3 DEF Short
  <2>11. LogInv'
    BY <2>1, <2>3, <2>4, <2>6, <2>7, <2>8, <2>9, <2>10 DEF LogInv
  <2> QED
    BY <1>6, <2>1, <2>11, OnlyLog DEF Inv
<1> QED
  BY <1>7, <1>8
\* What appending a word does to the log.
LEMMA Appended ==
    ASSUME Shape, UNCHANGED <<build, data, hash>>, NEW x, NEW c, NEW k, NEW a, NEW d, NEW n,
           Writing(x, c, k, a, d, n),
           log' = [log EXCEPT ![x + n] = Word(EntryBytes(a, d), n + 1)]
    PROVE  /\ x \in Nat /\ x >= 1 /\ Words(EntryBytes(a, d)) \in Nat
           /\ log' = [j \in 1..LogWords |-> log'[j]]
           /\ Tape(x, c)' /\ BlankFrom(x + n + 1)'
           /\ \A i \in 1..n + 1 : log'[x + i - 1] = Word(EntryBytes(a, d), i)
           /\ n + 1 = Words(EntryBytes(a, d)) =>
                \E y, h : /\ y = x + n + 1 /\ h = Put(c, a, SubSeq(d, 1, Taken(a, d)))
                          /\ Tape(y, h)'
<1> DEFINE e == EntryBytes(a, d)
<1>1. /\ Tape(x, c) /\ Fits(a, d) /\ n \in Nat /\ n < Words(e) /\ x + n <= LogWords
      /\ BlankFrom(x + n) /\ \A i \in 1..n : log[x + i - 1] = Word(e, i)
  BY DEF Writing
<1>2. x \in Nat /\ x >= 1 /\ LogWords \in Nat /\ build \in Stores
  BY <1>1, TapeBounds, ShapeFacts
<1>3. Words(e) \in Nat
  BY <1>1, <1>2, WordCount
<1>4. LogWords' = LogWords /\ Blank' = Blank /\ e' = e /\ Taken(a, d)' = Taken(a, d)
      /\ WriteSize' = WriteSize
  BY SameBuild
<1> HIDE DEF e
<1>5. log = [j \in 1..LogWords |-> log[j]] /\ x + n \in 1..LogWords
  BY <1>1, <1>2 DEF Shape
<1>6. log' = [log EXCEPT ![x + n] = Word(e, n + 1)]
  BY DEF e
<1>7. /\ log' = [j \in 1..LogWords |-> log'[j]]
      /\ log'[x + n] = Word(e, n + 1)
      /\ \A j \in 1..LogWords : j # x + n => log'[j] = log[j]
  <2>1. DOMAIN log = 1..LogWords
    BY <1>5
  <2> QED
    BY <1>5, <1>6, <2>1
<1>8. \A j \in 1..x - 1 : log'[j] = log[j]
  <2>1. ASSUME NEW j \in 1..x - 1
        PROVE  j \in 1..LogWords /\ j # x + n
    BY <1>1, <1>2
  <2> QED
    BY <1>7, <2>1
<1>9. Tape(x, c)'
  BY <1>1, <1>2, <1>8, TapeStable
<1>10. BlankFrom(x + n + 1)'
  <2>1. ASSUME NEW j \in x + n + 1..LogWords
        PROVE  log'[j] = Blank
    <3>1. j \in 1..LogWords /\ j # x + n /\ j \in x + n..LogWords
      BY <1>1, <1>2
    <3>2. log[j] = Blank
      BY <1>1, <3>1 DEF BlankFrom
    <3> QED
      BY <1>7, <3>1, <3>2
  <2>2. \A j \in x + n + 1..LogWords' : log'[j] = Blank'
    BY <1>4, <2>1
  <2> QED
    BY <2>2 DEF BlankFrom
<1>11. ASSUME NEW i \in 1..n + 1
       PROVE  log'[x + i - 1] = Word(e, i)
  <2>1. CASE i = n + 1
    <3>1. x + i - 1 = x + n
      BY <1>1, <1>2, <2>1
    <3> QED
      BY <1>7, <2>1, <3>1
  <2>2. CASE i # n + 1
    <3>1. i \in 1..n /\ x + i - 1 \in 1..LogWords /\ x + i - 1 # x + n
      BY <1>1, <1>2, <2>2
    <3> QED
      BY <1>1, <1>7, <3>1
  <2> QED
    BY <2>1, <2>2
<1>12. ASSUME n + 1 = Words(e)
       PROVE  \E y, h : /\ y = x + n + 1 /\ h = Put(c, a, SubSeq(d, 1, Taken(a, d)))
                        /\ Tape(y, h)'
  <2>1. PICK y, h : y = x + n + 1 /\ h = Put(c, a, SubSeq(d, 1, Taken(a, d)))
    OBVIOUS
  <2>2. Words(e)' = Words(e)
    BY <1>4 DEF Words
  <2>3. Holds(x, a, d)'
    <3>1. x + Words(e)' - 1 <= LogWords'
      BY <1>1, <1>2, <1>4, <1>12, <2>2
    <3>2. ASSUME NEW i \in 1..Words(e)'
          PROVE  log'[x + i - 1] = Word(e, i)'
      <4>1. Word(e, i)' = Word(e, i)
        BY <1>4 DEF Word
      <4>2. i \in 1..n + 1
        BY <1>12, <2>2
      <4> QED
        BY <1>11, <4>1, <4>2
    <3> QED
      BY <3>1, <3>2 DEF Holds, e
  <2>4. y = x + Words(e)' /\ h = Put(c, a, SubSeq(d, 1, Taken(a, d)'))
    BY <1>1, <1>2, <1>4, <1>12, <2>1, <2>2
  <2>5. Linked(x, c, y, h)'
    BY <1>1, <2>3, <2>4 DEF Linked, e
  <2>6. y \in Nat /\ y >= x + 1
    BY <1>1, <1>2, <2>1
  <2>7. Tape(y, h)'
    BY <1>1, <1>2, <1>8, <2>5, <2>6, TapeExtend
  <2> QED
    BY <2>1, <2>7
<1> QED
  BY <1>2, <1>3, <1>7, <1>9, <1>10, <1>11, <1>12 DEF e

LEMMA WritingFacts ==
    ASSUME Inv, pc = "log"
    PROVE  /\ Shape /\ unlocked = TRUE /\ Array(cache)
           /\ job = [addr |-> job.addr, bytes |-> job.bytes, part |-> job.part,
                     unit |-> job.unit, old |-> job.old]
           /\ \E u, o, k : job.unit = u /\ job.old = o /\ cache = k /\ Block(u, o, k)
           /\ log[write_address] = Blank
           /\ \E x, c, k, a, d, n :
               /\ cache = k /\ job.addr = a /\ job.bytes = d /\ job.part = n
               /\ write_address = x + n
               /\ Writing(x, c, k, a, d, n)
               /\ Short => Len(d) <= 5 /\ c = job.old
<1>1. /\ Shape /\ unlocked = TRUE /\ Array(cache)
      /\ job = [addr |-> job.addr, bytes |-> job.bytes, part |-> job.part,
                unit |-> job.unit, old |-> job.old]
      /\ \E u, o, k : job.unit = u /\ job.old = o /\ cache = k /\ Block(u, o, k)
  BY DEF Inv, LogInv, Shape
<1>2. PICK x, c, k, a, d, n :
           /\ cache = k /\ job.addr = a /\ job.bytes = d /\ job.part = n
           /\ write_address = x + n
           /\ Writing(x, c, k, a, d, n)
           /\ Short => Len(d) <= 5 /\ c = job.old
  BY DEF Inv, LogInv
<1>3. log[x + n] = Blank
  <2>1. Tape(x, c) /\ n \in Nat /\ x + n <= LogWords /\ BlankFrom(x + n)
    BY <1>2 DEF Writing
  <2>2. x \in Nat /\ LogWords \in Nat
    BY <1>1, <2>1, TapeBounds, ShapeFacts
  <2>3. x + n \in x + n..LogWords
    BY <2>1, <2>2
  <2> QED
    BY <2>1, <2>3 DEF BlankFrom
<1> QED
  BY <1>1, <1>2, <1>3
\* A short block is one entry.
LEMMA ShortTaken ==
    ASSUME build \in Stores, NEW a, NEW d, Fits(a, d), WriteSize = 8, Len(d) <= 5
    PROVE  Taken(a, d) = Len(d)
<1>1. Multi(a, d)
  BY DEF Multi, IsWord01, IsByte
<1>2. Taken(a, d) = (IF Len(d) < 5 THEN Len(d) ELSE 5) /\ Len(d) \in Nat
  BY <1>1, TakenBounds
<1>3. PICK l \in Nat : l = Len(d)
  BY <1>2
<1>4. l <= 5 => (IF l < 5 THEN l ELSE 5) = l
  OBVIOUS
<1> QED
  BY <1>2, <1>3, <1>4

LEMMA StepAppend ==
    ASSUME Inv, wear_leveling_append_raw
    PROVE  Inv'
<1>1. pc = "log" /\ UNCHANGED <<build, data, hash, cache, writes, left>>
  BY DEF wear_leveling_append_raw
<1>2. /\ Shape /\ unlocked = TRUE /\ Array(cache) /\ log[write_address] = Blank
      /\ job = [addr |-> job.addr, bytes |-> job.bytes, part |-> job.part,
                unit |-> job.unit, old |-> job.old]
  BY <1>1, WritingFacts
<1>3. PICK u, o, k : job.unit = u /\ job.old = o /\ cache = k /\ Block(u, o, k)
  BY <1>1, WritingFacts
<1>4. PICK x, c, l, a, d, n :
           /\ cache = l /\ job.addr = a /\ job.bytes = d /\ job.part = n
           /\ write_address = x + n
           /\ Writing(x, c, l, a, d, n)
           /\ Short => Len(d) <= 5 /\ c = job.old
  BY <1>1, WritingFacts
<1>5. Writing(x, c, k, a, d, n) /\ Array(k) /\ (Short => Len(d) <= 5 /\ c = o)
  BY <1>2, <1>3, <1>4
<1> DEFINE e == EntryBytes(a, d)
           t == Taken(a, d)
           rest == SubSeq(d, t + 1, Len(d))
<1>6. /\ log' = [log EXCEPT ![x + n] = Word(e, n + 1)]
      /\ write_address' = x + n + 1
      /\ IF x + n + 1 > LogWords
         THEN pc' = "erase" /\ step' = 1 /\ unlocked' = unlocked
         ELSE IF n + 1 < Words(e)
              THEN job' = [job EXCEPT !.part = @ + 1] /\ pc' = pc /\ unlocked' = unlocked
              ELSE IF rest # <<>>
              THEN /\ job' = [job EXCEPT !.addr = @ + t, !.bytes = rest, !.part = 0]
                   /\ pc' = pc /\ unlocked' = unlocked
              ELSE Return
  BY <1>1, <1>2, <1>4 DEF wear_leveling_append_raw
<1>7. /\ x \in Nat /\ x >= 1 /\ Words(e) \in Nat
      /\ log' = [j \in 1..LogWords |-> log'[j]]
      /\ Tape(x, c)' /\ BlankFrom(x + n + 1)'
      /\ \A i \in 1..n + 1 : log'[x + i - 1] = Word(e, i)
      /\ n + 1 = Words(e) =>
           \E y, h : y = x + n + 1 /\ h = Put(c, a, SubSeq(d, 1, t)) /\ Tape(y, h)'
  BY <1>1, <1>2, <1>5, <1>6, Appended
<1>8. /\ Array(c) /\ Fits(a, d) /\ Put(c, a, d) = k /\ n \in Nat /\ n < Words(e)
      /\ x + n <= LogWords
  BY <1>5 DEF Writing
<1>9. /\ LogWords \in Nat /\ build \in Stores /\ WriteSize \in {2, 4, 8}
      /\ build.Pages \in Nat /\ build.Pages >= 1 /\ Guarded(build)
  BY <1>2, ShapeFacts DEF Shape
<1>10. /\ t \in Nat /\ t >= 1 /\ t <= Len(d) /\ Len(d) \in Nat
  BY <1>8, <1>9, TakenBounds
<1>11. LogWords' = LogWords /\ WriteSize' = WriteSize /\ Short' = Short
  BY <1>1, SameBuild DEF Short
<1>12. Shape'
  <2>1. Array(cache') /\ Array(left') /\ Array(data') /\ build' = build
    BY <1>1, <1>2 DEF Shape
  <2> QED
    BY <1>2, <1>7, <2>1, ShapeKept
<1>13. Block(u, o, k)' /\ cache' = k
  BY <1>1, <1>3 DEF Block
<1> HIDE DEF t
<1>14. CASE x + n + 1 > LogWords
  <2>1. pc' = "erase" /\ step' = 1 /\ unlocked' = TRUE
    BY <1>2, <1>6, <1>14
  <2>2. step' \in 1..build'.Pages /\ ~(step' > 1)
    BY <1>1, <1>9, <2>1
  <2>3. ASSUME NEW j \in 1..LogWords'
        PROVE  ~(PageOfLog(j)' < step')
    <3>1. PageOfLog(j) \in 1..build.Pages
      BY <1>9, <1>11, PageBounds
    <3>2. PageOfLog(j)' = PageOfLog(j)
      BY <1>1, <1>11 DEF PageOfLog
    <3> QED
      BY <1>9, <2>1, <3>1, <3>2
  <2>4. ASSUME "erase" \in build'.CutDuring
        PROVE  \E y, h : /\ y = LogWords' + 1 /\ Tape(y, h)' /\ Array(h)
                         /\ Short' => h = cache'
    <3>1. WriteSize = 8
      BY <1>1, <1>9, <2>4 DEF Guarded, WriteSize
    <3>2. Words(e) = 1
      BY <1>8, <1>9, <3>1, WordCount
    <3> HIDE DEF e
    <3>3. n + 1 = Words(e) /\ x + n + 1 = LogWords' + 1
      BY <1>7, <1>8, <1>9, <1>11, <1>14, <3>2
    <3>4. PICK y, h : y = x + n + 1 /\ h = Put(c, a, SubSeq(d, 1, t)) /\ Tape(y, h)'
      BY <1>7, <3>3
    <3>5. Array(h)
      BY <3>4, PutAt
    <3>6. ASSUME Short'
          PROVE  h = cache'
      <4>1. Len(d) <= 5
        BY <1>5, <1>11, <3>6
      <4>2. t = Len(d)
        BY <1>8, <1>9, <3>1, <4>1, ShortTaken DEF t
      <4>3. SubSeq(d, 1, Len(d)) = d
        BY <1>8, PutWhole
      <4> QED
        BY <1>8, <1>13, <3>4, <4>2, <4>3
    <3> QED
      BY <3>3, <3>4, <3>5, <3>6
  <2>5. EraseInv'
    BY <2>1, <2>2, <2>3, <2>4 DEF EraseInv
  <2> QED
    BY <1>12, <2>1, <2>5, OnlyErase DEF Inv
<1>15. CASE ~(x + n + 1 > LogWords) /\ n + 1 < Words(e)
  <2>1. pc' = "log" /\ unlocked' = TRUE /\ job' = [job EXCEPT !.part = @ + 1]
    BY <1>1, <1>2, <1>6, <1>15
  <2>2. /\ job'.addr = a /\ job'.bytes = d /\ job'.part = n + 1 /\ job'.unit = u /\ job'.old = o
        /\ job' = [addr |-> job'.addr, bytes |-> job'.bytes, part |-> job'.part,
                   unit |-> job'.unit, old |-> job'.old]
    BY <1>2, <1>3, <1>4, <2>1
  <2>3. PICK m : m = n + 1
    OBVIOUS
  <2>4. Writing(x, c, k, a, d, m)'
    <3>1. e' = e /\ Words(e)' = Words(e)
      <4>1. e' = e
        BY <1>1, SameBuild
      <4> HIDE DEF e
      <4> QED
        BY <1>11, <4>1 DEF Words
    <3>2. x + n + 1 = x + m /\ m \in Nat /\ m < Words(e)' /\ x + m <= LogWords'
      BY <1>7, <1>8, <1>9, <1>11, <1>15, <2>3, <3>1
    <3>3. BlankFrom(x + m)'
      BY <1>7, <3>2
    <3>4. ASSUME NEW i \in 1..m
          PROVE  log'[x + i - 1] = Word(e, i)'
      <4>1. Word(e, i)' = Word(e, i)
        <5> HIDE DEF e
        <5> QED
          BY <1>11, <3>1 DEF Word
      <4> QED
        BY <1>7, <2>3, <4>1
    <3> QED
      BY <1>7, <1>8, <3>2, <3>3, <3>4 DEF Writing
  <2>5. write_address' = x + m
    BY <1>6, <1>7, <1>8, <2>3
  <2>6. Short' => Len(d) <= 5 /\ c = job'.old
    BY <1>5, <1>11, <2>2
  <2>7. LogInv'
    BY <1>13, <2>1, <2>2, <2>3, <2>4, <2>5, <2>6 DEF LogInv
  <2> QED
    BY <1>12, <2>1, <2>7, OnlyLog DEF Inv
<1>16. CASE ~(x + n + 1 > LogWords) /\ ~(n + 1 < Words(e))
  <2>1. n + 1 = Words(e)
    <3> HIDE DEF e
    <3> QED
      BY <1>7, <1>8, <1>16
  <2>2. PICK y, h : y = x + n + 1 /\ h = Put(c, a, SubSeq(d, 1, t)) /\ Tape(y, h)'
    BY <1>7, <2>1
  <2>3. y \in Nat /\ y <= LogWords' /\ BlankFrom(y)' /\ write_address' = y
    BY <1>6, <1>7, <1>8, <1>9, <1>11, <1>16, <2>2
  <2>4. CASE t < Len(d)
    <3> DEFINE r == SubSeq(d, t + 1, Len(d))
    <3>1. /\ Fits(a + t, r) /\ r # <<>> /\ Len(r) <= Len(d)
          /\ Put(Put(c, a, SubSeq(d, 1, t)), a + t, r) = Put(c, a, d)
      BY <1>8, <1>10, <2>4, PutSplit
    <3>2. /\ pc' = "log" /\ unlocked' = TRUE
          /\ job' = [job EXCEPT !.addr = @ + t, !.bytes = r, !.part = 0]
      BY <1>1, <1>2, <1>6, <1>16, <3>1
    <3>3. PICK q, b : q = r /\ b = a + t
      OBVIOUS
    <3> HIDE DEF r
    <3>4. /\ job'.addr = b /\ job'.bytes = q /\ job'.part = 0 /\ job'.unit = u /\ job'.old = o
          /\ job' = [addr |-> job'.addr, bytes |-> job'.bytes, part |-> job'.part,
                     unit |-> job'.unit, old |-> job'.old]
      BY <1>2, <1>3, <1>4, <3>2, <3>3
    <3>5. Writing(y, h, k, b, q, 0)'
      <4>1. Words(EntryBytes(b, q)) \in Nat /\ Words(EntryBytes(b, q)) >= 1
        BY <1>9, <3>1, <3>3, WordCount
      <4>2. Words(EntryBytes(b, q))' = Words(EntryBytes(b, q))
        <5>1. EntryBytes(b, q)' = EntryBytes(b, q)
          BY <1>1, SameBuild
        <5> QED
          BY <1>11, <5>1 DEF Words
      <4>3. y + 0 = y
        BY <2>3
      <4>4. BlankFrom(y + 0)'
        BY <2>3, <4>3
      <4>5. Fits(b, q) /\ Put(h, b, q) = k /\ Array(h)
        BY <1>8, <2>2, <3>1, <3>3, PutAt
      <4> QED
        BY <2>2, <2>3, <4>1, <4>2, <4>3, <4>4, <4>5 DEF Writing
    <3>6. write_address' = y + 0
      BY <2>3
    <3>7. Short' => Len(q) <= 5 /\ h = job'.old
      <4>1. ASSUME Short
            PROVE  FALSE
        <5>1. Len(d) <= 5 /\ WriteSize = 8
          BY <1>5, <4>1 DEF Short, WriteSize
        <5>2. t = Len(d)
          BY <1>8, <1>9, <5>1, ShortTaken DEF t
        <5> QED
          BY <1>10, <2>4, <5>2
      <4> QED
        BY <1>11, <4>1
    <3>8. LogInv'
      BY <1>13, <3>2, <3>4, <3>5, <3>6, <3>7 DEF LogInv
    <3> QED
      BY <1>12, <3>2, <3>8, OnlyLog DEF Inv
  <2>5. CASE ~(t < Len(d))
    <3>1. t = Len(d)
      BY <1>10, <2>5
    <3>2. rest = <<>>
      <4>1. Len(d) < t + 1 /\ t + 1 \in Int /\ Len(d) \in Int
        BY <1>10, <3>1
      <4> QED
        BY <4>1, SubSeqEmpty
    <3>3. pc' = "idle"
      BY <1>6, <1>16, <3>2 DEF Return
    <3>4. SubSeq(d, 1, Len(d)) = d
      BY <1>8, PutWhole
    <3>5. h = k
      BY <1>8, <2>2, <3>1, <3>4
    <3>6. Stands(y, h)'
      BY <2>2, <2>3 DEF Stands
    <3>7. IdleInv'
      BY <1>13, <2>3, <3>5, <3>6 DEF IdleInv
    <3> QED
      BY <1>12, <3>3, <3>7, OnlyIdle DEF Inv
  <2> QED
    BY <2>4, <2>5
<1> QED
  BY <1>14, <1>15, <1>16
LEMMA StepErase ==
    ASSUME Inv, backing_store_erase
    PROVE  Inv'
<1>1. pc \in {"erase", "wipe"} /\ UNCHANGED <<build, starting, writes, left>>
  BY DEF backing_store_erase
<1>2. /\ Shape /\ LogWords \in Nat /\ LogWords >= 1 /\ build \in Stores
      /\ build.Pages \in Nat /\ build.Pages >= 1 /\ Guarded(build)
  BY ShapeFacts DEF Inv, Shape
<1>3. /\ unlocked = TRUE \/ build.LockedErase = TRUE
      /\ step \in 1..build.Pages
      /\ step > 1 => data = Erased /\ hash = NoHash
      /\ \A k \in 1..LogWords : PageOfLog(k) < step => log[k] = Blank
  BY <1>1 DEF Inv, EraseInv
<1>4. /\ data' = IF step = 1 THEN Erased ELSE data
      /\ hash' = IF step = 1 THEN NoHash ELSE hash
      /\ log' = [k \in 1..LogWords |-> IF step = PageOfLog(k) THEN Blank ELSE log[k]]
  <2>1. unlocked \/ build.LockedErase
    BY <1>3
  <2> QED
    BY <2>1 DEF backing_store_erase
<1>5. data' = Erased /\ hash' = NoHash
  BY <1>2, <1>3, <1>4
<1>6. LogWords' = LogWords /\ Blank' = Blank
  BY <1>1, SameBuild
<1>7. ASSUME NEW k \in 1..LogWords, PageOfLog(k) <= step
      PROVE  log'[k] = Blank
  <2>1. PageOfLog(k) \in 1..build.Pages
    BY <1>2, PageBounds
  <2>2. PageOfLog(k) = step \/ PageOfLog(k) < step
    BY <1>2, <1>3, <1>7, <2>1
  <2> QED
    BY <1>3, <1>4, <2>2
<1>8. Array(cache) /\ Array(left) /\ Array(Erased)
  BY <1>2, ErasedArray DEF Shape
<1>9. ASSUME Array(cache')
      PROVE  Shape'
  <2>1. Array(left') /\ Array(data') /\ build' = build /\ log' = [k \in 1..LogWords |-> log'[k]]
    BY <1>1, <1>4, <1>5, <1>8
  <2> QED
    BY <1>2, <1>9, <2>1, ShapeKept
<1>10. CASE step < build.Pages
  <2>1. step' = step + 1 /\ UNCHANGED <<pc, cache, write_address, unlocked, job>>
    <3>1. step # build.Pages
      BY <1>2, <1>3, <1>10
    <3> QED
      BY <1>10, <3>1 DEF backing_store_erase
  <2>2. step' \in 1..build'.Pages
    BY <1>1, <1>2, <1>3, <1>10, <2>1
  <2>3. ASSUME NEW k \in 1..LogWords', PageOfLog(k)' < step'
        PROVE  log'[k] = Blank'
    <3>1. PageOfLog(k)' = PageOfLog(k) /\ k \in 1..LogWords
      BY <1>1, <1>6 DEF PageOfLog
    <3>2. PageOfLog(k) \in 1..build.Pages
      BY <1>2, <3>1, PageBounds
    <3>3. PageOfLog(k) <= step
      BY <1>2, <1>3, <2>1, <2>3, <3>1, <3>2
    <3> QED
      BY <1>6, <1>7, <3>1, <3>3
  <2>4. "erase" \notin build'.CutDuring /\ "wipe" \notin build'.CutDuring
    <3>1. build.Pages # 1
      BY <1>2, <1>3, <1>10
    <3> QED
      BY <1>1, <1>2, <3>1 DEF Guarded
  <2>5. unlocked' = TRUE \/ build'.LockedErase = TRUE
    BY <1>1, <1>3, <2>1
  <2>6. EraseInv'
    BY <1>5, <2>2, <2>3, <2>4, <2>5 DEF EraseInv
  <2>7. Shape' /\ pc' \in {"erase", "wipe"}
    BY <1>1, <1>8, <1>9, <2>1
  <2> QED
    BY <2>6, <2>7, OnlyErase DEF Inv
<1>11. CASE ~(step < build.Pages)
  <2>1. step = build.Pages
    BY <1>2, <1>3, <1>11
  <2>2. BlankFrom(1)'
    <3>1. ASSUME NEW k \in 1..LogWords
          PROVE  log'[k] = Blank
      <4>1. PageOfLog(k) \in 1..build.Pages
        BY <1>2, PageBounds
      <4>2. PageOfLog(k) <= step
        BY <1>2, <2>1, <4>1
      <4> QED
        BY <1>7, <4>2
    <3>2. \A k \in 1..LogWords' : log'[k] = Blank'
      BY <1>6, <3>1
    <3> QED
      BY <3>2 DEF BlankFrom
  <2>3. CASE pc = "erase"
    <3>1. pc' = "data" /\ step' = 0 /\ UNCHANGED <<cache, write_address, job>>
      BY <1>11, <2>1, <2>3 DEF backing_store_erase
    <3>2. step' \in Addr
      BY <3>1, WearLevelingAssumption DEF Addr
    <3>3. ASSUME NEW b \in Addr
          PROVE  data'[b] = IF b < step' THEN cache'[b] ELSE 0
      <4>1. ~(b < step')
        BY <3>1 DEF Addr
      <4> QED
        BY <1>5, <4>1, ErasedArray
    <3>4. DataInv'
      BY <1>5, <2>2, <3>2, <3>3 DEF DataInv
    <3>5. Shape'
      BY <1>8, <1>9, <3>1
    <3> QED
      BY <3>1, <3>4, <3>5, OnlyData DEF Inv
  <2>4. CASE pc = "wipe"
    <3>1. pc' = "idle" /\ cache' = Erased /\ write_address' = 1
      BY <1>11, <2>1, <2>4 DEF backing_store_erase, Return
    <3>2. PICK c : c = Erased
      OBVIOUS
    <3>3. c = ReadConsolidated'
      BY <1>5, <3>2 DEF ReadConsolidated
    <3>4. Tape(1, c)'
      BY <3>3, TapeEmptyNext
    <3>5. Stands(1, c)'
      BY <1>2, <1>6, <2>2, <3>4 DEF Stands
    <3>6. IdleInv'
      BY <3>1, <3>2, <3>5 DEF IdleInv
    <3>7. Shape'
      BY <1>8, <1>9, <3>1
    <3> QED
      BY <3>1, <3>6, <3>7, OnlyIdle DEF Inv
  <2> QED
    BY <1>1, <2>3, <2>4
<1> QED
  BY <1>10, <1>11

LEMMA BlankSameLog ==
    ASSUME build' = build, log' = log, BlankFrom(1)
    PROVE  BlankFrom(1)'
<1>1. \A k \in 1..LogWords : log'[k] = log[k]
  OBVIOUS
<1> QED
  BY <1>1, BlankSame

LEMMA StepData ==
    ASSUME Inv, WriteData
    PROVE  Inv'
<1>1. pc = "data" /\ UNCHANGED <<build, hash, log, writes, left>>
  BY DEF WriteData
<1>2. Shape /\ LogWords \in Nat /\ build \in Stores
  BY ShapeFacts DEF Inv
<1>3. /\ hash = NoHash /\ BlankFrom(1) /\ step \in Addr
      /\ \A b \in Addr : data[b] = IF b < step THEN cache[b] ELSE 0
  BY <1>1 DEF Inv, DataInv
<1>4. LogicalSize \in Nat /\ step \in Nat /\ step <= LogicalSize - 1
  BY <1>3, WearLevelingAssumption DEF Addr
<1>5. data[step] = 0
  BY <1>3, <1>4
<1>6. /\ data' = [data EXCEPT ![step] = cache[step]] /\ step' = step + 1
      /\ pc' = (IF step + 1 = LogicalSize THEN "hash" ELSE pc)
      /\ UNCHANGED <<cache, write_address, unlocked, job, starting>>
  BY <1>5 DEF WriteData
<1>7. Array(cache) /\ Array(data) /\ Array(left) /\ log = [k \in 1..LogWords |-> log[k]]
  BY <1>2 DEF Shape
<1>8. Array(data') /\ \A b \in Addr : data'[b] = IF b = step THEN cache[step] ELSE data[b]
  BY <1>3, <1>6, <1>7 DEF Array
<1>9. Shape'
  <2>1. Array(cache') /\ Array(left') /\ build' = build /\ log' = [k \in 1..LogWords |-> log'[k]]
    BY <1>1, <1>6, <1>7
  <2> QED
    BY <1>2, <1>8, <2>1, ShapeKept
<1>10. BlankFrom(1)' /\ hash' = NoHash
  BY <1>1, <1>3, BlankSameLog
<1>11. ASSUME NEW b \in Addr
       PROVE  data'[b] = IF b < step + 1 THEN cache[b] ELSE 0
  <2>1. b \in Int
    BY DEF Addr
  <2>2. b = step \/ b < step \/ b > step
    BY <1>4, <2>1
  <2>3. CASE b = step
    <3>1. b < step + 1
      BY <1>4, <2>3
    <3> QED
      BY <1>8, <2>3, <3>1
  <2>4. CASE b < step
    <3>1. b < step + 1 /\ b # step
      BY <1>4, <2>1, <2>4
    <3> QED
      BY <1>3, <1>8, <2>4, <3>1
  <2>5. CASE b > step
    <3>1. ~(b < step + 1) /\ b # step /\ ~(b < step)
      BY <1>4, <2>1, <2>5
    <3> QED
      BY <1>3, <1>8, <3>1
  <2> QED
    BY <2>2, <2>3, <2>4, <2>5
<1>12. CASE step + 1 = LogicalSize
  <2>1. pc' = "hash"
    BY <1>6, <1>12
  <2>2. ASSUME NEW b \in Addr
        PROVE  data'[b] = cache'[b]
    <3>1. b < step + 1
      <4>1. b \in Int /\ b <= LogicalSize - 1
        BY <1>4 DEF Addr
      <4> QED
        BY <1>4, <1>12, <4>1
    <3> QED
      BY <1>6, <1>11, <3>1
  <2>3. data' = cache'
    <3>1. Array(data') /\ Array(cache')
      BY <1>6, <1>7, <1>8
    <3> QED
      BY <2>2, <3>1 DEF Array
  <2>4. HashInv'
    BY <1>10, <2>3 DEF HashInv
  <2> QED
    BY <1>9, <2>1, <2>4, OnlyHash DEF Inv
<1>13. CASE step + 1 # LogicalSize
  <2>1. pc' = "data" /\ step' \in Addr
    BY <1>1, <1>4, <1>6, <1>13 DEF Addr
  <2>2. \A b \in Addr : data'[b] = IF b < step' THEN cache'[b] ELSE 0
    BY <1>6, <1>11
  <2>3. DataInv'
    BY <1>10, <2>1, <2>2 DEF DataInv
  <2> QED
    BY <1>9, <2>1, <2>3, OnlyData DEF Inv
<1> QED
  BY <1>12, <1>13

LEMMA StepHash ==
    ASSUME Inv, WriteHash
    PROVE  Inv'
<1>1. pc = "hash" /\ UNCHANGED <<build, data, log, writes, left>>
  BY DEF WriteHash
<1>2. Shape /\ LogWords \in Nat /\ LogWords >= 1 /\ build \in Stores
  BY ShapeFacts DEF Inv
<1>3. hash = NoHash /\ BlankFrom(1) /\ data = cache
  BY <1>1 DEF Inv, HashInv
<1>4. pc' = "idle" /\ write_address' = 1 /\ cache' = cache /\ hash' = cache
  BY <1>3 DEF WriteHash, Consolidated, Return
<1>5. Shape'
  <2>1. /\ Array(cache') /\ Array(left') /\ Array(data') /\ build' = build
        /\ log' = [k \in 1..LogWords |-> log'[k]]
    BY <1>1, <1>2, <1>4 DEF Shape
  <2> QED
    BY <1>2, <2>1, ShapeKept
<1>6. BlankFrom(1)' /\ LogWords' = LogWords
  BY <1>1, <1>3, BlankSameLog, SameBuild
<1>7. PICK c : c = cache
  OBVIOUS
<1>8. c = ReadConsolidated'
  BY <1>1, <1>3, <1>4, <1>7 DEF ReadConsolidated
<1>9. Tape(1, c)'
  BY <1>8, TapeEmptyNext
<1>10. Stands(1, c)'
  BY <1>2, <1>6, <1>9 DEF Stands
<1>11. IdleInv'
  BY <1>4, <1>7, <1>10 DEF IdleInv
<1> QED
  BY <1>4, <1>5, <1>11, OnlyIdle DEF Inv
\* What a loss of power leaves is a whole log; and what it makes, if every block is one
\* word, is the array before or after what was going on, or an erased one.
LEMMA CutLeaves ==
    ASSUME Inv, pc \in build.CutDuring
    PROVE  \E x, c : /\ x \in Nat /\ x <= LogWords + 1 /\ Tape(x, c) /\ BlankFrom(x) /\ Array(c)
                     /\ x > LogWords => build.LockedErase
                     /\ pc \in {"idle", "wipe"} => c = cache
                     /\ pc = "log" /\ Short => c = job.old
                     /\ pc = "erase" /\ Short => c = cache
                     /\ pc \in {"data", "hash"} => c = Erased
<1>1. /\ Shape /\ LogWords \in Nat /\ LogWords >= 1 /\ build \in Stores
      /\ build.CutDuring \subseteq {"idle", "log", "erase", "wipe", "data", "hash"}
      /\ build.LockedErase \in BOOLEAN /\ Guarded(build)
      /\ Array(cache) /\ Array(data)
  BY ShapeFacts DEF Inv, Shape
<1>2. CASE pc = "idle"
  <2>1. PICK x, c : write_address = x /\ cache = c /\ Stands(x, c)
    BY <1>2 DEF Inv, IdleInv
  <2>2. x \in Nat /\ x <= LogWords /\ Tape(x, c) /\ BlankFrom(x)
    BY <2>1 DEF Stands
  <2>3. x <= LogWords + 1 /\ ~(x > LogWords)
    BY <1>1, <2>2
  <2> QED
    BY <1>1, <1>2, <2>1, <2>2, <2>3
<1>3. CASE pc = "wipe"
  <2>1. PICK x, c : write_address = x /\ cache = c /\ Stands(x, c)
    BY <1>3 DEF Inv, EraseInv
  <2>2. x \in Nat /\ x <= LogWords /\ Tape(x, c) /\ BlankFrom(x)
    BY <2>1 DEF Stands
  <2>3. x <= LogWords + 1 /\ ~(x > LogWords)
    BY <1>1, <2>2
  <2> QED
    BY <1>1, <1>3, <2>1, <2>2, <2>3
<1>4. CASE pc = "log"
  <2>1. PICK x, c, k, a, d, n :
           /\ Writing(x, c, k, a, d, n)
           /\ Short => Len(d) <= 5 /\ c = job.old
    BY <1>4 DEF Inv, LogInv
  <2>2. /\ Tape(x, c) /\ Array(c) /\ Fits(a, d) /\ n \in Nat /\ n < Words(EntryBytes(a, d))
        /\ x + n <= LogWords /\ BlankFrom(x + n)
    BY <2>1 DEF Writing
  <2>3. WriteSize = 8
    BY <1>1, <1>4 DEF Guarded, WriteSize
  <2>4. Words(EntryBytes(a, d)) = 1
    BY <1>1, <2>2, <2>3, WordCount
  <2>5. x \in Nat
    BY <2>2, TapeBounds
  <2>6. n = 0 /\ x + n = x
    BY <2>2, <2>4, <2>5
  <2>7. BlankFrom(x) /\ x <= LogWords
    BY <2>2, <2>6
  <2>8. x <= LogWords + 1 /\ ~(x > LogWords)
    BY <1>1, <2>5, <2>7
  <2> QED
    BY <1>4, <2>1, <2>2, <2>5, <2>7, <2>8
<1>5. CASE pc = "erase"
  <2>1. PICK x, c : x = LogWords + 1 /\ Tape(x, c) /\ Array(c) /\ (Short => c = cache)
    BY <1>5 DEF Inv, EraseInv
  <2>2. build.LockedErase
    BY <1>1, <1>5 DEF Guarded
  <2>3. x \in Nat /\ x <= LogWords + 1
    BY <1>1, <2>1
  <2>4. BlankFrom(x)
    BY <1>1, <2>1 DEF BlankFrom
  <2> QED
    BY <1>5, <2>1, <2>2, <2>3, <2>4
<1>6. CASE pc \in {"data", "hash"}
  <2>1. hash = NoHash /\ BlankFrom(1)
    BY <1>6 DEF Inv, DataInv, HashInv
  <2>2. Tape(1, Erased)
    BY <1>1, <2>1, NoHashData, TapeEmpty
  <2>3. PICK c : c = Erased
    OBVIOUS
  <2>4. 1 \in Nat /\ 1 <= LogWords + 1 /\ ~(1 > LogWords)
    BY <1>1
  <2>5. Tape(1, c) /\ Array(c)
    BY <2>2, <2>3, ErasedArray
  <2> QED
    BY <1>6, <2>1, <2>3, <2>4, <2>5
<1> QED
  BY <1>1, <1>2, <1>3, <1>4, <1>5, <1>6

LEMMA CutRecovers ==
    ASSUME Inv, pc \in build.CutDuring
    PROVE  \E x, c : /\ x \in Nat /\ x <= LogWords + 1 /\ Tape(x, c) /\ BlankFrom(x) /\ Array(c)
                     /\ x > LogWords => build.LockedErase
                     /\ Playback(Blank).cache = c
                     /\ pc \in {"idle", "wipe"} => c = cache
                     /\ pc = "log" /\ Short => c = job.old
                     /\ pc = "erase" /\ Short => c = cache
                     /\ pc \in {"data", "hash"} => c = Erased
<1>1. PICK x, c : /\ x \in Nat /\ x <= LogWords + 1 /\ Tape(x, c) /\ BlankFrom(x) /\ Array(c)
                  /\ x > LogWords => build.LockedErase
                  /\ pc \in {"idle", "wipe"} => c = cache
                  /\ pc = "log" /\ Short => c = job.old
                  /\ pc = "erase" /\ Short => c = cache
                  /\ pc \in {"data", "hash"} => c = Erased
  BY CutLeaves
<1>2. PICK junk : junk = Blank
  OBVIOUS
<1>3. build \in Stores
  BY DEF Inv, Shape
<1>4. Playback(junk) = Final(x, c)
  BY <1>1, <1>3, TapePlays
<1>5. Final(x, c).cache = c
  BY DEF Final, Rec
<1>6. Playback(Blank).cache = c
  BY <1>2, <1>4, <1>5
<1> QED
  BY <1>1, <1>6

LEMMA StepCut ==
    ASSUME Inv, PowerLoss
    PROVE  Inv'
<1>1. /\ pc \in build.CutDuring /\ pc' = "off" /\ cache' = Erased
      /\ left' = Playback(Blank).cache /\ UNCHANGED <<build, data, hash, log>>
  BY DEF PowerLoss, store
<1>2. PICK x, c : /\ x \in Nat /\ x <= LogWords + 1 /\ Tape(x, c) /\ BlankFrom(x) /\ Array(c)
                  /\ x > LogWords => build.LockedErase
                  /\ Playback(Blank).cache = c
  BY <1>1, CutRecovers
<1>3. left' = c
  BY <1>1, <1>2
<1>4. Shape /\ build \in Stores
  BY DEF Inv, Shape
<1>5. Tape(x, c)'
  <2>1. \A j \in 1..x - 1 : log'[j] = log[j]
    BY <1>1
  <2> QED
    BY <1>1, <1>2, <1>4, <2>1, TapeStable
<1>6. BlankFrom(x)' /\ LogWords' = LogWords
  <2>1. \A j \in x..LogWords : log'[j] = log[j]
    BY <1>1
  <2> QED
    BY <1>1, <1>2, <2>1, BlankSame, SameBuild
<1>7. OffInv'
  BY <1>1, <1>2, <1>3, <1>5, <1>6 DEF OffInv
<1>8. Shape'
  <2>1. /\ Array(cache') /\ Array(left') /\ Array(data') /\ build' = build
        /\ log' = [k \in 1..LogWords |-> log'[k]]
    BY <1>1, <1>2, <1>3, <1>4, ErasedArray DEF Shape
  <2> QED
    BY <1>4, <2>1, ShapeKept
<1> QED
  BY <1>1, <1>7, <1>8, OnlyOff DEF Inv

LEMMA StepStutter ==
    ASSUME Inv, UNCHANGED vars
    PROVE  Inv'
<1> USE DEF vars
<1>1. Shape'
  BY DEF Inv, Shape, LogWords, WriteSize, Roomy, Guarded, Array
<1>2. /\ build \in Stores /\ build' = build /\ data' = data /\ hash' = hash /\ log' = log
      /\ LogWords' = LogWords
  BY SameBuild DEF Inv, Shape
<1>3. ASSUME NEW x, NEW c, Tape(x, c)
      PROVE  Tape(x, c)'
  <2>1. \A j \in 1..x - 1 : log'[j] = log[j]
    BY <1>2
  <2> QED
    BY <1>2, <1>3, <2>1, TapeStable
<1>4. ASSUME NEW x, BlankFrom(x)
      PROVE  BlankFrom(x)'
  <2>1. \A j \in x..LogWords : log'[j] = log[j]
    BY <1>2
  <2> QED
    BY <1>2, <1>4, <2>1, BlankSame
<1>5. ASSUME NEW x, NEW c, Stands(x, c)
      PROVE  Stands(x, c)'
  BY <1>2, <1>5, StandsSame
<1>6. Short' = Short
  BY DEF Short
<1>7. OffInv'
  BY <1>2, <1>3, <1>4 DEF Inv, OffInv
<1>8. IdleInv'
  BY <1>5 DEF Inv, IdleInv
<1>9. ASSUME NEW x, NEW c, NEW k, NEW a, NEW d, NEW n, Writing(x, c, k, a, d, n)
      PROVE  Writing(x, c, k, a, d, n)'
  <2>1. EntryBytes(a, d)' = EntryBytes(a, d) /\ WriteSize' = WriteSize
    BY <1>2, SameBuild
  <2>2. Words(EntryBytes(a, d))' = Words(EntryBytes(a, d))
    BY <2>1 DEF Words
  <2>3. ASSUME NEW i
        PROVE  Word(EntryBytes(a, d), i)' = Word(EntryBytes(a, d), i)
    BY <2>1 DEF Word
  <2>4. Tape(x, c)' /\ BlankFrom(x + n)'
    BY <1>3, <1>4, <1>9 DEF Writing
  <2> QED
    BY <1>2, <1>9, <2>2, <2>3, <2>4 DEF Writing
<1>10. ASSUME NEW u, NEW o, NEW k, Block(u, o, k)
       PROVE  Block(u, o, k)'
  BY <1>2, <1>10 DEF Block
<1>11. LogInv'
  <2>1. ASSUME pc = "log"
        PROVE  LogInv'
    <3>1. /\ unlocked = TRUE
          /\ job = [addr |-> job.addr, bytes |-> job.bytes, part |-> job.part,
                    unit |-> job.unit, old |-> job.old]
      BY <2>1, WritingFacts
    <3>2. PICK u, o, k : job.unit = u /\ job.old = o /\ cache = k /\ Block(u, o, k)
      BY <2>1, WritingFacts
    <3>3. PICK x, c, l, a, d, n :
               /\ cache = l /\ job.addr = a /\ job.bytes = d /\ job.part = n
               /\ write_address = x + n
               /\ Writing(x, c, l, a, d, n)
               /\ Short => Len(d) <= 5 /\ c = job.old
      BY <2>1, WritingFacts
    <3>4. Block(u, o, k)' /\ Writing(x, c, l, a, d, n)'
      BY <1>9, <1>10, <3>2, <3>3
    <3> QED
      BY <1>6, <3>1, <3>2, <3>3, <3>4 DEF LogInv
  <2>2. pc # "log" => LogInv'
    BY DEF LogInv
  <2> QED
    BY <2>1, <2>2
<1>12. ASSUME NEW k
       PROVE  PageOfLog(k)' = PageOfLog(k)
  BY <1>2 DEF PageOfLog
<1>13. EraseInv'
  <2>1. Blank' = Blank
    BY <1>2, SameBuild
  <2>2. ASSUME pc \in {"erase", "wipe"}
        PROVE  EraseInv'
    <3>1. /\ unlocked = TRUE \/ build.LockedErase = TRUE
          /\ step \in 1..build.Pages
          /\ step > 1 => data = Erased /\ hash = NoHash
          /\ \A k \in 1..LogWords : PageOfLog(k) < step => log[k] = Blank
      BY <2>2 DEF Inv, EraseInv
    <3>2. ASSUME pc = "erase", "erase" \in build.CutDuring
          PROVE  \E x, c : x = LogWords' + 1 /\ Tape(x, c)' /\ Array(c) /\ (Short' => c = cache')
      <4>1. PICK x, c : x = LogWords + 1 /\ Tape(x, c) /\ Array(c) /\ (Short => c = cache)
        BY <2>2, <3>2 DEF Inv, EraseInv
      <4> QED
        BY <1>2, <1>3, <1>6, <4>1
    <3>3. ASSUME pc = "wipe", "wipe" \in build.CutDuring
          PROVE  \E x, c : write_address' = x /\ cache' = c /\ Stands(x, c)'
      BY <1>5, <2>2, <3>3 DEF Inv, EraseInv
    <3>4. \A k \in 1..LogWords' : PageOfLog(k)' < step' => log'[k] = Blank'
      BY <1>2, <1>12, <2>1, <3>1
    <3> QED
      BY <1>2, <3>1, <3>2, <3>3, <3>4 DEF EraseInv
  <2>3. pc \notin {"erase", "wipe"} => EraseInv'
    BY DEF EraseInv
  <2> QED
    BY <2>2, <2>3
<1>14. DataInv'
  BY <1>4 DEF Inv, DataInv
<1>15. HashInv'
  BY <1>4 DEF Inv, HashInv
<1> QED
  BY <1>1, <1>7, <1>8, <1>11, <1>13, <1>14, <1>15 DEF Inv

LEMMA InvNext ==
    ASSUME Inv, [Next]_vars
    PROVE  Inv'
<1>1. ASSUME NEW b \in {0, 255}, wear_leveling_init([i \in 1..WriteSize |-> b])
      PROVE  Inv'
  <2>1. PICK junk : junk = [i \in 1..WriteSize |-> b]
    OBVIOUS
  <2>2. wear_leveling_init(junk)
    BY <1>1, <2>1
  <2> QED
    BY <2>2, StepInit
<1>2. ASSUME NEW d \in build.Blocks, NEW a \in 0..LogicalSize - Len(d), wear_leveling_write(a, d)
      PROVE  Inv'
  BY <1>2, StepWrite
<1> QED
  BY <1>1, <1>2, StepAppend, StepEraseCall, StepErase, StepData, StepHash, StepCut, StepStutter
     DEF Next

LEMMA Invariance ==
    ASSUME \A b \in Stores : Roomy(b) /\ Guarded(b)
    PROVE  Spec => []Inv
<1>1. Init => Inv
  BY InvInit
<1>2. Inv /\ [Next]_vars => Inv'
  BY InvNext
<1> QED
  BY <1>1, <1>2, PTL DEF Spec

(***************************************************************************)
(* The backing store is only written where it is blank, so that no write   *)
(* of wear_leveling_append_raw or wear_leveling_write_consolidated is      *)
(* refused: for every store with room for a log and blocks of every        *)
(* length, whenever power is lost outside an entry of several words,       *)
(* between two pages of an erase, and before an erase that the next start  *)
(* cannot do.                                                              *)
(***************************************************************************)
THEOREM WritesBlankAlways ==
    ASSUME \A b \in Stores : Roomy(b) /\ Guarded(b)
    PROVE  Spec => []WritesBlank
<1>1. Inv => WritesBlank
  <2>1. ASSUME Inv, pc = "log"
        PROVE  log[write_address] = Blank
    BY <2>1, WritingFacts
  <2>2. ASSUME Inv, pc = "data"
        PROVE  data[step] = 0
    <3>1. step \in Addr /\ data[step] = IF step < step THEN cache[step] ELSE 0
      BY <2>2 DEF Inv, DataInv
    <3>2. ~(step < step)
      BY <3>1 DEF Addr
    <3> QED
      BY <3>1, <3>2
  <2>3. ASSUME Inv, pc = "hash"
        PROVE  hash = NoHash
    BY <2>3 DEF Inv, HashInv
  <2> QED
    BY <2>1, <2>2, <2>3 DEF WritesBlank
<1> QED
  BY <1>1, Invariance, PTL

(***************************************************************************)
(* Whenever no call is in progress, wear_leveling_playback_log would make  *)
(* of the backing store what the cache holds, and the next write would go  *)
(* to the same place: for the stores of WritesBlankAlways.                 *)
(***************************************************************************)
THEOREM LogPlaysBackAlways ==
    ASSUME \A b \in Stores : Roomy(b) /\ Guarded(b)
    PROVE  Spec => []LogPlaysBack
<1>1. Inv => LogPlaysBack
  <2>1. SUFFICES ASSUME Inv, pc = "idle"
                 PROVE  /\ Playback(Blank).cache = cache /\ Playback(Blank).at = write_address
                        /\ ~Playback(Blank).failed
    BY DEF LogPlaysBack, Recovered
  <2>2. PICK x, c : write_address = x /\ cache = c /\ Stands(x, c)
    BY <2>1 DEF Inv, IdleInv
  <2>3. x \in Nat /\ x <= LogWords /\ Tape(x, c) /\ BlankFrom(x)
    BY <2>2 DEF Stands
  <2>4. build \in Stores /\ LogWords \in Nat
    BY <2>1, ShapeFacts DEF Inv
  <2>5. x <= LogWords + 1
    BY <2>3, <2>4
  <2>6. PICK junk : junk = Blank
    OBVIOUS
  <2>7. Playback(junk) = Final(x, c)
    BY <2>3, <2>4, <2>5, TapePlays
  <2>8. Final(x, c).at = x /\ Final(x, c).cache = c /\ ~Final(x, c).failed
    BY DEF Final, Rec
  <2> QED
    BY <2>2, <2>6, <2>7, <2>8
<1> QED
  BY <1>1, Invariance, PTL
(***************************************************************************)
(* No start reads behind the end of the backing store, for the stores of   *)
(* WritesBlankAlways: wear_leveling_playback_log ends at the first blank   *)
(* word or at the end of the log, and never inside an entry.               *)
(***************************************************************************)
THEOREM ReadsInsideAlways ==
    ASSUME \A b \in Stores : Roomy(b) /\ Guarded(b)
    PROVE  Spec => []ReadsInside
<1>1. Inv => ReadsInside
  <2>1. SUFFICES ASSUME Inv, pc = "off"
                 PROVE  ~Playback(Blank).outside
    BY DEF ReadsInside, Recovered
  <2>2. PICK x, c : x \in Nat /\ x <= LogWords + 1 /\ Tape(x, c) /\ BlankFrom(x)
    BY <2>1 DEF Inv, OffInv
  <2>3. build \in Stores
    BY <2>1 DEF Inv, Shape
  <2>4. PICK junk : junk = Blank
    OBVIOUS
  <2>5. Playback(junk) = Final(x, c)
    BY <2>2, <2>3, TapePlays
  <2>6. ~Final(x, c).outside
    BY DEF Final, Rec
  <2> QED
    BY <2>4, <2>5, <2>6
<1> QED
  BY <1>1, Invariance, PTL
-----------------------------------------------------------------------------
(***************************************************************************)
(* The refinement.  A write that power loss may interrupt has to be one    *)
(* entry, and then of one word: Guarded and Atomic.                        *)
(***************************************************************************)
Atomic(b) == b.CutDuring \cap {"log", "erase"} # {} => \A d \in b.Blocks : Len(d) <= 5

Values == UNION {{0} \cup ToSet(d) : d \in UNION {b.Blocks : b \in Stores}}
UnitSets ==
    {a..a + Len(d) - 1 : a \in Addr, d \in UNION {b.Blocks : b \in Stores}} \cap SUBSET Addr
Overwrite(w, s) == [a \in Addr |-> IF a \in DOMAIN w THEN w[a] ELSE s[a]]
Powered == pc # "off"

\* The steps of Eeprom, in terms of the mapping.
LEMMA AbstractSteps ==
    /\ ~Powered /\ Powered' /\ Stored' = Stored /\ Unwritten' = Unwritten => Abstract!Next
    /\ \A u \in UnitSets : \A w \in [u -> Values] :
         /\ Powered /\ Powered' /\ Unwritten = {} /\ Unwritten' = {w} /\ Stored' = Stored
              => Abstract!Next
         /\ Powered /\ Powered' /\ Unwritten \subseteq {w} /\ Unwritten' = {}
              /\ Stored' = Overwrite(w, Stored) => Abstract!Next
    /\ Powered /\ Powered' /\ Unwritten = {} /\ Unwritten' = {} /\ Stored' = Erased
         => Abstract!Next
    /\ Powered /\ ~Powered' /\ Unwritten' = {} /\ Stored' \in {Stored, Erased} => Abstract!Next
<1>1. ASSUME ~Powered, Powered', Stored' = Stored, Unwritten' = Unwritten
      PROVE  Abstract!Next
  BY <1>1 DEF Abstract!Next, Abstract!PowerOn, Powered
<1>2. ASSUME NEW u \in UnitSets, NEW w \in [u -> Values],
             Powered, Powered', Unwritten = {}, Unwritten' = {w}, Stored' = Stored
      PROVE  Abstract!Next
  BY <1>2 DEF Abstract!Next, Abstract!Request, Powered, UnitSets, Values
<1>3. ASSUME NEW u \in UnitSets, NEW w \in [u -> Values],
             Powered, Powered', Unwritten \subseteq {w}, Unwritten' = {},
             Stored' = Overwrite(w, Stored)
      PROVE  Abstract!Next
  BY <1>3 DEF Abstract!Next, Abstract!Write, Powered, Overwrite, Abstract!Overwrite, UnitSets, Values
<1>4. ASSUME Powered, Powered', Unwritten = {}, Unwritten' = {}, Stored' = Erased
      PROVE  Abstract!Next
  BY <1>4 DEF Abstract!Next, Abstract!Erase, Powered, Erased, Abstract!Erased
<1>5. ASSUME Powered, ~Powered', Unwritten' = {}, Stored' \in {Stored, Erased}
      PROVE  Abstract!Next
  BY <1>5 DEF Abstract!Next, Abstract!PowerLoss, Powered, Erased, Abstract!Erased
<1> QED
  BY <1>1, <1>2, <1>3, <1>4, <1>5

LEMMA AbstractStutter ==
    ASSUME Stored' = Stored, Unwritten' = Unwritten, Powered' = Powered
    PROVE  UNCHANGED Abstract!vars
  BY DEF Abstract!vars, Powered

\* The refinement mapping, case by case, before and after a step.
LEMMA MappedOff ==
    /\ pc = "off" => Stored = left /\ Unwritten = {} /\ ~Powered
    /\ pc' = "off" => Stored' = left' /\ Unwritten' = {} /\ ~Powered'
  BY DEF Stored, Unwritten, Powered

LEMMA MappedLog ==
    /\ pc = "log" => Stored = job.old /\ Unwritten = {[a \in job.unit |-> cache[a]]} /\ Powered
    /\ pc' = "log" =>
         Stored' = job'.old /\ Unwritten' = {[a \in job'.unit |-> cache'[a]]} /\ Powered'
  BY DEF Stored, Unwritten, Powered

LEMMA MappedOther ==
    /\ pc \notin {"off", "log"} => Stored = cache /\ Unwritten = {} /\ Powered
    /\ pc' \notin {"off", "log"} => Stored' = cache' /\ Unwritten' = {} /\ Powered'
  BY DEF Stored, Unwritten, Powered

\* The block that is being written is one write of Eeprom.
LEMMA BlockFacts ==
    ASSUME build \in Stores, NEW u, NEW o, NEW k, Block(u, o, k)
    PROVE  /\ u \in UnitSets /\ [a \in u |-> k[a]] \in [u -> Values]
           /\ k = Overwrite([a \in u |-> k[a]], o)
<1>1. PICK d \in build.Blocks : \E a \in 0..LogicalSize - Len(d) :
          u = a..a + Len(d) - 1 /\ Array(o) /\ k = Put(o, a, d)
  BY DEF Block
<1>2. PICK a \in 0..LogicalSize - Len(d) :
          u = a..a + Len(d) - 1 /\ Array(o) /\ k = Put(o, a, d)
  BY <1>1
<1>3. /\ d \in Seq(0..255) /\ Len(d) \in Nat /\ Len(d) >= 1 /\ Len(d) <= LogicalSize
      /\ LogicalSize \in Nat
  <2>1. d \in Seq(0..255) /\ Len(d) >= 1 /\ Len(d) <= LogicalSize
    BY BuildTypes
  <2> QED
    BY <2>1, WearLevelingAssumption
<1>4. a \in Nat /\ a + Len(d) <= LogicalSize /\ a \in Addr
  BY <1>3 DEF Addr
<1>5. u \subseteq Addr
  BY <1>2, <1>3, <1>4 DEF Addr
<1>6. d \in UNION {b.Blocks : b \in Stores}
  BY <1>1
<1>7. u \in UnitSets
  BY <1>2, <1>4, <1>5, <1>6 DEF UnitSets
<1>8. \A b \in Addr : k[b] = IF b \in u THEN d[b - a + 1] ELSE o[b]
  BY <1>2, PutAt
<1>9. ASSUME NEW b \in u
      PROVE  k[b] \in Values
  <2>1. b \in Addr /\ b - a + 1 \in 1..Len(d)
    BY <1>2, <1>3, <1>4, <1>5
  <2>2. b - a + 1 \in DOMAIN d
    BY <1>3, <2>1, LenProperties
  <2>3. k[b] \in ToSet(d)
    BY <1>8, <1>9, <2>1, <2>2 DEF ToSet
  <2> QED
    BY <1>6, <2>3 DEF Values
<1> DEFINE w == [b \in u |-> k[b]]
<1>10. w \in [u -> Values] /\ DOMAIN w = u /\ \A b \in u : w[b] = k[b]
  BY <1>9
<1> HIDE DEF w
<1>11. \A b \in Addr : k[b] = Overwrite(w, o)[b]
  BY <1>8, <1>10 DEF Overwrite
<1>12. k = [b \in Addr |-> k[b]]
  BY <1>2, PutAt DEF Array
<1>13. k = Overwrite(w, o)
  BY <1>11, <1>12 DEF Overwrite
<1> QED
  BY <1>7, <1>10, <1>13 DEF w

LEMMA SimulatesInit == Init => Abstract!Init
<1> SUFFICES ASSUME Init
             PROVE  Abstract!Init
  OBVIOUS
<1>1. pc = "off" /\ left = Erased
  BY DEF Init
<1>2. Stored = Erased /\ Unwritten = {} /\ ~Powered
  BY <1>1, MappedOff
<1> QED
  BY <1>2 DEF Abstract!Init, Powered, Erased, Abstract!Erased
\* The mapped step: a step of Eeprom, or none.
Simulated == Abstract!Next \/ UNCHANGED Abstract!vars

LEMMA SimulatesPowerOn ==
    ASSUME Inv, NEW junk, wear_leveling_init(junk)
    PROVE  Simulated
<1>1. /\ pc = "off" /\ cache' = Playback(junk).cache /\ pc' \in {"idle", "erase"}
  BY DEF wear_leveling_init
<1>2. PICK x, c : left = c /\ x \in Nat /\ x <= LogWords + 1 /\ Tape(x, c) /\ BlankFrom(x)
  BY <1>1 DEF Inv, OffInv
<1>3. build \in Stores
  BY DEF Inv, Shape
<1>4. Playback(junk) = Final(x, c)
  BY <1>2, <1>3, TapePlays
<1>5. Final(x, c).cache = c
  BY DEF Final, Rec
<1>6. cache' = left
  BY <1>1, <1>2, <1>4, <1>5
<1>7. Stored = left /\ Unwritten = {} /\ ~Powered
  BY <1>1, MappedOff
<1>8. Stored' = cache' /\ Unwritten' = {} /\ Powered'
  BY <1>1, MappedOther
<1> QED
  BY <1>6, <1>7, <1>8, AbstractSteps DEF Simulated

LEMMA SimulatesRequest ==
    ASSUME Inv, NEW d \in build.Blocks, NEW a \in 0..LogicalSize - Len(d), wear_leveling_write(a, d)
    PROVE  Simulated
<1>1. /\ pc = "idle" /\ cache' = Put(cache, a, d)
      /\ IF cache' = cache
         THEN pc' = pc
         ELSE /\ pc' = "log"
              /\ job' = [addr |-> a, bytes |-> d, part |-> 0,
                         unit |-> a..a + Len(d) - 1, old |-> cache]
  BY DEF wear_leveling_write
<1>2. Stored = cache /\ Unwritten = {} /\ Powered
  BY <1>1, MappedOther
<1>3. CASE cache' = cache
  <2>1. Stored' = cache' /\ Unwritten' = {} /\ Powered'
    BY <1>1, <1>3, MappedOther
  <2> QED
    BY <1>2, <1>3, <2>1, AbstractStutter DEF Simulated
<1>4. CASE cache' # cache
  <2>1. PICK u, o, k : u = a..a + Len(d) - 1 /\ o = cache /\ k = cache'
    OBVIOUS
  <2>2. pc' = "log" /\ job'.unit = u /\ job'.old = o
    BY <1>1, <1>4, <2>1
  <2>3. build \in Stores /\ Array(o)
    BY <2>1 DEF Inv, Shape
  <2>4. Block(u, o, k)
    BY <1>1, <2>1, <2>3 DEF Block
  <2>5. /\ u \in UnitSets /\ [b \in u |-> k[b]] \in [u -> Values]
        /\ k = Overwrite([b \in u |-> k[b]], o)
    BY <2>3, <2>4, BlockFacts
  <2>6. Stored' = o /\ Unwritten' = {[b \in u |-> k[b]]} /\ Powered'
    BY <2>1, <2>2, MappedLog
  <2> QED
    BY <1>2, <2>1, <2>5, <2>6, AbstractSteps DEF Simulated
<1> QED
  BY <1>3, <1>4

LEMMA SimulatesAppend ==
    ASSUME Inv, wear_leveling_append_raw
    PROVE  Simulated
<1>1. pc = "log" /\ cache' = cache
  BY DEF wear_leveling_append_raw
<1>2. /\ log[write_address] = Blank /\ build \in Stores
      /\ job = [addr |-> job.addr, bytes |-> job.bytes, part |-> job.part,
                unit |-> job.unit, old |-> job.old]
  BY <1>1, WritingFacts DEF Shape
<1>3. PICK u, o, k : job.unit = u /\ job.old = o /\ cache = k /\ Block(u, o, k)
  BY <1>1, WritingFacts
<1>4. /\ u \in UnitSets /\ [b \in u |-> k[b]] \in [u -> Values]
      /\ k = Overwrite([b \in u |-> k[b]], o)
  BY <1>2, <1>3, BlockFacts
<1>5. Stored = o /\ Unwritten = {[b \in u |-> k[b]]} /\ Powered
  BY <1>1, <1>3, MappedLog
<1>6. \/ pc' \in {"idle", "erase"}
      \/ pc' = "log" /\ \E n, r, p : job' = [addr |-> n, bytes |-> r, part |-> p,
                                              unit |-> job.unit, old |-> job.old]
  <2>1. PICK n, r : /\ n = Taken(job.addr, job.bytes)
                    /\ r = SubSeq(job.bytes, n + 1, Len(job.bytes))
    OBVIOUS
  <2>2. \/ pc' \in {"idle", "erase"}
        \/ pc' = pc /\ job' = [job EXCEPT !.part = @ + 1]
        \/ pc' = pc /\ job' = [job EXCEPT !.addr = @ + n, !.bytes = r, !.part = 0]
    BY <1>2, <2>1 DEF wear_leveling_append_raw, Return
  <2> QED
    BY <1>1, <1>2, <2>2
<1>7. CASE pc' \in {"idle", "erase"}
  <2>1. Stored' = cache' /\ Unwritten' = {} /\ Powered'
    BY <1>7, MappedOther
  <2> QED
    BY <1>1, <1>3, <1>4, <1>5, <2>1, AbstractSteps DEF Simulated
<1>8. CASE pc' = "log" /\ \E n, r, p : job' = [addr |-> n, bytes |-> r, part |-> p,
                                                unit |-> job.unit, old |-> job.old]
  <2>1. job'.unit = u /\ job'.old = o
    BY <1>3, <1>8
  <2>2. Stored' = o /\ Unwritten' = {[b \in u |-> k[b]]} /\ Powered'
    BY <1>1, <1>3, <1>8, <2>1, MappedLog
  <2> QED
    BY <1>5, <2>2, AbstractStutter DEF Simulated
<1> QED
  BY <1>6, <1>7, <1>8

\* A step that keeps the cache, and neither begins nor ends a write or the power.
LEMMA SimulatesQuiet ==
    ASSUME pc \notin {"off", "log"}, pc' \notin {"off", "log"}, cache' = cache
    PROVE  Simulated
<1>1. Stored = cache /\ Unwritten = {} /\ Powered
  BY MappedOther
<1>2. Stored' = cache' /\ Unwritten' = {} /\ Powered'
  BY MappedOther
<1> QED
  BY <1>1, <1>2, AbstractStutter DEF Simulated

LEMMA SimulatesErase ==
    ASSUME Inv, backing_store_erase
    PROVE  Simulated
<1>1. pc \in {"erase", "wipe"}
  BY DEF backing_store_erase
<1>2. step \in 1..build.Pages /\ build.Pages \in Nat
  BY <1>1, ShapeFacts DEF Inv, EraseInv
<1>3. CASE step < build.Pages
  <2>1. step # build.Pages
    BY <1>2, <1>3
  <2>2. pc' = pc /\ cache' = cache
    BY <1>3, <2>1 DEF backing_store_erase
  <2> QED
    BY <1>1, <2>2, SimulatesQuiet
<1>4. CASE step = build.Pages /\ pc = "erase"
  <2>1. pc' = "data" /\ cache' = cache
    BY <1>2, <1>4 DEF backing_store_erase
  <2> QED
    BY <1>1, <2>1, SimulatesQuiet
<1>5. CASE step = build.Pages /\ pc = "wipe"
  <2>1. pc' = "idle" /\ cache' = Erased
    BY <1>2, <1>5 DEF backing_store_erase, Return
  <2>2. Stored = cache /\ Unwritten = {} /\ Powered
    BY <1>1, MappedOther
  <2>3. Stored' = cache' /\ Unwritten' = {} /\ Powered'
    BY <2>1, MappedOther
  <2> QED
    BY <2>1, <2>2, <2>3, AbstractSteps DEF Simulated
<1> QED
  BY <1>1, <1>2, <1>3, <1>4, <1>5

LEMMA SimulatesConsolidation ==
    ASSUME Inv, WriteData \/ WriteHash
    PROVE  Simulated
<1>1. CASE WriteData
  <2>1. pc = "data"
    BY <1>1 DEF WriteData
  <2>2. step \in Addr /\ data[step] = IF step < step THEN cache[step] ELSE 0
    BY <2>1 DEF Inv, DataInv
  <2>3. ~(step < step)
    BY <2>2 DEF Addr
  <2>4. data[step] = 0
    BY <2>2, <2>3
  <2>5. cache' = cache /\ pc' \in {"data", "hash"}
    BY <1>1, <2>1, <2>4 DEF WriteData
  <2> QED
    BY <2>1, <2>5, SimulatesQuiet
<1>2. CASE WriteHash
  <2>1. pc = "hash"
    BY <1>2 DEF WriteHash
  <2>2. hash = NoHash
    BY <2>1 DEF Inv, HashInv
  <2>3. cache' = cache /\ pc' = "idle"
    BY <1>2, <2>2 DEF WriteHash, Consolidated, Return
  <2> QED
    BY <2>1, <2>3, SimulatesQuiet
<1> QED
  BY <1>1, <1>2

LEMMA SimulatesPowerLoss ==
    ASSUME Inv, Atomic(build), PowerLoss
    PROVE  Simulated
<1>1. pc \in build.CutDuring /\ pc' = "off" /\ left' = Playback(Blank).cache
  BY DEF PowerLoss
<1>2. PICK c : /\ Playback(Blank).cache = c
               /\ pc \in {"idle", "wipe"} => c = cache
               /\ pc = "log" /\ Short => c = job.old
               /\ pc = "erase" /\ Short => c = cache
               /\ pc \in {"data", "hash"} => c = Erased
  BY <1>1, CutRecovers
<1>3. Guarded(build) /\ build.CutDuring \subseteq {"idle", "log", "erase", "wipe", "data", "hash"}
  BY ShapeFacts DEF Inv, Shape
<1>4. ASSUME pc \in {"log", "erase"}
      PROVE  Short
  BY <1>1, <1>3, <1>4 DEF Guarded, Atomic, Short
<1>5. Stored' = c /\ Unwritten' = {} /\ ~Powered'
  BY <1>1, <1>2, MappedOff
<1>6. CASE pc = "log"
  <2>1. Stored = job.old /\ Powered
    BY <1>6, MappedLog
  <2>2. c = job.old
    BY <1>2, <1>4, <1>6
  <2> QED
    BY <1>5, <2>1, <2>2, AbstractSteps DEF Simulated
<1>7. CASE pc # "log"
  <2>1. pc \in {"idle", "erase", "wipe", "data", "hash"}
    BY <1>1, <1>3, <1>7
  <2>2. Stored = cache /\ Powered
    BY <2>1, MappedOther
  <2>3. c \in {cache, Erased}
    BY <1>2, <1>4, <2>1
  <2> QED
    BY <1>5, <2>2, <2>3, AbstractSteps DEF Simulated
<1> QED
  BY <1>6, <1>7

LEMMA SimulatesNext ==
    ASSUME Inv, Atomic(build), [Next]_vars
    PROVE  [Abstract!Next]_(Abstract!vars)
<1>1. ASSUME NEW b \in {0, 255}, wear_leveling_init([i \in 1..WriteSize |-> b])
      PROVE  Simulated
  <2>1. PICK junk : junk = [i \in 1..WriteSize |-> b]
    OBVIOUS
  <2>2. wear_leveling_init(junk)
    BY <1>1, <2>1
  <2> QED
    BY <2>2, SimulatesPowerOn
<1>2. ASSUME NEW d \in build.Blocks, NEW a \in 0..LogicalSize - Len(d), wear_leveling_write(a, d)
      PROVE  Simulated
  BY <1>2, SimulatesRequest
<1>3. ASSUME wear_leveling_erase
      PROVE  Simulated
  <2>1. pc = "idle" /\ pc' = "wipe" /\ cache' = cache
    BY <1>3 DEF wear_leveling_erase
  <2> QED
    BY <2>1, SimulatesQuiet
<1>4. ASSUME UNCHANGED vars
      PROVE  Simulated
  <2>1. Stored' = Stored /\ Unwritten' = Unwritten /\ Powered' = Powered
    BY <1>4 DEF vars, Stored, Unwritten, Powered
  <2> QED
    BY <2>1, AbstractStutter DEF Simulated
<1>5. Simulated
  BY <1>1, <1>2, <1>3, <1>4, SimulatesAppend, SimulatesErase, SimulatesConsolidation,
     SimulatesPowerLoss DEF Next
<1> QED
  BY <1>5 DEF Simulated

(***************************************************************************)
(* The driver implements Eeprom: a block is written or it is not, and a    *)
(* loss of power leaves the bytes that were stored or nothing at all.  For *)
(* every store as in WritesBlankAlways whose blocks are short enough for   *)
(* one word of the log, where power may be lost while a block is being     *)
(* written or before the log is erased.                                    *)
(***************************************************************************)
THEOREM Implementation ==
    ASSUME \A b \in Stores : Roomy(b) /\ Guarded(b) /\ Atomic(b)
    PROVE  Spec => ImplementsEeprom
<1>1. Init => Abstract!Init
  BY SimulatesInit
<1>2. Inv /\ [Next]_vars => [Abstract!Next]_(Abstract!vars)
  <2>1. Inv => Atomic(build)
    BY DEF Inv, Shape
  <2> QED
    BY <2>1, SimulatesNext
<1>3. Spec => []Inv
  BY Invariance
<1> QED
  BY <1>1, <1>2, <1>3, PTL DEF Spec, ImplementsEeprom, Abstract!Spec
=============================================================================
