--------------------------- MODULE TcRatesProofs ---------------------------
(***************************************************************************)
(* Theorems about the arithmetic of TcRates, for every rate that fits the  *)
(* 32 bits of tc_htb_opt_parse and every mtu for which the products of     *)
(* qmark_tc_calc_rtable fit them.                                          *)
(***************************************************************************)
EXTENDS TcRates, Integers, TLAPS

-----------------------------------------------------------------------------
(* Products and quotients.                                                 *)

\* Multiplication keeps the order.
LEMMA TimesMono ==
    ASSUME NEW a \in Int, NEW b \in Int, NEW c \in Int, a <= b, c >= 0
    PROVE  a * c <= b * c
OBVIOUS

\* A quotient is the largest number whose product fits.
LEMMA Quotient ==
    ASSUME NEW a \in Nat, NEW b \in Nat, b > 0
    PROVE  /\ a \div b \in Nat /\ a % b \in Nat
           /\ (a \div b) * b <= a /\ a < (a \div b) * b + b
           /\ a = (a \div b) * b + (a % b) /\ a % b < b
OBVIOUS

\* 4 * q / d, as qmark_tc_calc_rtable's division by d gives it.
Fourfold(q, d) == 4 * (q \div d) + (4 * (q % d)) \div d

LEMMA FourTimes ==
    ASSUME NEW q \in Nat, NEW d \in Nat, d > 0, NEW e, e = Fourfold(q, d)
    PROVE  e \in Nat /\ e * d <= 4 * q /\ 4 * q < (e + 1) * d
<1>1. PICK a, r : a = q \div d /\ r = q % d
  OBVIOUS
<1>2. a \in Nat /\ r \in Nat /\ q = a * d + r
  BY <1>1, Quotient
<1>3. PICK b : b = (4 * r) \div d
  OBVIOUS
<1>4. b \in Nat /\ b * d <= 4 * r /\ 4 * r < b * d + d
  BY <1>2, <1>3, Quotient
<1>5. e = 4 * a + b
  BY <1>1, <1>3 DEF Fourfold
<1>6. e * d = 4 * (a * d) + b * d
  BY <1>2, <1>4, <1>5
<1>. QED  BY <1>2, <1>4, <1>5, <1>6

\* A rate of k kbit/s is 125 * k bytes/s, and d a tenth of that, cut: sz bytes
\* take t ticks at k, and the entry e made with d is not less and hardly more.
LEMMA Charge ==
    ASSUME NEW k \in Nat, k > 0, NEW sz \in Nat,
           NEW d \in Nat, 12 * k <= d, 2 * d <= 25 * k,
           NEW t \in Nat, t * k <= 125000 * sz, 125000 * sz < (t + 1) * k,
           NEW e \in Nat, e * d <= 1562500 * sz, 1562500 * sz < (e + 1) * d
    PROVE  t <= e /\ 24 * e < 25 * (t + 1)
<1>1. ASSUME e < t PROVE FALSE
  <2>1. (e + 1) * d <= t * d
    BY <1>1, TimesMono
  <2>2. (2 * d) * t <= (25 * k) * t
    BY TimesMono
  <2>3. 2 * (t * d) <= 25 * (t * k)
    BY <2>2
  <2>. QED  BY <2>1, <2>3
<1>2. ASSUME 25 * (t + 1) <= 24 * e PROVE FALSE
  <2>1. (25 * (t + 1)) * d <= (24 * e) * d
    BY <1>2, TimesMono
  <2>2. (12 * k) * (t + 1) <= d * (t + 1)
    BY TimesMono
  <2>3. 25 * (12 * ((t + 1) * k)) <= 24 * (e * d)
    BY <2>1, <2>2
  <2>. QED  BY <2>3
<1>. QED  BY <1>1, <1>2

-----------------------------------------------------------------------------
(* The cells of a rate table.                                              *)

\* The powers of two that sizes of cells are.
Pow(c) == 2^c

LEMMA PowIs == Pow(0) = 1 /\ Pow(1) = 2 /\ Pow(2) = 4 /\ Pow(3) = 8
BY SMT DEF Pow

\* The loop that looks for the size of a cell ends after three rounds.
LEMMA CellLogSmall ==
    ASSUME NEW mtu \in Nat, mtu <= 2047
    PROVE  /\ CellLog(mtu) \in {0, 1, 2, 3}
           /\ Mtu(mtu) \div 2^CellLog(mtu) <= 255
<1>. DEFINE Fits(c) == Mtu(mtu) \div Pow(c) <= 255
            Loop(c) == Fits(c) /\ \A b \in 0..(c - 1) : Mtu(mtu) \div Pow(b) > 255
<1>1. CellLog(mtu) = CHOOSE c \in 0..32 : Loop(c)
  BY DEF CellLog, Pow
<1>2. Mtu(mtu) \in Nat /\ Mtu(mtu) <= 2047
  BY DEF Mtu
<1>4. Fits(3)
  <2>1. Mtu(mtu) \div 8 <= 255
    BY <1>2
  <2>. QED  BY <2>1, PowIs
<1>5. \E c \in {0, 1, 2, 3} : Loop(c)
  <2>1. /\ Fits(0) \/ Mtu(mtu) \div Pow(0) > 255
        /\ Fits(1) \/ Mtu(mtu) \div Pow(1) > 255
        /\ Fits(2) \/ Mtu(mtu) \div Pow(2) > 255
    <3>1. \A b \in {1, 2, 4} : Mtu(mtu) \div b \in Int
      BY <1>2
    <3>2. \A b \in {1, 2, 4} : Mtu(mtu) \div b <= 255 \/ Mtu(mtu) \div b > 255
      BY <3>1
    <3>. QED  BY <3>2, PowIs
  <2>. HIDE DEF Fits
  <2>2. CASE Fits(0)
    BY <2>2
  <2>3. CASE ~Fits(0) /\ Fits(1)
    <3>1. \A b \in 0..(1 - 1) : b = 0
      OBVIOUS
    <3>. QED  BY <2>1, <2>3, <3>1
  <2>4. CASE ~Fits(0) /\ ~Fits(1) /\ Fits(2)
    <3>1. \A b \in 0..(2 - 1) : b = 0 \/ b = 1
      OBVIOUS
    <3>. QED  BY <2>1, <2>4, <3>1
  <2>5. CASE ~Fits(0) /\ ~Fits(1) /\ ~Fits(2)
    <3>1. \A b \in 0..(3 - 1) : b = 0 \/ b = 1 \/ b = 2
      OBVIOUS
    <3>. QED  BY <1>4, <2>1, <2>5, <3>1
  <2>. QED  BY <2>2, <2>3, <2>4, <2>5
<1>. DEFINE log == CellLog(mtu)
<1>6. log \in 0..32 /\ Loop(log)
  <2>. HIDE DEF Loop
  <2>1. \E c \in 0..32 : Loop(c)
    BY <1>5
  <2>. QED  BY <1>1, <2>1
<1>7. log \in {0, 1, 2, 3}
  <2>. SUFFICES ASSUME log > 3 PROVE FALSE
    BY <1>6
  <2>1. 3 \in 0..(log - 1)
    BY <1>6
  <2>2. Mtu(mtu) \div Pow(3) > 255
    BY <1>6, <2>1
  <2>3. Mtu(mtu) \div 8 > 255
    BY <2>2, PowIs
  <2>. QED  BY <1>2, <2>3
<1>. QED  BY <1>6, <1>7 DEF Pow

\* The packet sizes the entries stand for grow, up to 2048.
LEMMA CellSizes ==
    ASSUME NEW mtu \in Nat, mtu <= 2047, NEW i \in Int, 0 <= i, i <= 255
    PROVE  /\ CellSize(i, mtu) \in Nat /\ CellSize(i, mtu) <= 2048
           /\ CellSize(i - 1, mtu) <= CellSize(i, mtu)
<1>1. PICK w \in Nat : w = Pow(CellLog(mtu)) /\ w <= 8
  BY CellLogSmall, PowIs
<1>2. CellSize(i, mtu) = (i + 1) * w /\ CellSize(i - 1, mtu) = (i - 1 + 1) * w
  BY <1>1 DEF CellSize, Pow
<1>3. (i + 1) * w <= (i + 1) * 8
  BY <1>1
<1>. QED  BY <1>1, <1>2, <1>3

-----------------------------------------------------------------------------
(* The entries.                                                            *)

\* No product of an entry is cut to 32 bits.
LEMMA EntryIs ==
    ASSUME NEW k \in Nat, k > 0, NEW sz \in Nat, sz <= 2048, NEW e, e = RtabEntry(125 * k, sz),
           NEW d, d = (125 * k) \div 10
    PROVE  /\ e \in Nat /\ d \in Nat
           /\ 12 * k <= d /\ 2 * d <= 25 * k
           /\ e * d <= 1562500 * sz /\ 1562500 * sz < (e + 1) * d
<1>1. d \in Nat /\ 12 * k <= d /\ 2 * d <= 25 * k
  OBVIOUS
<1>2. 2^30 = 1073741824
  BY SMT
<1>3. PICK q : q = 390625 * sz
  OBVIOUS
<1>4. q \in Nat /\ q < 1073741824
  BY <1>3
<1>5. q % 1073741824 = q
  BY <1>4
<1>6. e = Fourfold(q, d)
  BY <1>2, <1>3, <1>5 DEF RtabEntry, Fourfold
<1>7. e \in Nat /\ e * d <= 4 * q /\ 4 * q < (e + 1) * d
  <2>1. d \in Nat /\ d > 0
    BY <1>1
  <2>. QED  BY <1>4, <1>6, <2>1, FourTimes
<1>. QED  BY <1>1, <1>3, <1>7

\* The rate table of 125 * k bytes/s keeps a class to k kbit/s: it covers the
\* device's packets, grows with their size, and charges a packet what it takes
\* and at most a 24th and two ticks more.
THEOREM TableTracksKbit ==
    ASSUME NEW k \in Nat, k > 0, NEW mtu \in Nat, mtu <= 2047
    PROVE  TableTracks(qmark_tc_calc_rtable(125 * k, mtu), k, mtu)
<1>. DEFINE rtab == qmark_tc_calc_rtable(125 * k, mtu)
<1>1. \A i \in 0..255 : rtab[i] = RtabEntry(125 * k, CellSize(i, mtu))
  BY DEF qmark_tc_calc_rtable
<1>. HIDE DEF rtab
<1>2. PICK d : d = (125 * k) \div 10
  OBVIOUS
<1>3. ASSUME NEW i \in 0..255
      PROVE  /\ i > 0 => rtab[i - 1] <= rtab[i]
             /\ Ticks(k, CellSize(i, mtu)) <= rtab[i]
             /\ rtab[i] <= Ticks(k, CellSize(i, mtu)) + Ticks(k, CellSize(i, mtu)) \div 24 + 2
  <2>1. PICK sz : sz = CellSize(i, mtu)
    OBVIOUS
  <2>2. PICK e : e = rtab[i]
    OBVIOUS
  <2>3. sz \in Nat /\ sz <= 2048 /\ (i > 0 => CellSize(i - 1, mtu) <= sz)
    BY <2>1, CellSizes
  <2>4. /\ e \in Nat /\ d \in Nat /\ 12 * k <= d /\ 2 * d <= 25 * k
        /\ e * d <= 1562500 * sz /\ 1562500 * sz < (e + 1) * d
    BY <1>1, <1>2, <2>1, <2>2, <2>3, EntryIs
  <2>5. PICK t : t = Ticks(k, sz)
    OBVIOUS
  <2>6. t \in Nat /\ t * k <= 125000 * sz /\ 125000 * sz < (t + 1) * k
    <3>1. PICK a \in Nat : a = 125000 * sz
      BY <2>3
    <3>2. t = a \div k
      BY <2>5, <3>1 DEF Ticks
    <3>3. t \in Nat /\ t * k <= a /\ a < t * k + k
      BY <3>1, <3>2, Quotient
    <3>. QED  BY <3>1, <3>3
  <2>7. t <= e /\ 24 * e < 25 * (t + 1)
    BY <2>3, <2>4, <2>6, Charge
  <2>8. e <= t + t \div 24 + 2
    BY <2>4, <2>6, <2>7
  <2>9. i > 0 => rtab[i - 1] <= e
    <3>. SUFFICES ASSUME i > 0 PROVE rtab[i - 1] <= e
      OBVIOUS
    <3>1. i - 1 \in 0..255
      OBVIOUS
    <3>2. PICK f, s : f = rtab[i - 1] /\ s = CellSize(i - 1, mtu)
      OBVIOUS
    <3>3. s \in Nat /\ s <= sz /\ s <= 2048
      BY <2>3, <3>1, <3>2, CellSizes
    <3>4. f \in Nat /\ f * d <= 1562500 * s
      BY <1>1, <1>2, <3>1, <3>2, <3>3, EntryIs
    <3>5. ASSUME e + 1 <= f PROVE FALSE
      <4>1. (e + 1) * d <= f * d
        BY <2>4, <3>4, <3>5, TimesMono
      <4>. QED  BY <2>3, <2>4, <3>3, <3>4, <4>1
    <3>. QED  BY <2>4, <3>2, <3>4, <3>5
  <2>. QED  BY <2>1, <2>2, <2>5, <2>7, <2>8, <2>9
<1>4. Mtu(mtu) \div 2^CellLog(mtu) <= 255
  BY CellLogSmall
<1>5. TableTracks(rtab, k, mtu)
  BY <1>3, <1>4 DEF TableTracks
<1>. QED  BY <1>5 DEF rtab

\* The bytes/s of a rule's rates, 0 standing for the smallest or the largest.
LEMMA RateIs ==
    ASSUME NEW k \in Nat, k <= 4294967
    PROVE  /\ HtbRate(k) = 125 * (IF k = 0 THEN 1 ELSE k)
           /\ HtbCeil(k) = 125 * (IF k = 0 THEN 1000000 ELSE k)
<1>1. 2^29 = 536870912
  BY SMT
<1>2. PICK b \in Nat : b = k * 125 /\ b < 536870912
  OBVIOUS
<1>3. b % 536870912 = b
  BY <1>2
<1>4. BytesPerSec(k) = b
  BY <1>1, <1>2, <1>3 DEF BytesPerSec
<1>. QED  BY <1>2, <1>4 DEF HtbRate, HtbCeil

\* So does the table of every rate and of every ceil that tc_htb_opt_parse
\* makes of a rule, from 0 up to what fits its 32 bits.
THEOREM RuleRatesTracked ==
    ASSUME NEW k \in Nat, k <= 4294967, NEW mtu \in Nat, mtu <= 2047
    PROVE  /\ TableTracks(qmark_tc_calc_rtable(HtbRate(k), mtu), IF k = 0 THEN 1 ELSE k, mtu)
           /\ TableTracks(qmark_tc_calc_rtable(HtbCeil(k), mtu),
                          IF k = 0 THEN 1000000 ELSE k, mtu)
<1>1. PICK min, max : /\ min = (IF k = 0 THEN 1 ELSE k)
                      /\ max = (IF k = 0 THEN 1000000 ELSE k)
  OBVIOUS
<1>2. HtbRate(k) = 125 * min /\ HtbCeil(k) = 125 * max
  BY <1>1, RateIs
<1>3. min \in Nat /\ min > 0 /\ max \in Nat /\ max > 0
  BY <1>1
<1>4. /\ TableTracks(qmark_tc_calc_rtable(125 * min, mtu), min, mtu)
      /\ TableTracks(qmark_tc_calc_rtable(125 * max, mtu), max, mtu)
  BY <1>3, TableTracksKbit
<1>. QED  BY <1>1, <1>2, <1>4

=============================================================================
