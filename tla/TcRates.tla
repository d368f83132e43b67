------------------------------ MODULE TcRates ------------------------------
(***************************************************************************)
(* The rates of an HTB class and its rate table (tc_htb_opt_parse and      *)
(* qmark_tc_calc_rtable in src/kmod/qos_marktbl_tc.c), as 32 bit           *)
(* arithmetic.  Rules give rates in kbit/s, the kernel counts bytes/s and  *)
(* ticks of 64 ns.                                                         *)
(***************************************************************************)
EXTENDS Naturals

\* (rate * 1000) / 8 in 32 bits: the factor 8 is taken out of the product, so
\* that the intermediate values stay within what TLC computes with.
BytesPerSec(kbit) == (kbit * 125) % 2^29

\* A rate of 0 stands for the smallest, a ceil of 0 for the largest.
HtbRate(kbit) == IF BytesPerSec(kbit) = 0 THEN 125 ELSE BytesPerSec(kbit)
HtbCeil(kbit) == IF BytesPerSec(kbit) = 0 THEN 125000000 ELSE BytesPerSec(kbit)

\* An mtu of 0 is taken for 2047.
Mtu(mtu) == IF mtu = 0 THEN 2047 ELSE mtu

\* Seeded fault: the cells are made for a table of 512 entries.
CellLogHalf(mtu) ==
    CHOOSE c \in 0..32 : /\ Mtu(mtu) \div 2^c <= 511
                         /\ \A b \in 0..(c - 1) : Mtu(mtu) \div 2^b > 511

\* The loop that looks for the size of a table cell.
CellLog(mtu) ==
    CHOOSE c \in 0..32 : /\ Mtu(mtu) \div 2^c <= 255
                         /\ \A b \in 0..(c - 1) : Mtu(mtu) \div 2^b > 255

\* The packet size entry i stands for: the largest of its cell.
CellSize(i, mtu) == (i + 1) * 2^CellLog(mtu)

\* (100 * sz * 15625) / (bps / 10) in 32 bits; 15625 is
\* PSCHED_NS2TICKS(NSEC_PER_MSEC).  The factor 4 of 100 is taken out.
RtabEntry(bps, sz) ==
    LET quarter == (390625 * sz) % 2^30
        d == bps \div 10
    IN  4 * (quarter \div d) + (4 * (quarter % d)) \div d

\* rtab and ctab.
qmark_tc_calc_rtable(bps, mtu) ==
    [i \in 0..255 |-> RtabEntry(bps, CellSize(i, mtu))]

-----------------------------------------------------------------------------

\* What the table is for: the ticks a packet of sz bytes takes at kbit/s.
Ticks(kbit, sz) == (125000 * sz) \div kbit

\* The table covers the device's packets, a larger packet is never charged
\* less, and a packet is charged what it takes at the configured rate: never
\* less, so the rate is not exceeded, and at most 1/24 and 2 ticks more (the
\* division of bps by 10 cuts 12.5 to 12 at 1 kbit/s).
TableTracks(rtab, kbit, mtu) ==
    /\ Mtu(mtu) \div 2^CellLog(mtu) <= 255
    /\ \A i \in 0..255 :
        LET t == Ticks(kbit, CellSize(i, mtu))
        IN  /\ i > 0 => rtab[i - 1] <= rtab[i]
            /\ t <= rtab[i]
            /\ rtab[i] <= t + t \div 24 + 2

=============================================================================
