------------------------------ MODULE MCTcTree ------------------------------
(* The instances of TcTree that TLC explores.                              *)
EXTENDS TcTree, TLC

CONSTANT ifb0    \* the device the scripts name as the WAN device

Par(devid, rate, rate_mate, rate_min, rate_min_mate) ==
    [devid |-> devid, rate |-> rate, rate_mate |-> rate_mate,
     rate_min |-> rate_min, rate_min_mate |-> rate_min_mate]

\* A rule zeroed by memset.
ZeroPar == Par(0, 0, 0, 0, 0)

\* All WANs: the rates that are cut most by the division, and no limits.
AllWan == Par(0, 0, 3, 0, 1)

\* One WAN each: limits in the middle of the range, and RATE_MAX.
Wan1 == Par(1, 1001, 12345, 10, 10)
Wan2 == Par(2, 1000000, 999999, 10, 7)

AllParams == {AllWan, Wan1, Wan2}
Uniform == {<<{AllWan}, {}>>, <<{Wan1, Wan2}, {Wan2}>>}
Mixed == {<<{AllWan}, {Wan1}>>}

Mtus == [d \in Devices |-> IF d = LanDev THEN 1500 ELSE 2047]

\* What is explored on: two rules as long as nothing was lost; lost messages,
\* a missing device and a second WAN device with one rule and one address;
\* overwritten trees during a reset.  A state outside is checked only.
Explored ==
    LET level    == {drift[d] : d \in Devices}
        one_rule == g_ruletbl[2] = ZeroRule
        bound    == Cardinality(Bound)
        all_here == present = Devices
        one_wan  == qmark_wan_dev = ifb0
                    /\ \A d \in WanDevs \ {ifb0} : tc[d] = NoTree /\ d \in present
    IN  \/ /\ clean /\ level = {InStep} /\ all_here /\ one_wan
           /\ one_rule \/ g_ruletbl[2].mode # g_ruletbl[1].mode
        \/ clean /\ level = {InStep} /\ all_here /\ one_rule /\ bound <= 1
        \/ clean /\ Wild \notin level /\ one_wan /\ one_rule /\ bound <= 1
        \/ reset_flag /\ all_here /\ one_wan /\ one_rule /\ bound = 0

\* Addresses are interchangeable.
Symmetry == Permutations(IPs)

=============================================================================
