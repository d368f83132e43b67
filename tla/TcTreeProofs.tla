---------------------------- MODULE TcTreeProofs ----------------------------
(***************************************************************************)
(* Theorems about TcTree, for every set of addresses and devices, number   *)
(* of rules and interfaces, and size of the table.                         *)
(***************************************************************************)
EXTENDS TcTree, QMarkTableProofs, TcRatesProofs

-----------------------------------------------------------------------------
(* The steps of TcTree are steps of the table.                             *)

\* Softirqs and commands never stop the kernel here, and what changes the
\* table is one of its own operations.
LEMMA TreeTableStep ==
    ASSUME TypeOK, ~panic, profile \in Profiles, [TreeNext]_treeVars
    PROVE  [Next]_vars /\ ~panic'
<1>1. CASE Softirq
  <2>1. CASE Conntrack
    <3>1. ~panic'
      BY <2>1 DEF Conntrack, ConntrackMark, ConntrackDestroy, PutEntry
    <3>. QED  BY <2>1, <3>1 DEF Next
  <2>2. ASSUME NEW ip \in IPs, NEW id \in Known,
               qmark_alloc_mark_auto(ip, id) \/ AllocMarkAutoFails(ip, id)
        PROVE  [Next]_vars /\ ~panic'
    <3>1. id \in RuleIds
      BY DEF Known
    <3>2. UNCHANGED panic
      BY <2>2 DEF qmark_alloc_mark_auto, AllocMarkAutoFails
    <3>. QED  BY <2>2, <3>1, <3>2 DEF Next, Packet
  <2>. QED  BY <1>1, <2>1, <2>2 DEF Softirq
<1>2. CASE Command
  <2>1. ASSUME NEW id \in RuleIds, NEW mode \in {PRIV_MODE, SHARE_MODE},
               NEW par \in Params, qmark_add_rule(id, mode, par)
        PROVE  RuleCommand /\ ~panic'
    BY <2>1 DEF RuleCommand, qmark_add_rule
  <2>2. ASSUME NEW id \in RuleIds, qmark_del_rule(id) PROVE RuleCommand /\ ~panic'
    BY <2>2 DEF RuleCommand, qmark_del_rule
  <2>3. ASSUME qmark_flush_rule PROVE RuleCommand /\ ~panic'
    BY <2>3 DEF RuleCommand, qmark_flush_rule
  <2>4. ASSUME NEW ip \in IPs, qmark_del_hash(ip) PROVE HashCommand /\ ~panic'
    BY <2>4 DEF HashCommand, qmark_del_hash, PutEntry
  <2>5. ASSUME qmark_flush_hash PROVE HashCommand /\ ~panic'
    BY <2>5 DEF HashCommand, qmark_flush_hash
  <2>6. ASSUME NEW ip_spec \in IpSpecs, qmark_set_spec(ip_spec)
        PROVE  TableCommand /\ ~panic'
    BY <2>6 DEF TableCommand, qmark_set_spec
  <2>7. (RuleCommand \/ HashCommand \/ TableCommand) /\ ~panic'
    BY <1>2, <2>1, <2>2, <2>3, <2>4, <2>5, <2>6 DEF Command
  <2>. QED  BY <2>7 DEF Next
<1>3. CASE DebugTc
  BY <1>3 DEF DebugTc, Next, TableCommand, TcCommand
<1>4. CASE ResetStep
  BY <1>4 DEF ResetStep, Next, TableCommand, ResetBegin, ResetFlush, ResetEnd
<1>5. CASE UNCHANGED table
  BY <1>5 DEF table, vars
<1>. QED
  BY <1>1, <1>2, <1>3, <1>4, <1>5
     DEF TreeNext, treeVars, NetdevSet, Unregister, Register, qos_tc_destroy, qos_tc_init

-----------------------------------------------------------------------------
(* Type correctness: what each message makes of a tree.                    *)

\* A tree as the kernel may hold it.
Grown(t) == t \in Trees /\ t.leaves \subseteq Ids(t)

\* A call the module makes.
Call(call) ==
    /\ call.par \in Params \union {NoPar}
    /\ \E n \in IpSpecs : call.mark \in 0..n

\* The ids of classes.
LEMMA ClassIdsAre == \A i \in Int : i >= 1 /\ i <= 65535 => i \in ClassIds
<1>1. LastClassId \in Int /\ LastClassId >= 65535
  BY DEF LastClassId
<1>. QED  BY <1>1 DEF ClassIds

\* Interface v of w and mark m of n, as numbers.
LEMMA BlockFits ==
    ASSUME NEW w \in Nat, NEW n \in Nat, (w + 1) * 4096 + n <= 65535,
           NEW v \in 0..w, NEW m \in 0..n
    PROVE  /\ v + 1 >= 1 /\ v + 1 <= 65535
           /\ m + 1 >= 1 /\ m + 1 <= 65535
           /\ (v + 1) * 4096 + m >= 1 /\ (v + 1) * 4096 + m <= 65535
OBVIOUS

\* Class ids fit 16 bits, and 0 is none.
LEMMA ClassIdFits ==
    ASSUME NEW call, Call(call)
    PROVE  /\ ClassId(call.par, call.mark) \in ClassIds
           /\ ParentId(call.par) \in ClassIds
           /\ call.mark \in Nat
<1>1. PICK n \in IpSpecs : call.mark \in 0..n
  BY DEF Call
<1>2. n \in Nat /\ (WanIfs + 1) * 4096 + n <= 65535 /\ WanIfs \in Nat
  BY SpecAssumption, TreeAssumption
<1>3. call.par.devid \in 0..WanIfs
  BY TreeAssumption DEF Call
<1>4. PICK v, m : v = call.par.devid /\ m = call.mark
  OBVIOUS
<1>5. v \in Nat /\ m \in Nat /\ m + 1 \in ClassIds /\ v + 1 \in ClassIds
      /\ (v + 1) * 4096 + m \in ClassIds
  <2>1. v \in 0..WanIfs /\ m \in 0..n
    BY <1>1, <1>3, <1>4
  <2>2. /\ v + 1 >= 1 /\ v + 1 <= 65535
        /\ m + 1 >= 1 /\ m + 1 <= 65535
        /\ (v + 1) * 4096 + m >= 1 /\ (v + 1) * 4096 + m <= 65535
    BY <1>2, <2>1, BlockFits
  <2>3. v \in Nat /\ m \in Nat
    BY <1>2, <2>1
  <2>. QED  BY <2>2, <2>3, ClassIdsAre
<1>6. 1 \in ClassIds
  BY ClassIdsAre
<1>. QED  BY <1>4, <1>5, <1>6 DEF ClassId, ParentId

\* The rates of a class are natural numbers.
LEMMA RatesType ==
    ASSUME NEW par \in Params \union {NoPar}, NEW d
    PROVE  Rates(par, d) \in RatePairs
<1>1. 2^29 = 536870912
  BY SMT
<1>2. \A k \in Nat : HtbRate(k) \in Nat /\ HtbCeil(k) \in Nat
  BY <1>1 DEF HtbRate, HtbCeil, BytesPerSec
<1>3. /\ par.rate \in Nat /\ par.rate_mate \in Nat
      /\ par.rate_min \in Nat /\ par.rate_min_mate \in Nat
  BY TreeAssumption
<1>. QED  BY <1>2, <1>3 DEF Rates, RatePairs

\* So are the classes that tc.sh makes.
LEMMA BaseType == \A root : Base(root) \in SUBSET HtbClasses \/ root \notin Roots
<1>1. PICK n \in IpSpecs : n \in Nat /\ (WanIfs + 1) * 4096 + n <= 65535 /\ WanIfs \in Nat
  BY SpecAssumption, TreeAssumption
<1>2. [rate |-> 0, ceil |-> 0] \in RatePairs
  BY DEF RatePairs
<1>3. 1 \in ClassIds
  BY ClassIdsAre
<1>4. BaseClass(1, 0) \in HtbClasses
  BY <1>2, <1>3 DEF BaseClass, HtbClasses
<1>5. ASSUME NEW i \in 1..WanIfs PROVE BaseClass(i + 1, 1) \in HtbClasses
  <2>1. i \in 0..WanIfs /\ 0 \in 0..n /\ i + 1 \in Int
    BY <1>1
  <2>2. i + 1 >= 1 /\ i + 1 <= 65535
    BY <1>1, <2>1, BlockFits
  <2>3. i + 1 \in ClassIds
    BY <2>1, <2>2, ClassIdsAre
  <2>. QED  BY <1>2, <1>3, <2>3 DEF BaseClass, HtbClasses
<1>6. {BaseClass(i + 1, 1) : i \in 1..WanIfs} \subseteq HtbClasses
  BY <1>5
<1>. QED  BY <1>4, <1>6 DEF Base, Roots

LEMMA NewClassType ==
    ASSUME NEW t, Grown(t), NEW id \in ClassIds, NEW parent \in ClassIds,
           NEW rates \in RatePairs
    PROVE  Grown(NewClass(t, id, parent, rates))
<1>. DEFINE c == [id |-> id, rates |-> rates,
                  parent |-> IF parent \in Ids(t) THEN parent ELSE 0]
            s == [t EXCEPT !.classes = @ \union {c}, !.leaves = @ \ {parent}]
<1>1. c \in HtbClasses
  BY DEF HtbClasses
<1>2. s \in Trees /\ s.classes = t.classes \union {c} /\ s.leaves \subseteq t.leaves
  BY <1>1 DEF Grown, Trees
<1>3. Grown(s)
  BY <1>2 DEF Grown, Ids
<1>. QED  BY <1>3 DEF NewClass

LEMMA DelClassType ==
    ASSUME NEW t, Grown(t), NEW id
    PROVE  Grown(DelClass(t, id))
<1>. DEFINE s == [t EXCEPT !.classes = {c \in @ : c.id # id}, !.leaves = @ \ {id}]
<1>1. /\ s \in Trees /\ s.classes = {c \in t.classes : c.id # id}
      /\ s.leaves = t.leaves \ {id}
  BY DEF Grown, Trees
<1>2. Grown(s)
  BY <1>1 DEF Grown, Ids
<1>. QED  BY <1>2 DEF DelClass

LEMMA NewLeafType ==
    ASSUME NEW t, Grown(t), NEW id \in ClassIds
    PROVE  Grown(NewLeaf(t, id))
BY DEF NewLeaf, Grown, Trees, Ids

LEMMA NewFilterType ==
    ASSUME NEW t, Grown(t), NEW m \in Nat, NEW id \in ClassIds
    PROVE  Grown(NewFilter(t, m, id))
<1>. DEFINE f == [mark |-> m, cid |-> id, held |-> id \in Ids(t)]
            s == [t EXCEPT !.filters = @ \union {f}]
<1>1. f \in FwFilters
  BY DEF FwFilters
<1>2. s \in Trees /\ s.classes = t.classes /\ s.leaves = t.leaves
  BY <1>1 DEF Grown, Trees
<1>3. Grown(s)
  BY <1>2 DEF Grown, Ids
<1>. QED  BY <1>3 DEF NewFilter

LEMMA DelFilterType ==
    ASSUME NEW t, Grown(t), NEW m
    PROVE  Grown(DelFilter(t, m))
BY DEF DelFilter, Grown, Trees, Ids

\* Whatever of a call's messages goes out, the kernel has a tree after it.
LEMMA CallType ==
    ASSUME NEW t, Grown(t), NEW d, NEW call, Call(call), NEW sent
    PROVE  /\ Grown(qmark_tc_add_rule(t, d, call, sent))
           /\ Grown(qmark_tc_del_rule(t, d, call, sent))
<1>1. /\ ClassId(call.par, call.mark) \in ClassIds
      /\ ParentId(call.par) \in ClassIds
      /\ call.mark \in Nat
      /\ Rates(call.par, d) \in RatePairs
  BY ClassIdFits, RatesType DEF Call
<1>2. ASSUME NEW s, Grown(s)
      PROVE  /\ Grown(tc_htb_class_modify("new", s, d, call, sent))
             /\ Grown(tc_htb_class_modify("del", s, d, call, sent))
             /\ Grown(tc_pfifo_qdisc_modify(s, call, sent))
             /\ Grown(tc_fw_filter_modify("new", s, call, sent))
             /\ Grown(tc_fw_filter_modify("del", s, call, sent))
  BY <1>1, <1>2, NewClassType, DelClassType, NewLeafType, NewFilterType, DelFilterType
     DEF tc_htb_class_modify, tc_pfifo_qdisc_modify, tc_fw_filter_modify, qmark_tc_rtnl_talk
<1>3. Grown(qmark_tc_add_rule(t, d, call, sent))
  BY <1>2 DEF qmark_tc_add_rule
<1>4. Grown(qmark_tc_del_rule(t, d, call, sent))
  BY <1>2 DEF qmark_tc_del_rule
<1>. QED  BY <1>3, <1>4

\* The calls softirqs and the debug ioctls make are calls with a mark of the
\* pool and the parameters of a rule.
LEMMA CallTyped ==
    ASSUME TypeOK, Softirq \/ DebugTc
    PROVE  /\ tcCall'.op \in {"none", "add", "del"}
           /\ tcCall'.op # "none" => Call(tcCall')
<1>1. /\ max_ip_cnt \in IpSpecs /\ max_ip_cnt \in Nat \ {0}
      /\ \A id \in RuleIds : g_ruletbl[id].par \in Params \union {NoPar}
      /\ 1 \in RuleIds
  BY SpecAssumption DEF TypeOK, RuleIds
<1>2. NoCall.op = "none"
  BY DEF NoCall
<1>3. ASSUME NEW id \in RuleIds, NEW m \in 0..max_ip_cnt
      PROVE  /\ TcAdd(id, m).op = "add" /\ Call(TcAdd(id, m))
             /\ TcDel(id, m).op = "del" /\ Call(TcDel(id, m))
  BY <1>1 DEF TcAdd, TcDel, Call
<1>4. ASSUME NEW ip \in IPs, NEW id \in Known, qmark_alloc_mark_auto(ip, id)
      PROVE  tcCall'.op = "add" /\ Call(tcCall')
  <2>1. PICK m \in MarkFor(id) : tcCall' = TcAdd(id, m)
    BY <1>4 DEF qmark_alloc_mark_auto
  <2>2. id \in RuleIds
    BY DEF Known
  <2>3. m \in 0..max_ip_cnt
    BY <2>2, MarkForType
  <2>. QED  BY <1>3, <2>1, <2>2, <2>3
<1>5. ASSUME NEW ip \in IPs, ConntrackDestroy(ip)
      PROVE  tcCall' = NoCall \/ (tcCall'.op = "del" /\ Call(tcCall'))
  <2>1. /\ ip \in Bound
        /\ tcCall' \in {NoCall, TcDel(marktbl[ip].id, marktbl[ip].mark)}
    BY <1>5 DEF ConntrackDestroy, PutEntry
  <2>2. marktbl[ip].id \in RuleIds /\ marktbl[ip].mark \in 0..max_ip_cnt
    BY <2>1 DEF Bound, TypeOK, NoEntry
  <2>. QED  BY <1>3, <2>1, <2>2
<1>6. ASSUME NEW ip \in IPs, ConntrackMark(ip) PROVE tcCall' = NoCall
  BY <1>6 DEF ConntrackMark
<1>7. ASSUME NEW ip, NEW id, AllocMarkAutoFails(ip, id) PROVE tcCall' = NoCall
  BY <1>7 DEF AllocMarkAutoFails
<1>8. CASE DebugTc
  <2>1. tcCall' \in {TcAdd(1, 1), TcDel(1, 1)} /\ 1 \in 0..max_ip_cnt
    BY <1>1, <1>8 DEF DebugTc, TcCommand
  <2>. QED  BY <1>1, <1>3, <2>1
<1>9. CASE Softirq
  BY <1>2, <1>4, <1>5, <1>6, <1>7, <1>9 DEF Softirq, Conntrack
<1>. QED  BY <1>8, <1>9

\* So every device has a tree after a call, whatever was sent.
LEMMA SentType ==
    ASSUME TreeTypeOK, NEW call, call.op \in {"none", "add", "del"},
           call.op # "none" => Call(call), NEW sent
    PROVE  /\ Sent(call, sent) \in [Devices -> Trees]
           /\ \A d \in Devices : Grown(Sent(call, sent)[d])
<1>1. ASSUME NEW d \in Devices PROVE Grown(Sent(call, sent)[d])
  <2>1. Grown(tc[d])
    BY DEF TreeTypeOK, Grown
  <2>2. CASE d \notin Reached \/ call.op = "none"
    BY <2>1, <2>2 DEF Sent
  <2>3. CASE d \in Reached /\ call.op = "add"
    BY <2>1, <2>3, CallType DEF Sent
  <2>4. CASE d \in Reached /\ call.op = "del"
    BY <2>1, <2>4, CallType DEF Sent
  <2>. QED  BY <2>2, <2>3, <2>4
<1>. QED  BY <1>1 DEF Sent, Grown

\* How far a tree may be off stays one of the three levels.
LEMMA WorseType ==
    ASSUME TreeTypeOK, NEW level \in [Devices -> {InStep, Missed, Wild}]
    PROVE  /\ Worse(level) \in [Devices -> {InStep, Missed, Wild}]
           /\ \A d \in Devices :
                /\ Worse(level)[d] >= drift[d] /\ Worse(level)[d] >= level[d]
                /\ Worse(level)[d] \in {drift[d], level[d]}
<1>1. drift \in [Devices -> {0, 1, 2}] /\ level \in [Devices -> {0, 1, 2}]
  BY DEF TreeTypeOK, InStep, Missed, Wild
<1>. QED  BY <1>1 DEF Worse, InStep, Missed, Wild

\* The types of what TcTree adds to the table.
TreeTypes ==
    /\ profile \in Profiles
    /\ qmark_wan_dev \in WanDevs
    /\ present \subseteq Devices
    /\ tc \in [Devices -> Trees]
    /\ \A d \in Devices : Grown(tc[d])
    /\ script \in {"idle", "flush", "destroy", "init", "end"}
    /\ drift \in [Devices -> {InStep, Missed, Wild}]

LEMMA TreeTypesAre == TreeTypeOK <=> TypeOK /\ TreeTypes
BY DEF TreeTypeOK, TreeTypes, Grown

\* A device without a tree, and one with what tc.sh built.
LEMMA BareType ==
    /\ Grown(NoTree)
    /\ \A root \in Roots : Grown([NoTree EXCEPT !.root = root, !.classes = Base(root)])
<1>1. NoTree \in Trees /\ NoTree.leaves = {}
  BY DEF NoTree, Trees, Roots
<1>2. ASSUME NEW root \in Roots
      PROVE  [NoTree EXCEPT !.root = root, !.classes = Base(root)] \in Trees
  BY <1>1, BaseType DEF Trees
<1>3. ASSUME NEW root \in Roots
      PROVE  [NoTree EXCEPT !.root = root, !.classes = Base(root)].leaves = {}
  BY <1>1 DEF Trees
<1>. QED  BY <1>1, <1>2, <1>3 DEF Grown

LEMMA TreeTypeInit == TreeInit => TreeTypes
<1>. SUFFICES ASSUME TreeInit PROVE TreeTypes
  OBVIOUS
<1>1. /\ tc \in [Devices -> Trees]
      /\ \A d \in Devices : tc[d] = NoTree
  BY BareType DEF TreeInit, Grown
<1>. QED  BY <1>1, BareType DEF TreeInit, TreeTypes

LEMMA TreeTypeStep == TreeTypeOK /\ [TreeNext]_treeVars => TreeTypes'
<1>. SUFFICES ASSUME TreeTypeOK, [TreeNext]_treeVars PROVE TreeTypes'
  OBVIOUS
<1>1. TypeOK /\ TreeTypes
  BY TreeTypesAre
<1>. DEFINE Levels == {InStep, Missed, Wild}
<1>2. CASE Softirq
  <2>1. PICK talk \in {Messages, {}} :
          /\ tc' = Sent(tcCall', talk)
          /\ \E told : drift' = Worse([d \in Devices |->
                IF tcCall'.op # "none" /\ d \in Targets \ told THEN Missed ELSE InStep])
          /\ UNCHANGED <<profile, qmark_wan_dev, present, script>>
    BY <1>2 DEF Softirq
  <2>2. tc' \in [Devices -> Trees] /\ \A d \in Devices : Grown(tc'[d])
    BY <1>1, <1>2, <2>1, CallTyped, SentType
  <2>3. drift' \in [Devices -> Levels]
    BY <2>1, WorseType
  <2>. QED  BY <1>1, <2>1, <2>2, <2>3 DEF TreeTypes
<1>3. CASE Command
  <2>1. /\ \E Wilder, Lost : drift' = Worse([d \in Devices |->
                IF Wilder THEN Wild ELSE IF Lost THEN Missed ELSE InStep])
        /\ UNCHANGED <<profile, qmark_wan_dev, present, tc, script>>
    BY <1>3 DEF Command
  <2>2. drift' \in [Devices -> Levels]
    BY <2>1, WorseType
  <2>. QED  BY <1>1, <2>1, <2>2 DEF TreeTypes
<1>4. CASE DebugTc
  <2>1. PICK talk \in SUBSET Messages : tc' = Sent(tcCall', talk)
    BY <1>4 DEF DebugTc
  <2>2. tc' \in [Devices -> Trees] /\ \A d \in Devices : Grown(tc'[d])
    BY <1>1, <1>4, <2>1, CallTyped, SentType
  <2>. QED  BY <1>1, <1>4, <2>2 DEF TreeTypes, DebugTc
<1>5. ASSUME NEW wan \in WanDevs, NetdevSet(wan) PROVE TreeTypes'
  <2>1. drift' \in [Devices -> Levels]
    BY <1>5, WorseType DEF NetdevSet
  <2>. QED  BY <1>1, <1>5, <2>1 DEF TreeTypes, NetdevSet
<1>6. ASSUME NEW d \in Devices, Unregister(d) PROVE TreeTypes'
  <2>1. tc' \in [Devices -> Trees] /\ \A e \in Devices : Grown(tc'[e])
    BY <1>1, <1>6, BareType DEF TreeTypes, Unregister, Grown
  <2>. QED  BY <1>1, <1>6, <2>1 DEF TreeTypes, Unregister
<1>7. ASSUME NEW d \in Devices, Register(d) PROVE TreeTypes'
  BY <1>1, <1>7 DEF TreeTypes, Register
<1>8. CASE ResetStep
  <2>1. /\ drift' \in [Devices -> Levels]
        /\ script' \in {"idle", "flush", "destroy"}
    BY <1>8, WorseType DEF ResetStep
  <2>. QED  BY <1>1, <1>8, <2>1 DEF TreeTypes, ResetStep
<1>9. CASE qos_tc_destroy
  <2>1. tc' \in [Devices -> Trees] /\ \A d \in Devices : Grown(tc'[d])
    BY <1>9, BareType DEF qos_tc_destroy, Grown
  <2>. QED  BY <1>1, <1>9, <2>1 DEF TreeTypes, qos_tc_destroy
<1>10. CASE qos_tc_init
  <2>1. /\ script' \in {"idle", "end"}
        /\ UNCHANGED <<profile, qmark_wan_dev, present, drift>>
        /\ \/ UNCHANGED tc
           \/ \E root \in Roots :
                tc' = [d \in Devices |->
                         IF d \in Targets \intersect present
                         THEN [NoTree EXCEPT !.root = root, !.classes = Base(root)]
                         ELSE tc[d]]
    BY <1>10 DEF qos_tc_init, Roots
  <2>2. tc' \in [Devices -> Trees] /\ \A d \in Devices : Grown(tc'[d])
    BY <1>1, <2>1, BareType DEF TreeTypes, Grown
  <2>. QED  BY <1>1, <2>1, <2>2 DEF TreeTypes
<1>11. CASE UNCHANGED treeVars
  BY <1>1, <1>11 DEF TreeTypes, treeVars
<1>. QED
  BY <1>2, <1>3, <1>4, <1>5, <1>6, <1>7, <1>8, <1>9, <1>10, <1>11 DEF TreeNext

\* The kernel runs: nothing here stops it.
Running == ~panic /\ profile \in Profiles

\* The modules' and the scripts' steps use the table only by its own
\* operations: what is proved of the table holds while the trees follow it.
THEOREM TreeImplementsTable == TreeSpec => Spec
<1>1. TreeInit => Init /\ Running
  BY DEF TreeInit, Init, Running
<1>2. TypeInv /\ Running /\ [TreeNext]_treeVars => [Next]_vars /\ Running'
  <2>. SUFFICES ASSUME TypeInv, Running, [TreeNext]_treeVars
                PROVE  [Next]_vars /\ Running'
    OBVIOUS
  <2>1. UNCHANGED profile
    BY DEF TreeNext, treeVars, Softirq, Command, DebugTc, NetdevSet, Unregister,
           Register, ResetStep, qos_tc_destroy, qos_tc_init
  <2>. QED  BY <2>1, TreeTableStep DEF Running, TypeInv
<1>. QED  BY <1>1, <1>2, TypeInit, TypeStep, PTL DEF TreeSpec, Spec

\* The trees keep their types under lost messages, overwriting commands and
\* devices that come and go: no class has an id that does not fit 16 bits,
\* the block of ids of the last interface included.
THEOREM TreeTypeCorrect == TreeSpec => []TreeTypeOK
<1>1. TypeOK /\ TreeTypes <=> TreeTypeOK
  BY TreeTypesAre
<1>2. TreeTypeOK /\ [TreeNext]_treeVars => TreeTypes'
  BY TreeTypeStep
<1>. QED  BY <1>1, <1>2, TreeTypeInit, TreeImplementsTable, TypeCorrect, PTL DEF TreeSpec

-----------------------------------------------------------------------------
(* The inductive invariant.  The administrator's rules are of one kind,    *)
(* all for all WANs or each for one WAN: with both kinds class ids clash   *)
(* (the run tc_clash).                                                     *)

OneKind ==
    \A pr \in Profiles :
        \/ \A id \in RuleIds : \A par \in pr[id] : par.devid = 0
        \/ \A id \in RuleIds : \A par \in pr[id] : par.devid # 0

\* The parameters rules may have, the shape of the trees they get, and the
\* marks that fit a block of class ids.
Pars == UNION {profile[id] : id \in RuleIds}
RootOf == IF \E par \in Pars : par.devid = 0 THEN "all" ELSE "ifaces"
Marks == {m \in Nat : 1 <= m /\ m <= 4096}

\* Of any tree nobody overwrote, whatever messages were lost: it has what tc.sh
\* built, classes the module made for one mark each, and filters, one per mark,
\* that lead to the class of their mark.
OwnTree(t) ==
    /\ t.root = "none" => t.classes = {} /\ t.filters = {}
    /\ t.root # "none" => t.root = RootOf
    /\ Base(t.root) \subseteq t.classes
    /\ \A c \in t.classes \ Base(t.root) :
          \E par \in Pars, m \in Marks : c.id = ClassId(par, m) /\ c.parent = ParentId(par)
    /\ \A f \in t.filters :
          /\ f.mark \in Marks /\ f.held /\ f.cid \in Ids(t)
          /\ \E par \in Pars : f.cid = ClassId(par, f.mark)
    /\ \A f, g \in t.filters : f.mark = g.mark => f = g

\* The marks in use with the parameters of their rule, and the tree that has a
\* class, a queue and a filter for each of them.
InUse == {[mark |-> marktbl[ip].mark, par |-> g_ruletbl[marktbl[ip].id].par] :
          ip \in Bound}
UseClass(u, d) == [id |-> ClassId(u.par, u.mark), parent |-> ParentId(u.par),
                   rates |-> Rates(u.par, d)]
UseFilter(u) == [mark |-> u.mark, cid |-> ClassId(u.par, u.mark), held |-> TRUE]
Serves(t, d, uses) ==
    /\ t.classes = Base(t.root) \union {UseClass(u, d) : u \in uses}
    /\ t.leaves = {ClassId(u.par, u.mark) : u \in uses}
    /\ t.filters = {UseFilter(u) : u \in uses}

\* Rules have what the administrator gives them, and those of bound addresses
\* have something.
RulesGiven ==
    /\ \A id \in RuleIds : g_ruletbl[id].par \in profile[id] \union {NoPar}
    /\ clean => \A ip \in Bound : marktbl[ip].id \in Known

\* Where the script is, as far as the table is concerned.
ScriptQuiet ==
    /\ script = "flush" => reset_flag
    /\ script \in {"destroy", "init", "end"} => reset_flag /\ clean /\ Bound = {}

TreesOwn ==
    \A d \in Devices : drift[d] # Wild => clean /\ OwnTree(tc[d])

\* A device that is not named carries no classes of the module, unless it was
\* the WAN device when marks were in use.
TreesInStep ==
    \A d \in Devices :
        drift[d] = InStep /\ tc[d].root # "none" =>
            Serves(tc[d], d, IF d \in Targets THEN InUse ELSE {})

TreeInv == RulesGiven /\ ScriptQuiet /\ TreesOwn /\ TreesInStep

-----------------------------------------------------------------------------
(* Class ids.                                                              *)

\* There are at most 14 interfaces.
LEMMA FewIfs == WanIfs \in Nat /\ WanIfs <= 14
<1>1. PICK n \in IpSpecs : n \in Nat /\ (WanIfs + 1) * 4096 + n <= 65535 /\ WanIfs \in Nat
  BY SpecAssumption, TreeAssumption
<1>. QED  BY <1>1

\* All rules have the kind of the trees.
LEMMA KindOf ==
    ASSUME OneKind, profile \in Profiles, NEW par \in Pars
    PROVE  /\ par \in Params
           /\ RootOf \in {"all", "ifaces"}
           /\ RootOf = "all" => par.devid = 0
           /\ RootOf = "ifaces" => par.devid \in Int /\ 1 <= par.devid /\ par.devid <= WanIfs
<1>1. PICK id \in RuleIds : par \in profile[id]
  BY DEF Pars
<1>2. par \in Params
  BY <1>1, TreeAssumption
<1>3. par.devid \in 0..WanIfs
  BY <1>2, TreeAssumption
<1>4. par.devid \in Int /\ 0 <= par.devid /\ par.devid <= WanIfs
  BY <1>3, FewIfs
<1>5. CASE \A j \in RuleIds : \A q \in profile[j] : q.devid = 0
  <2>1. par.devid = 0
    BY <1>1, <1>5
  <2>2. RootOf = "all"
    BY <2>1 DEF RootOf
  <2>. QED  BY <1>2, <2>1, <2>2
<1>6. CASE \A j \in RuleIds : \A q \in profile[j] : q.devid # 0
  <2>1. RootOf = "ifaces"
    BY <1>6 DEF RootOf, Pars
  <2>2. par.devid # 0
    BY <1>1, <1>6
  <2>. QED  BY <1>2, <1>4, <2>1, <2>2
<1>. QED  BY <1>5, <1>6 DEF OneKind

\* Class ids as numbers: of interfaces v and w and marks m and n.
LEMMA BlocksApart ==
    ASSUME NEW v \in Int, NEW w \in Int, NEW m \in Int, NEW n \in Int,
           1 <= m, m <= 4096, 1 <= n, n <= 4096,
           (v + 1) * 4096 + m = (w + 1) * 4096 + n
    PROVE  m = n
OBVIOUS

LEMMA BlockAbove ==
    ASSUME NEW v \in Int, NEW m \in Int, 1 <= v, 1 <= m
    PROVE  (v + 1) * 4096 + m > 8192
OBVIOUS

\* A mark has one class id, whichever rule it is given under.
LEMMA ClassIdOneToOne ==
    ASSUME OneKind, profile \in Profiles, NEW par \in Pars, NEW q \in Pars,
           NEW m \in Marks, NEW n \in Marks, ClassId(par, m) = ClassId(q, n)
    PROVE  m = n
<1>1. PICK v, w : v = par.devid /\ w = q.devid
  OBVIOUS
<1>2. m \in Int /\ n \in Int /\ 1 <= m /\ m <= 4096 /\ 1 <= n /\ n <= 4096
  BY DEF Marks
<1>3. CASE v = 0 /\ w = 0
  BY <1>1, <1>2, <1>3 DEF ClassId
<1>4. CASE v # 0 /\ w # 0 /\ v \in Int /\ w \in Int
  <2>1. (v + 1) * 4096 + m = (w + 1) * 4096 + n
    BY <1>1, <1>4 DEF ClassId
  <2>. QED  BY <1>2, <1>4, <2>1, BlocksApart
<1>5. (v = 0 /\ w = 0) \/ (v # 0 /\ w # 0 /\ v \in Int /\ w \in Int)
  <2>1. CASE RootOf = "all"
    BY <1>1, <2>1, KindOf
  <2>2. CASE RootOf = "ifaces"
    BY <1>1, <2>2, KindOf
  <2>. QED  BY <2>1, <2>2, KindOf
<1>. QED  BY <1>3, <1>4, <1>5

\* The ids tc.sh gives, its parents and those of the module's classes are small.
LEMMA BaseIds ==
    ASSUME NEW c \in Base(RootOf)
    PROVE  /\ c.id \in Int /\ c.id <= 15 /\ c.parent \in {0, 1}
           /\ RootOf = "all" => c.id = 1
<1>1. RootOf \in {"all", "ifaces"}
  BY DEF RootOf
<1>2. CASE c = BaseClass(1, 0)
  BY <1>2 DEF BaseClass
<1>3. ASSUME NEW i \in 1..WanIfs, c = BaseClass(i + 1, 1), RootOf # "all"
      PROVE  c.id \in Int /\ c.id <= 15 /\ c.parent = 1
  <2>1. i \in Int /\ i <= 14
    BY FewIfs
  <2>2. c.id = i + 1 /\ c.parent = 1
    BY <1>3 DEF BaseClass
  <2>. QED  BY <2>1, <2>2
<1>. QED  BY <1>1, <1>2, <1>3 DEF Base

\* The class of a mark is none of these, and none of the latter's parents.
LEMMA ClassIdNew ==
    ASSUME OneKind, profile \in Profiles, NEW par \in Pars, NEW m \in Marks
    PROVE  /\ \A c \in Base(RootOf) : c.id # ClassId(par, m) /\ c.parent # ClassId(par, m)
           /\ \A q \in Pars : ParentId(q) # ClassId(par, m)
<1>1. PICK v : v = par.devid
  OBVIOUS
<1>2. m \in Int /\ 1 <= m
  BY DEF Marks
<1>3. CASE RootOf = "all"
  <2>1. ClassId(par, m) = m + 1 /\ m + 1 >= 2
    BY <1>2, <1>3, KindOf DEF ClassId
  <2>2. \A q \in Pars : ParentId(q) = 1
    BY <1>3, KindOf DEF ParentId
  <2>3. \A c \in Base(RootOf) : c.id = 1 /\ c.parent \in {0, 1}
    BY <1>3, BaseIds
  <2>. QED  BY <1>2, <2>1, <2>2, <2>3
<1>4. CASE RootOf = "ifaces"
  <2>1. v \in Int /\ 1 <= v
    BY <1>1, <1>4, KindOf
  <2>2. ClassId(par, m) = (v + 1) * 4096 + m
    BY <1>1, <2>1 DEF ClassId
  <2>3. PICK k \in Int : k = ClassId(par, m) /\ k > 8192
    BY <1>2, <2>1, <2>2, BlockAbove
  <2>4. ASSUME NEW q \in Pars PROVE ParentId(q) # k
    <3>1. PICK w : w = q.devid
      OBVIOUS
    <3>2. w \in Int /\ 1 <= w /\ w <= 14
      BY <1>4, <3>1, KindOf, FewIfs
    <3>3. ParentId(q) = w + 1
      BY <3>1, <3>2 DEF ParentId
    <3>. QED  BY <2>3, <3>2, <3>3
  <2>5. ASSUME NEW c \in Base(RootOf) PROVE c.id # k /\ c.parent # k
    <3>1. c.id \in Int /\ c.id <= 15 /\ c.parent \in {0, 1}
      BY BaseIds
    <3>. QED  BY <2>3, <3>1
  <2>. QED  BY <2>3, <2>4, <2>5
<1>. QED  BY <1>3, <1>4, KindOf

\* tc.sh made the parent of every class the module adds.
LEMMA ParentThere ==
    ASSUME OneKind, profile \in Profiles, NEW par \in Pars
    PROVE  \E c \in Base(RootOf) : c.id = ParentId(par)
<1>1. PICK v : v = par.devid
  OBVIOUS
<1>2. CASE RootOf = "all"
  <2>1. ParentId(par) = 1
    BY <1>2, KindOf DEF ParentId
  <2>2. BaseClass(1, 0) \in Base(RootOf) /\ BaseClass(1, 0).id = 1
    BY <1>2 DEF Base, BaseClass
  <2>. QED  BY <2>1, <2>2
<1>3. CASE RootOf = "ifaces"
  <2>1. v \in Int /\ 1 <= v /\ v <= WanIfs
    BY <1>1, <1>3, KindOf
  <2>2. ParentId(par) = v + 1
    BY <1>1, <2>1 DEF ParentId
  <2>3. v \in 1..WanIfs
    BY <2>1, FewIfs
  <2>4. BaseClass(v + 1, 1) \in Base(RootOf) /\ BaseClass(v + 1, 1).id = v + 1
    BY <1>3, <2>3 DEF Base, BaseClass
  <2>. QED  BY <2>2, <2>4
<1>. QED  BY <1>2, <1>3, KindOf

-----------------------------------------------------------------------------
(* A call whose messages all go out, on a tree nobody overwrote.           *)

\* One class, one queue and one filter more, as far as they are not there.
Added(s, t, d, call, id) ==
    /\ s.root = t.root
    /\ s.classes = IF id \in Ids(t) THEN t.classes
                   ELSE t.classes \union {UseClass(call, d)}
    /\ s.leaves = (IF id \in Ids(t) THEN t.leaves ELSE t.leaves \ {ParentId(call.par)})
                  \union {id}
    /\ s.filters = IF \E f \in t.filters : f.mark = call.mark THEN t.filters
                   ELSE t.filters \union {UseFilter(call)}

LEMMA AddMakes ==
    ASSUME OneKind, profile \in Profiles, NEW t, Grown(t), OwnTree(t), NEW d,
           NEW call, Call(call), call.par \in Pars, call.mark \in Marks,
           NEW s, s = qmark_tc_add_rule(t, d, call, Messages), t.root # "none",
           NEW id, id = ClassId(call.par, call.mark)
    PROVE  Added(s, t, d, call, id)
<1>. DEFINE parent == ParentId(call.par)
            rates == Rates(call.par, d)
            t1 == NewClass(t, id, parent, rates)
            t2 == NewLeaf(t1, id)
            t3 == NewFilter(t2, call.mark, id)
<1>1. s = t3
  BY DEF qmark_tc_add_rule, tc_htb_class_modify, tc_pfifo_qdisc_modify, tc_fw_filter_modify,
         qmark_tc_rtnl_talk, Messages
<1>2. /\ id \in ClassIds /\ parent \in ClassIds /\ rates \in RatePairs
      /\ call.mark \in Nat /\ call.mark # 0
  BY ClassIdFits, RatesType DEF Call, Marks
<1>3. parent \in Ids(t) /\ t.root = RootOf
  BY ParentThere DEF OwnTree, Ids
<1>4. /\ t1.root = t.root /\ t1.filters = t.filters
      /\ t1.classes = IF id \in Ids(t) THEN t.classes
                      ELSE t.classes \union {UseClass(call, d)}
      /\ t1.leaves = IF id \in Ids(t) THEN t.leaves ELSE t.leaves \ {parent}
  <2>1. CASE id \in Ids(t)
    BY <2>1 DEF NewClass
  <2>2. CASE id \notin Ids(t)
    BY <1>2, <1>3, <2>2 DEF NewClass, Grown, Trees, UseClass
  <2>. QED  BY <2>1, <2>2
<1>5. Grown(t1) /\ id \in Ids(t1)
  <2>1. Grown(t1)
    BY <1>2, NewClassType
  <2>2. UseClass(call, d).id = id
    BY DEF UseClass
  <2>. QED  BY <1>4, <2>1, <2>2 DEF Ids
<1>6. ~Inner(t1, id)
  <2>1. \A c \in Base(t.root) : c.parent # id
    BY <1>3, ClassIdNew
  <2>2. \A c \in t.classes \ Base(t.root) : c.parent # id
    BY ClassIdNew DEF OwnTree
  <2>3. UseClass(call, d).parent # id
    BY ClassIdNew DEF UseClass
  <2>. QED  BY <1>4, <2>1, <2>2, <2>3 DEF Inner
<1>7. /\ t2.root = t1.root /\ t2.filters = t1.filters /\ t2.classes = t1.classes
      /\ t2.leaves = t1.leaves \union {id}
  BY <1>5, <1>6 DEF NewLeaf, Grown, Trees
<1>8. Grown(t2) /\ id \in Ids(t2)
  BY <1>2, <1>5, <1>7, NewLeafType DEF Ids
<1>9. /\ t3.root = t2.root /\ t3.classes = t2.classes /\ t3.leaves = t2.leaves
      /\ t3.filters = IF \E f \in t2.filters : f.mark = call.mark THEN t2.filters
                      ELSE t2.filters \union {UseFilter(call)}
  <2>1. CASE \E f \in t2.filters : f.mark = call.mark
    BY <2>1 DEF NewFilter
  <2>2. CASE ~\E f \in t2.filters : f.mark = call.mark
    <3>1. t2.root # "none"
      BY <1>4, <1>7
    <3>2. [mark |-> call.mark, cid |-> id, held |-> id \in Ids(t2)] = UseFilter(call)
      BY <1>8 DEF UseFilter
    <3>. QED  BY <1>2, <1>8, <2>2, <3>1, <3>2 DEF NewFilter, Grown, Trees
  <2>. QED  BY <2>1, <2>2
<1>. QED  BY <1>1, <1>4, <1>7, <1>9 DEF Added

\* No tree, nothing to add to.
LEMMA AddToNone ==
    ASSUME NEW t, OwnTree(t), t.root = "none", NEW d, NEW call
    PROVE  qmark_tc_add_rule(t, d, call, Messages) = t
<1>1. Ids(t) = {}
  BY DEF OwnTree, Ids
<1>. QED
  BY <1>1 DEF qmark_tc_add_rule, tc_htb_class_modify, tc_pfifo_qdisc_modify,
     tc_fw_filter_modify, qmark_tc_rtnl_talk, Messages, NewClass, NewLeaf, NewFilter

\* The filter of the mark goes, and as no other leads to the class, the class
\* with its queue.
LEMMA DelMakes ==
    ASSUME OneKind, profile \in Profiles, NEW t, Grown(t), OwnTree(t), NEW d,
           NEW call, call.par \in Pars, call.mark \in Marks,
           NEW s, s = qmark_tc_del_rule(t, d, call, Messages),
           NEW id, id = ClassId(call.par, call.mark)
    PROVE  /\ s.root = t.root
           /\ s.classes = {c \in t.classes : c.id # id}
           /\ s.leaves = t.leaves \ {id}
           /\ s.filters = {f \in t.filters : f.mark # call.mark}
<1>. DEFINE t1 == DelFilter(t, call.mark)
            t2 == DelClass(t1, id)
<1>1. s = t2
  BY DEF qmark_tc_del_rule, tc_htb_class_modify, tc_fw_filter_modify,
         qmark_tc_rtnl_talk, Messages
<1>2. call.mark # 0
  BY DEF Marks
<1>3. /\ t1.root = t.root /\ t1.classes = t.classes /\ t1.leaves = t.leaves
      /\ t1.filters = {f \in t.filters : f.mark # call.mark}
  BY <1>2 DEF DelFilter, Grown, Trees
<1>4. Grown(t1)
  BY DelFilterType
<1>5. ~Inner(t1, id)
  <2>1. \A c \in Base(t.root) : c.parent # id
    <3>1. CASE t.root = "none"
      BY <3>1 DEF Base
    <3>2. CASE t.root # "none"
      BY <3>2, ClassIdNew DEF OwnTree
    <3>. QED  BY <3>1, <3>2
  <2>2. \A c \in t.classes \ Base(t.root) : c.parent # id
    BY ClassIdNew DEF OwnTree
  <2>. QED  BY <1>3, <2>1, <2>2 DEF Inner
<1>6. ~\E f \in t1.filters : f.held /\ f.cid = id
  <2>1. ASSUME NEW f \in t.filters, f.cid = id PROVE f.mark = call.mark
    <3>1. PICK par \in Pars : f.cid = ClassId(par, f.mark) /\ f.mark \in Marks
      BY DEF OwnTree
    <3>. QED  BY <2>1, <3>1, ClassIdOneToOne
  <2>. QED  BY <1>3, <2>1
<1>7. /\ t2.root = t1.root /\ t2.filters = t1.filters
      /\ t2.classes = {c \in t1.classes : c.id # id} /\ t2.leaves = t1.leaves \ {id}
  BY <1>4, <1>5, <1>6 DEF DelClass, Grown, Trees
<1>. QED  BY <1>1, <1>3, <1>7

\* A call leaves a tree nobody overwrote one nobody overwrote.
LEMMA OwnAdd ==
    ASSUME OneKind, profile \in Profiles, NEW t, Grown(t), OwnTree(t), NEW d,
           NEW call, Call(call), call.par \in Pars, call.mark \in Marks
    PROVE  OwnTree(qmark_tc_add_rule(t, d, call, Messages))
<1>. PICK s, id : /\ s = qmark_tc_add_rule(t, d, call, Messages)
                  /\ id = ClassId(call.par, call.mark)
  OBVIOUS
<1>1. CASE t.root = "none"
  BY <1>1, AddToNone
<1>2. CASE t.root # "none"
  <2>1. /\ s.root = t.root
        /\ t.classes \subseteq s.classes
        /\ s.classes \subseteq t.classes \union {UseClass(call, d)}
        /\ s.filters \subseteq t.filters \union {UseFilter(call)}
        /\ \A f \in s.filters \ t.filters : \A g \in t.filters : g.mark # call.mark
        /\ id \in Ids(s)
    <3>1. Added(s, t, d, call, id)
      BY <1>2, AddMakes
    <3>2. UseClass(call, d).id = id
      BY DEF UseClass
    <3>3. id \in Ids(s)
      BY <3>1, <3>2 DEF Added, Ids
    <3>. QED  BY <3>1, <3>3 DEF Added
  <2>2. Ids(t) \subseteq Ids(s)
    BY <2>1 DEF Ids
  <2>3. UseClass(call, d).id = ClassId(call.par, call.mark)
        /\ UseClass(call, d).parent = ParentId(call.par)
    BY DEF UseClass
  <2>4. /\ UseFilter(call).mark = call.mark /\ UseFilter(call).held
        /\ UseFilter(call).cid = id /\ id = ClassId(call.par, call.mark)
    BY DEF UseFilter
  <2>5. s.root = RootOf /\ s.root # "none" /\ Base(s.root) \subseteq s.classes
    BY <1>2, <2>1 DEF OwnTree
  <2>6. \A c \in s.classes \ Base(s.root) :
          \E par \in Pars, m \in Marks : c.id = ClassId(par, m) /\ c.parent = ParentId(par)
    BY <2>1, <2>3 DEF OwnTree
  <2>7. \A f \in s.filters :
          /\ f.mark \in Marks /\ f.held /\ f.cid \in Ids(s)
          /\ \E par \in Pars : f.cid = ClassId(par, f.mark)
    BY <2>1, <2>2, <2>4 DEF OwnTree
  <2>8. \A f, g \in s.filters : f.mark = g.mark => f = g
    BY <2>1, <2>4 DEF OwnTree
  <2>. QED  BY <2>5, <2>6, <2>7, <2>8 DEF OwnTree
<1>. QED  BY <1>1, <1>2

LEMMA OwnDel ==
    ASSUME OneKind, profile \in Profiles, NEW t, Grown(t), OwnTree(t), NEW d,
           NEW call, call.par \in Pars, call.mark \in Marks
    PROVE  OwnTree(qmark_tc_del_rule(t, d, call, Messages))
<1>. DEFINE s == qmark_tc_del_rule(t, d, call, Messages)
            id == ClassId(call.par, call.mark)
<1>1. /\ s.root = t.root
      /\ s.classes = {c \in t.classes : c.id # id}
      /\ s.filters = {f \in t.filters : f.mark # call.mark}
  BY DelMakes
<1>. HIDE DEF s
<1>2. s.root = "none" => s.classes = {} /\ s.filters = {}
  BY <1>1 DEF OwnTree
<1>3. s.root # "none" => s.root = RootOf
  BY <1>1 DEF OwnTree
<1>4. Base(s.root) \subseteq s.classes
  <2>1. CASE t.root = "none"
    BY <1>1, <2>1 DEF Base
  <2>2. CASE t.root # "none"
    BY <1>1, <2>2, ClassIdNew DEF OwnTree
  <2>. QED  BY <2>1, <2>2
<1>5. \A c \in s.classes \ Base(s.root) :
        \E par \in Pars, m \in Marks : c.id = ClassId(par, m) /\ c.parent = ParentId(par)
  BY <1>1 DEF OwnTree
<1>6. ASSUME NEW f \in s.filters
      PROVE  /\ f.mark \in Marks /\ f.held /\ f.cid \in Ids(s)
             /\ \E par \in Pars : f.cid = ClassId(par, f.mark)
  <2>1. /\ f \in t.filters /\ f.mark # call.mark
        /\ f.mark \in Marks /\ f.held /\ f.cid \in Ids(t)
    BY <1>1 DEF OwnTree
  <2>2. PICK par \in Pars : f.cid = ClassId(par, f.mark)
    BY <2>1 DEF OwnTree
  <2>3. f.cid # id
    BY <2>1, <2>2, ClassIdOneToOne
  <2>4. f.cid \in Ids(s)
    BY <1>1, <2>1, <2>3 DEF Ids
  <2>. QED  BY <2>1, <2>2, <2>4
<1>7. \A f, g \in s.filters : f.mark = g.mark => f = g
  BY <1>1 DEF OwnTree
<1>. QED  BY <1>2, <1>3, <1>4, <1>5, <1>6, <1>7 DEF OwnTree, s

\* One use for each mark, of a rule the administrator has.
OnePerMark(uses) ==
    /\ \A u \in uses : u.par \in Pars /\ u.mark \in Marks
    /\ \A u, v \in uses : u.mark = v.mark => u = v

\* Of the uses of different marks, each has its own class id.
LEMMA UsesApart ==
    ASSUME OneKind, profile \in Profiles, NEW uses, OnePerMark(uses),
           NEW u \in uses, NEW v \in uses,
           ClassId(u.par, u.mark) = ClassId(v.par, v.mark)
    PROVE  u = v
<1>1. u.mark = v.mark
  BY ClassIdOneToOne DEF OnePerMark
<1>. QED  BY <1>1 DEF OnePerMark

LEMMA ServesAdd ==
    ASSUME OneKind, profile \in Profiles, NEW t, Grown(t), OwnTree(t),
           t.root # "none", NEW d, NEW call, Call(call),
           NEW uses, Serves(t, d, uses),
           NEW u, u = [mark |-> call.mark, par |-> call.par],
           OnePerMark(uses \union {u})
    PROVE  Serves(qmark_tc_add_rule(t, d, call, Messages), d, uses \union {u})
<1>. DEFINE all == uses \union {u}
<1>. PICK s, id : /\ s = qmark_tc_add_rule(t, d, call, Messages)
                  /\ id = ClassId(call.par, call.mark)
  OBVIOUS
<1>1. /\ u.par = call.par /\ u.mark = call.mark
      /\ u.par \in Pars /\ u.mark \in Marks
      /\ UseClass(u, d) = UseClass(call, d) /\ UseFilter(u) = UseFilter(call)
  <2>1. u.par = call.par /\ u.mark = call.mark
    OBVIOUS
  <2>. QED  BY <2>1 DEF OnePerMark, UseClass, UseFilter
<1>2. /\ s.root = t.root
      /\ s.classes = IF id \in Ids(t) THEN t.classes
                     ELSE t.classes \union {UseClass(u, d)}
      /\ s.leaves = (IF id \in Ids(t) THEN t.leaves ELSE t.leaves \ {ParentId(call.par)})
                    \union {id}
      /\ s.filters = IF \E f \in t.filters : f.mark = call.mark THEN t.filters
                     ELSE t.filters \union {UseFilter(u)}
  <2>1. Added(s, t, d, call, id)
    BY <1>1, AddMakes
  <2>. QED  BY <1>1, <2>1 DEF Added
<1>3. id \in Ids(t) => u \in uses
  <2>. SUFFICES ASSUME id \in Ids(t) PROVE u \in uses
    OBVIOUS
  <2>1. PICK c \in t.classes : c.id = id
    BY DEF Ids
  <2>2. c \notin Base(t.root)
    BY <1>1, <2>1, ClassIdNew DEF OwnTree
  <2>3. PICK v \in uses : c = UseClass(v, d)
    BY <2>2 DEF Serves
  <2>4. ClassId(v.par, v.mark) = ClassId(u.par, u.mark)
    BY <1>1, <2>1, <2>3 DEF UseClass
  <2>5. v \in all /\ u \in all
    OBVIOUS
  <2>6. v = u
    BY <2>4, <2>5, UsesApart
  <2>. QED  BY <2>6
<1>4. s.classes = Base(s.root) \union {UseClass(v, d) : v \in all}
  BY <1>2, <1>3 DEF Serves
<1>5. s.leaves = {ClassId(v.par, v.mark) : v \in all}
  <2>1. \A v \in uses : ClassId(v.par, v.mark) # ParentId(call.par)
    BY <1>1, ClassIdNew DEF OnePerMark
  <2>2. t.leaves \ {ParentId(call.par)} = t.leaves
    BY <2>1 DEF Serves
  <2>3. s.leaves = t.leaves \union {ClassId(u.par, u.mark)}
    BY <1>1, <1>2, <2>2
  <2>. QED  BY <2>3 DEF Serves
<1>6. s.filters = {UseFilter(v) : v \in all}
  <2>1. (\E f \in t.filters : f.mark = call.mark) => u \in uses
    <3>. SUFFICES ASSUME NEW f \in t.filters, f.mark = call.mark PROVE u \in uses
      OBVIOUS
    <3>1. PICK v \in uses : f = UseFilter(v)
      BY DEF Serves
    <3>2. v.mark = u.mark
      BY <1>1, <3>1 DEF UseFilter
    <3>. QED  BY <3>2 DEF OnePerMark
  <2>. QED  BY <1>2, <2>1 DEF Serves
<1>. QED  BY <1>4, <1>5, <1>6 DEF Serves

LEMMA ServesDel ==
    ASSUME OneKind, profile \in Profiles, NEW t, Grown(t), OwnTree(t), NEW d,
           NEW call, NEW uses, OnePerMark(uses),
           t.root # "none", Serves(t, d, uses),
           NEW u \in uses, u.mark = call.mark, u.par = call.par
    PROVE  Serves(qmark_tc_del_rule(t, d, call, Messages), d, uses \ {u})
<1>. DEFINE s == qmark_tc_del_rule(t, d, call, Messages)
            id == ClassId(call.par, call.mark)
            rest == uses \ {u}
<1>1. u.par \in Pars /\ u.mark \in Marks /\ id = ClassId(u.par, u.mark)
  BY DEF OnePerMark
<1>2. /\ s.root = t.root
      /\ s.classes = {c \in t.classes : c.id # id}
      /\ s.leaves = t.leaves \ {id}
      /\ s.filters = {f \in t.filters : f.mark # u.mark}
  BY <1>1, DelMakes
<1>. HIDE DEF s, id
<1>3. \A v \in uses : ClassId(v.par, v.mark) = id <=> v = u
  BY <1>1, UsesApart
<1>4. \A c \in Base(t.root) : c.id # id
  BY <1>1, ClassIdNew DEF OwnTree
<1>5. s.classes = Base(s.root) \union {UseClass(v, d) : v \in rest}
  <2>1. \A v \in uses : UseClass(v, d).id = ClassId(v.par, v.mark)
    BY DEF UseClass
  <2>. QED  BY <1>2, <1>3, <1>4, <2>1 DEF Serves
<1>6. s.leaves = {ClassId(v.par, v.mark) : v \in rest}
  BY <1>2, <1>3 DEF Serves
<1>7. s.filters = {UseFilter(v) : v \in rest}
  <2>1. \A v \in uses : UseFilter(v).mark = v.mark
    BY DEF UseFilter
  <2>2. \A v \in uses : v.mark = u.mark <=> v = u
    BY DEF OnePerMark
  <2>. QED  BY <1>2, <2>1, <2>2 DEF Serves
<1>. QED  BY <1>5, <1>6, <1>7 DEF Serves, s

\* With rtnl_mutex taken a call leaves the tree as it is.
LEMMA NothingSent ==
    \A t, d, call : /\ qmark_tc_add_rule(t, d, call, {}) = t
                    /\ qmark_tc_del_rule(t, d, call, {}) = t
BY DEF qmark_tc_add_rule, qmark_tc_del_rule, tc_htb_class_modify, tc_pfifo_qdisc_modify,
       tc_fw_filter_modify, qmark_tc_rtnl_talk

-----------------------------------------------------------------------------
(* The uses the table makes of marks, step by step.                        *)

\* The table's books, as far as the uses depend on them.
LEMMA TidyTable ==
    ASSUME IInv, clean
    PROVE  /\ TypeOK /\ Apart /\ Stored /\ Counted /\ mark_bitmap = UsedMarks
           /\ \A m \in 1..max_ip_cnt : m \in Marks
           /\ \A ip \in Bound : marktbl[ip].mark \in Marks /\ marktbl[ip].id \in RuleIds
<1>1. TypeOK /\ Books
  BY DEF IInv, TypeInv, Sound
<1>2. max_ip_cnt \in Nat /\ max_ip_cnt <= 4096
  BY <1>1, SpecAssumption, TreeAssumption DEF TypeOK
<1>3. \A m \in 1..max_ip_cnt : m \in Marks
  BY <1>2 DEF Marks
<1>4. \A ip \in Bound : marktbl[ip].mark \in 1..max_ip_cnt
  BY <1>1 DEF Books, UsedMarks, TypeOK
<1>5. \A ip \in Bound : marktbl[ip].id \in RuleIds
  BY <1>1 DEF Bound, TypeOK, NoEntry
<1>. QED  BY <1>1, <1>3, <1>4, <1>5 DEF Books

\* Known rules have parameters of the administrator's.
LEMMA KnownPars ==
    ASSUME RulesGiven, NEW id \in Known
    PROVE  g_ruletbl[id].par \in Pars
BY DEF RulesGiven, Known, Pars

\* A mark in use is used once.
LEMMA UsesOne ==
    ASSUME IInv, clean, RulesGiven
    PROVE  OnePerMark(InUse)
<1>1. \A ip \in Bound : /\ marktbl[ip].mark \in Marks
                        /\ g_ruletbl[marktbl[ip].id].par \in Pars
  BY TidyTable, KnownPars DEF RulesGiven
<1>2. \A p, q \in Bound :
        marktbl[p].mark = marktbl[q].mark => marktbl[p].id = marktbl[q].id
  BY TidyTable DEF Apart
<1>. QED  BY <1>1, <1>2 DEF OnePerMark, InUse

\* Without a new binding or rule there is no new use.
LEMMA UsesShrink ==
    ASSUME \A ip \in Bound' :
             /\ ip \in Bound
             /\ marktbl'[ip].id = marktbl[ip].id
             /\ marktbl'[ip].mark = marktbl[ip].mark
             /\ g_ruletbl'[marktbl[ip].id].par = g_ruletbl[marktbl[ip].id].par
    PROVE  InUse' \subseteq InUse
BY DEF InUse

\* If no mark goes either, no use goes.
LEMMA UsesKept ==
    ASSUME OnePerMark(InUse), InUse' \subseteq InUse, UsedMarks' = UsedMarks
    PROVE  InUse' = InUse
<1>. SUFFICES ASSUME NEW u \in InUse PROVE u \in InUse'
  OBVIOUS
<1>1. PICK p \in Bound : u = [mark |-> marktbl[p].mark, par |-> g_ruletbl[marktbl[p].id].par]
  BY DEF InUse
<1>2. u.mark \in UsedMarks
  BY <1>1 DEF UsedMarks
<1>3. PICK ip \in Bound' : marktbl'[ip].mark = u.mark
  BY <1>2 DEF UsedMarks
<1>4. PICK v : v = [mark |-> marktbl'[ip].mark, par |-> g_ruletbl'[marktbl'[ip].id].par]
  OBVIOUS
<1>5. v \in InUse' /\ v.mark = u.mark
  BY <1>3, <1>4 DEF InUse
<1>. QED  BY <1>5 DEF OnePerMark

\* A packet that binds its address: the mark is a new one, or the one the
\* other addresses of a shared rule have.
LEMMA UsesBind ==
    ASSUME IInv, clean, RulesGiven, NEW ip \in IPs, NEW id \in Known,
           qmark_alloc_mark_auto(ip, id),
           NEW u, u = [mark |-> tcCall'.mark, par |-> tcCall'.par]
    PROVE  /\ tcCall'.op = "add"
           /\ InUse' = InUse \union {u}
           /\ OnePerMark(InUse \union {u})
<1>1. PICK m \in MarkFor(id) :
        /\ tcCall' = TcAdd(id, m)
        /\ HashInsert(ip, id, m)
        /\ marktbl' = [marktbl EXCEPT ![ip] = [id |-> id, mark |-> m, count |-> 0]]
        /\ g_ruletbl' = [g_ruletbl EXCEPT ![id].mark = RuleMarkWith(id, m),
                                          ![id].count = @ + 1]
  BY DEF qmark_alloc_mark_auto, HashInsert
<1>2. id \in RuleIds /\ ip \notin Bound /\ TypeOK
  BY TidyTable DEF Known, qmark_alloc_mark_auto
<1>3. PICK par : par = g_ruletbl[id].par
  OBVIOUS
<1>4. tcCall'.op = "add" /\ u = [mark |-> m, par |-> par]
  BY <1>1, <1>3 DEF TcAdd
<1>5. \A j \in RuleIds : g_ruletbl'[j].par = g_ruletbl[j].par
  BY <1>1, <1>2 DEF TypeOK
<1>6. Bound' = Bound \union {ip}
  BY <1>1, <1>2, BoundGrows
<1>7. /\ \A p \in Bound : marktbl'[p] = marktbl[p] /\ marktbl[p].id \in RuleIds
      /\ marktbl'[ip].id = id /\ marktbl'[ip].mark = m
  BY <1>1, <1>2, TidyTable DEF TypeOK, Bound
<1>8. InUse' = InUse \union {u}
  BY <1>2, <1>3, <1>4, <1>5, <1>6, <1>7 DEF InUse
<1>9. m \in Marks /\ \A p \in Bound : marktbl[p].mark = m => marktbl[p].id = id
  <2>1. CASE NeedsNewMark(id)
    <3>1. m \in 1..max_ip_cnt /\ m \notin mark_bitmap
      BY <1>1, <2>1, AllocMarkFree DEF MarkFor
    <3>. QED  BY <3>1, TidyTable DEF UsedMarks
  <2>2. CASE ~NeedsNewMark(id)
    <3>1. /\ m = g_ruletbl[id].mark /\ g_ruletbl[id].mode = SHARE_MODE
          /\ g_ruletbl[id].count # 0
      BY <1>1, <1>2, <2>2 DEF MarkFor, NeedsNewMark, TypeOK
    <3>2. PICK q \in Holders(id) : TRUE
      BY <1>2, <3>1, TidyTable, FS_EmptySet DEF Counted
    <3>3. q \in Bound /\ marktbl[q].id = id
      BY <1>2, <3>2 DEF Holders, Bound, RuleIds
    <3>4. marktbl[q].mark = m
      BY <3>1, <3>3, TidyTable DEF Stored
    <3>. QED  BY <3>3, <3>4, TidyTable DEF Apart
  <2>. QED  BY <2>1, <2>2
<1>10. \A v \in InUse : v.mark = m => v = u
  BY <1>3, <1>4, <1>9 DEF InUse
<1>11. par \in Pars
  BY <1>3, KnownPars
<1>12. OnePerMark(InUse)
  BY UsesOne
<1>. QED  BY <1>4, <1>8, <1>9, <1>10, <1>11, <1>12 DEF OnePerMark

\* A connection that ends: tc is told when, and only when, the use ends.
LEMMA UsesPut ==
    ASSUME IInv, IInv', clean, RulesGiven, NEW ip \in Bound,
           PutEntry(ip, TcDel(marktbl[ip].id, marktbl[ip].mark)),
           NEW u, u = [mark |-> tcCall'.mark, par |-> tcCall'.par]
    PROVE  \/ tcCall'.op = "none" /\ InUse' = InUse
           \/ tcCall'.op = "del" /\ u \in InUse /\ InUse' = InUse \ {u}
<1>1. PICK id, mark : id = marktbl[ip].id /\ mark = marktbl[ip].mark
  OBVIOUS
<1>2. /\ TypeOK /\ ip \in IPs /\ id \in RuleIds /\ mark \in Marks /\ mark_bitmap = UsedMarks
      /\ \A p \in Bound : marktbl[p].id \in RuleIds
  BY <1>1, TidyTable DEF Bound
<1>3. clean' /\ mark_bitmap' = UsedMarks'
  BY DEF PutEntry, IInv, Sound, Books
<1>4. OnePerMark(InUse)
  BY UsesOne
<1>5. CASE marktbl[ip].count - 1 > 0
  <2>1. /\ marktbl' = [marktbl EXCEPT ![ip].count = @ - 1]
        /\ g_ruletbl' = g_ruletbl /\ mark_bitmap' = mark_bitmap /\ tcCall' = NoCall
    BY <1>5 DEF PutEntry
  <2>2. marktbl[ip] \in [id : RuleIds, mark : 0..max_ip_cnt, count : Nat]
    BY <1>2 DEF TypeOK, Bound, NoEntry
  <2>3. \A p \in IPs : marktbl'[p].id = marktbl[p].id /\ marktbl'[p].mark = marktbl[p].mark
    BY <1>2, <2>1, <2>2 DEF TypeOK
  <2>4. InUse' \subseteq InUse
    BY <2>1, <2>3, UsesShrink DEF Bound
  <2>5. InUse' = InUse
    BY <1>2, <1>3, <1>4, <2>1, <2>4, UsesKept
  <2>. QED  BY <2>1, <2>5 DEF NoCall
<1>6. CASE ~(marktbl[ip].count - 1 > 0)
  <2>1. /\ marktbl' = [marktbl EXCEPT ![ip] = NoEntry]
        /\ \/ /\ g_ruletbl' = [g_ruletbl EXCEPT ![id].count = @ - 1, ![id].mark = 0]
              /\ mark_bitmap' \in free_mark(mark)
              /\ tcCall' = TcDel(id, mark)
           \/ /\ g_ruletbl' = [g_ruletbl EXCEPT ![id].count = @ - 1]
              /\ mark_bitmap' = mark_bitmap
              /\ tcCall' = NoCall
    BY <1>1, <1>6 DEF PutEntry
  <2>2. \A j \in RuleIds : g_ruletbl'[j].par = g_ruletbl[j].par
    BY <1>2, <2>1 DEF TypeOK
  <2>3. Bound' = Bound \ {ip}
    BY <1>2, <2>1, BoundShrinks
  <2>4. \A p \in Bound' : p \in Bound /\ marktbl'[p] = marktbl[p] /\ marktbl[p].id \in RuleIds
    BY <1>2, <2>1, <2>3 DEF TypeOK, Bound
  <2>5. InUse' \subseteq InUse
    BY <2>2, <2>4, UsesShrink
  <2>6. CASE tcCall' = NoCall
    <3>1. NoCall.op = "none" /\ TcDel(id, mark).op = "del"
      BY DEF NoCall, TcDel
    <3>2. mark_bitmap' = mark_bitmap
      BY <2>1, <2>6, <3>1
    <3>3. InUse' = InUse
      BY <1>2, <1>3, <1>4, <2>5, <3>2, UsesKept
    <3>. QED  BY <2>6, <3>1, <3>3
  <2>7. CASE tcCall' = TcDel(id, mark) /\ mark_bitmap' \in free_mark(mark)
    <3>1. tcCall'.op = "del" /\ u = [mark |-> mark, par |-> g_ruletbl[id].par]
      BY <2>7 DEF TcDel
    <3>2. u \in InUse
      BY <1>1, <3>1 DEF InUse
    <3>3. UsedMarks' = UsedMarks \ {mark}
      BY <1>2, <1>3, <2>7 DEF free_mark, Marks
    <3>4. u \notin InUse'
      <4>1. \A v \in InUse' : v.mark \in UsedMarks'
        BY DEF InUse, UsedMarks
      <4>. QED  BY <3>1, <3>3, <4>1
    <3>5. ASSUME NEW v \in InUse, v # u PROVE v \in InUse'
      <4>1. PICK p \in Bound : v = [mark |-> marktbl[p].mark, par |-> g_ruletbl[marktbl[p].id].par]
        BY DEF InUse
      <4>2. p \in Bound'
        BY <1>1, <2>3, <3>1, <3>5, <4>1
      <4>. QED  BY <2>2, <2>4, <4>1, <4>2 DEF InUse
    <3>. QED  BY <2>5, <3>1, <3>2, <3>4, <3>5
  <2>. QED  BY <2>1, <2>6, <2>7
<1>. QED  BY <1>5, <1>6

-----------------------------------------------------------------------------
(* Rules and bindings, step by step.                                       *)

\* Bindings only go.
Unbinds ==
    \A ip \in Bound' : /\ ip \in Bound
                       /\ marktbl'[ip].id = marktbl[ip].id
                       /\ marktbl'[ip].mark = marktbl[ip].mark

\* One reference less.
LEMMA PutUnbinds ==
    ASSUME TypeOK, NEW ip \in Bound, NEW call, PutEntry(ip, call)
    PROVE  /\ Unbinds /\ UNCHANGED <<reset_flag, clean>>
           /\ \A id \in RuleIds : g_ruletbl'[id].par = g_ruletbl[id].par
<1>1. PICK id \in RuleIds : id = marktbl[ip].id
  BY DEF Bound, TypeOK, NoEntry
<1>2. marktbl[ip] \in [id : RuleIds, mark : 0..max_ip_cnt, count : Nat] /\ ip \in IPs
  BY DEF TypeOK, Bound, NoEntry
<1>3. \/ marktbl' = [marktbl EXCEPT ![ip].count = @ - 1]
      \/ marktbl' = [marktbl EXCEPT ![ip] = NoEntry]
  BY DEF PutEntry
<1>4. Unbinds
  BY <1>2, <1>3 DEF Unbinds, Bound, TypeOK, NoEntry
<1>5. \/ g_ruletbl' = g_ruletbl
      \/ g_ruletbl' = [g_ruletbl EXCEPT ![id].count = @ - 1, ![id].mark = 0]
      \/ g_ruletbl' = [g_ruletbl EXCEPT ![id].count = @ - 1]
  BY <1>1 DEF PutEntry
<1>6. \A j \in RuleIds : g_ruletbl'[j].par = g_ruletbl[j].par
  BY <1>1, <1>5 DEF TypeOK
<1>. QED  BY <1>4, <1>6 DEF PutEntry

\* Conntrack events and packets that bind nothing.
LEMMA SoftirqUnbinds ==
    ASSUME TypeOK,
           Conntrack \/ \E ip \in IPs, id \in Known : AllocMarkAutoFails(ip, id)
    PROVE  /\ Unbinds /\ UNCHANGED <<reset_flag, clean>>
           /\ \A id \in RuleIds : g_ruletbl'[id].par = g_ruletbl[id].par
<1>1. ASSUME NEW ip \in IPs, ConntrackMark(ip)
      PROVE  /\ Unbinds /\ UNCHANGED <<reset_flag, clean>>
             /\ \A id \in RuleIds : g_ruletbl'[id].par = g_ruletbl[id].par
  <2>1. marktbl[ip] \in [id : RuleIds, mark : 0..max_ip_cnt, count : Nat]
    BY <1>1 DEF ConntrackMark, TypeOK, Bound, NoEntry
  <2>2. marktbl' = [marktbl EXCEPT ![ip].count = @ + 1]
    BY <1>1 DEF ConntrackMark
  <2>3. Unbinds
    BY <2>1, <2>2 DEF Unbinds, Bound, TypeOK
  <2>. QED  BY <1>1, <2>3 DEF ConntrackMark
<1>2. ASSUME NEW ip \in IPs, ConntrackDestroy(ip)
      PROVE  /\ Unbinds /\ UNCHANGED <<reset_flag, clean>>
             /\ \A id \in RuleIds : g_ruletbl'[id].par = g_ruletbl[id].par
  BY <1>2, PutUnbinds DEF ConntrackDestroy
<1>3. ASSUME NEW ip \in IPs, NEW id \in Known, AllocMarkAutoFails(ip, id)
      PROVE  /\ Unbinds /\ UNCHANGED <<reset_flag, clean>>
             /\ \A j \in RuleIds : g_ruletbl'[j].par = g_ruletbl[j].par
  <2>1. g_ruletbl' \in {g_ruletbl, [g_ruletbl EXCEPT ![id].mark = 0]} /\ id \in RuleIds
    BY <1>3 DEF AllocMarkAutoFails, Known
  <2>2. \A j \in RuleIds : g_ruletbl'[j].par = g_ruletbl[j].par
    BY <2>1 DEF TypeOK
  <2>. QED  BY <1>3, <2>2 DEF AllocMarkAutoFails, Unbinds, Bound
<1>. QED  BY <1>1, <1>2, <1>3 DEF Conntrack

\* A command takes bindings away and gives a rule what the administrator has
\* for it or nothing; it stays clean only if the rules in use stay known.
LEMMA CommandUnbinds ==
    ASSUME TypeOK, profile \in Profiles, RulesGiven, Command
    PROVE  /\ Unbinds /\ UNCHANGED reset_flag
           /\ \A id \in RuleIds : g_ruletbl'[id].par \in profile[id] \union {NoPar}
           /\ clean' => \A ip \in Bound' :
                marktbl'[ip].id \in RuleIds /\ g_ruletbl'[marktbl'[ip].id].par # NoPar
           /\ clean /\ Bound = {} => clean'
<1>. DEFINE Goal ==
        /\ Unbinds /\ UNCHANGED reset_flag
        /\ \A id \in RuleIds : g_ruletbl'[id].par \in profile[id] \union {NoPar}
        /\ clean' => \A ip \in Bound' :
             marktbl'[ip].id \in RuleIds /\ g_ruletbl'[marktbl'[ip].id].par # NoPar
        /\ clean /\ Bound = {} => clean'
<1>1. /\ \A id \in RuleIds : g_ruletbl[id].par \in profile[id] \union {NoPar}
      /\ \A ip \in Bound : ip \in IPs /\ marktbl[ip].id \in RuleIds
      /\ clean => \A ip \in Bound : g_ruletbl[marktbl[ip].id].par # NoPar
      /\ \A id \in RuleIds : Bound = {} => Holders(id) = {}
      /\ g_ruletbl \in [RuleIds -> [mode : {PRIV_MODE, SHARE_MODE}, mark : 0..max_ip_cnt,
                                    count : Int, par : Params \union {NoPar}]]
  BY DEF TypeOK, RulesGiven, Known, Bound, Holders, NoEntry, RuleIds
<1>2. ASSUME NEW id \in RuleIds, NEW mode \in {PRIV_MODE, SHARE_MODE},
             NEW par \in Params, par \in profile[id], qmark_add_rule(id, mode, par)
      PROVE  Goal
  <2>1. /\ g_ruletbl'[id].par = par /\ par # NoPar
        /\ \A j \in RuleIds : j # id => g_ruletbl'[j] = g_ruletbl[j]
        /\ marktbl' = marktbl /\ Bound' = Bound
        /\ UNCHANGED reset_flag
        /\ clean' = (clean /\ (Holders(id) = {} \/ mode = g_ruletbl[id].mode))
    BY <1>1, <1>2, SpecAssumption DEF qmark_add_rule, Bound
  <2>. QED  BY <1>1, <1>2, <2>1 DEF Unbinds
<1>3. ASSUME NEW id \in RuleIds, qmark_del_rule(id) PROVE Goal
  <2>1. /\ g_ruletbl'[id].par = NoPar
        /\ \A j \in RuleIds : j # id => g_ruletbl'[j] = g_ruletbl[j]
        /\ marktbl' = marktbl /\ Bound' = Bound
        /\ UNCHANGED reset_flag
        /\ clean' = (clean /\ Holders(id) = {})
    BY <1>1, <1>3 DEF qmark_del_rule, Bound, ZeroRule
  <2>2. Holders(id) = {} => \A ip \in Bound : marktbl[ip].id # id
    BY DEF Bound, Holders
  <2>. QED  BY <1>1, <2>1, <2>2 DEF Unbinds
<1>4. CASE qmark_flush_rule
  <2>1. /\ \A j \in RuleIds : g_ruletbl'[j].par = NoPar
        /\ marktbl' = marktbl /\ Bound' = Bound
        /\ UNCHANGED reset_flag
        /\ clean' = (clean /\ Bound = {})
    BY <1>1, <1>4 DEF qmark_flush_rule, Bound, ZeroRule
  <2>. QED  BY <1>1, <2>1 DEF Unbinds
<1>5. ASSUME NEW ip \in IPs, qmark_del_hash(ip) PROVE Goal
  <2>1. /\ Unbinds /\ UNCHANGED <<reset_flag, clean>> /\ ip \in Bound
        /\ \A id \in RuleIds : g_ruletbl'[id].par = g_ruletbl[id].par
    BY <1>5, PutUnbinds DEF qmark_del_hash
  <2>. QED  BY <1>1, <2>1 DEF Unbinds
<1>6. CASE qmark_flush_hash
  <2>1. /\ Bound' = {} /\ g_ruletbl' = g_ruletbl
        /\ UNCHANGED reset_flag
        /\ clean' = (clean /\ Bound = {})
    BY <1>6 DEF qmark_flush_hash, Bound, NoEntry
  <2>. QED  BY <1>1, <2>1 DEF Unbinds
<1>7. ASSUME NEW ip_spec \in IpSpecs, qmark_set_spec(ip_spec) PROVE Goal
  <2>1. /\ Bound' = {} /\ \A j \in RuleIds : g_ruletbl'[j].par = NoPar
        /\ UNCHANGED reset_flag /\ clean'
    BY <1>7 DEF qmark_set_spec, Bound, NoEntry, ZeroRule
  <2>. QED  BY <1>1, <2>1 DEF Unbinds
<1>. QED  BY <1>2, <1>3, <1>4, <1>5, <1>6, <1>7 DEF Command

\* The steps of a reset leave the rules what they hold.
LEMMA ResetUnbinds ==
    ASSUME TypeOK, ResetStep
    PROVE  /\ Unbinds
           /\ \A id \in RuleIds : g_ruletbl'[id].par = g_ruletbl[id].par
           /\ clean' => clean \/ Bound' = {}
           /\ clean => clean'
           /\ script' = "flush" => reset_flag'
           /\ script' = "destroy" => clean' /\ Bound' = {} /\ UNCHANGED reset_flag
           /\ script' \in {"idle", "flush", "destroy"}
           /\ script' = "destroy" => script = "flush"
<1>1. CASE script = "idle" /\ ResetBegin /\ script' = "flush"
  BY <1>1 DEF ResetBegin, Unbinds, Bound
<1>2. CASE script = "flush" /\ ResetFlush /\ script' = "destroy"
  <2>1. Bound' = {} /\ clean' /\ UNCHANGED reset_flag
    BY <1>2 DEF ResetFlush, Bound, NoEntry
  <2>2. \A id \in RuleIds : g_ruletbl'[id].par = g_ruletbl[id].par
    BY <1>2 DEF ResetFlush, CountsCleared, TypeOK
  <2>. QED  BY <1>2, <2>1, <2>2 DEF Unbinds
<1>3. CASE script = "end" /\ ResetEnd /\ script' = "idle"
  BY <1>3 DEF ResetEnd, Unbinds, Bound
<1>. QED  BY <1>1, <1>2, <1>3 DEF ResetStep

\* Steps that leave the table alone.
TableKept ==
    /\ UNCHANGED <<g_ruletbl, marktbl, reset_flag, clean>>
    /\ Bound' = Bound /\ InUse' = InUse /\ UsedMarks' = UsedMarks

LEMMA TreeOnly ==
    ASSUME \/ DebugTc \/ qos_tc_destroy \/ qos_tc_init \/ UNCHANGED treeVars
           \/ \E wan \in WanDevs : NetdevSet(wan)
           \/ \E d \in Devices : Unregister(d) \/ Register(d)
    PROVE  TableKept
<1>1. UNCHANGED <<g_ruletbl, marktbl, reset_flag, clean>>
  BY DEF DebugTc, TcCommand, qos_tc_destroy, qos_tc_init, treeVars, NetdevSet,
         Unregister, Register, table, vars
<1>2. Bound' = Bound
  BY <1>1 DEF Bound
<1>. QED  BY <1>1, <1>2 DEF TableKept, InUse, UsedMarks

\* Nobody changes what the administrator gives to rules.
LEMMA SamePars ==
    ASSUME [TreeNext]_treeVars
    PROVE  UNCHANGED profile /\ Pars' = Pars /\ RootOf' = RootOf
<1>1. UNCHANGED profile
  BY DEF TreeNext, treeVars, Softirq, Command, DebugTc, NetdevSet, Unregister,
         Register, ResetStep, qos_tc_destroy, qos_tc_init
<1>. QED  BY <1>1 DEF Pars, RootOf

LEMMA RulesStep ==
    ASSUME TreeTypeOK, RulesGiven, [TreeNext]_treeVars
    PROVE  RulesGiven'
<1>1. /\ TypeOK /\ profile \in Profiles /\ UNCHANGED profile
      /\ \A id \in RuleIds : g_ruletbl[id].par \in profile[id] \union {NoPar}
      /\ clean => \A ip \in Bound :
           marktbl[ip].id \in RuleIds /\ g_ruletbl[marktbl[ip].id].par # NoPar
  BY SamePars DEF TreeTypeOK, RulesGiven, Known
<1>2. ASSUME \A id \in RuleIds : g_ruletbl'[id].par \in profile[id] \union {NoPar},
             clean' => \A ip \in Bound' :
               marktbl'[ip].id \in RuleIds /\ g_ruletbl'[marktbl'[ip].id].par # NoPar
      PROVE  RulesGiven'
  BY <1>1, <1>2 DEF RulesGiven, Known
<1>3. ASSUME \A id \in RuleIds : g_ruletbl'[id].par = g_ruletbl[id].par,
             Unbinds, clean' => clean \/ Bound' = {}
      PROVE  RulesGiven'
  BY <1>1, <1>2, <1>3 DEF Unbinds
<1>4. ASSUME NEW ip \in IPs, NEW id \in Known, qmark_alloc_mark_auto(ip, id)
      PROVE  RulesGiven'
  <2>1. PICK m :
          /\ marktbl' = [marktbl EXCEPT ![ip] = [id |-> id, mark |-> m, count |-> 0]]
          /\ g_ruletbl' = [g_ruletbl EXCEPT ![id].mark = RuleMarkWith(id, m),
                                            ![id].count = @ + 1]
          /\ clean' = clean
    BY <1>4 DEF qmark_alloc_mark_auto, HashInsert
  <2>2. id \in RuleIds /\ g_ruletbl[id].par # NoPar
    BY DEF Known
  <2>3. \A j \in RuleIds : g_ruletbl'[j].par = g_ruletbl[j].par
    BY <1>1, <2>1 DEF TypeOK
  <2>4. marktbl'[ip].id = id /\ \A p \in Bound' : p # ip => p \in Bound /\ marktbl'[p] = marktbl[p]
    BY <1>1, <2>1 DEF TypeOK, Bound
  <2>. QED  BY <1>1, <1>2, <2>1, <2>2, <2>3, <2>4
<1>5. CASE Conntrack \/ \E ip \in IPs, id \in Known : AllocMarkAutoFails(ip, id)
  BY <1>1, <1>3, <1>5, SoftirqUnbinds
<1>6. CASE Softirq
  BY <1>4, <1>5, <1>6 DEF Softirq
<1>7. CASE Command
  BY <1>1, <1>2, <1>7, CommandUnbinds
<1>8. CASE ResetStep
  BY <1>1, <1>3, <1>8, ResetUnbinds
<1>9. CASE TableKept
  BY <1>1, <1>2, <1>9 DEF TableKept
<1>. QED  BY <1>6, <1>7, <1>8, <1>9, TreeOnly DEF TreeNext

LEMMA ScriptStep ==
    ASSUME TreeTypeOK, RulesGiven, ScriptQuiet, [TreeNext]_treeVars
    PROVE  ScriptQuiet'
<1>1. TypeOK /\ profile \in Profiles
  BY DEF TreeTypeOK
<1>2. ASSUME UNCHANGED <<script, reset_flag>>, Unbinds, clean /\ Bound = {} => clean'
      PROVE  ScriptQuiet'
  <2>1. Bound = {} => Bound' = {}
    BY <1>2 DEF Unbinds
  <2>. QED  BY <1>2, <2>1 DEF ScriptQuiet
<1>3. CASE Softirq
  <2>1. CASE Conntrack \/ \E ip \in IPs, id \in Known : AllocMarkAutoFails(ip, id)
    BY <1>1, <1>2, <1>3, <2>1, SoftirqUnbinds DEF Softirq
  <2>2. ASSUME NEW ip \in IPs, NEW id \in Known, qmark_alloc_mark_auto(ip, id)
        PROVE  ScriptQuiet'
    <3>1. ~reset_flag
      BY <2>2 DEF qmark_alloc_mark_auto, Misses
    <3>2. script \notin {"flush", "destroy", "init", "end"}
      BY <3>1 DEF ScriptQuiet
    <3>3. UNCHANGED script
      BY <1>3 DEF Softirq
    <3>. QED  BY <3>2, <3>3 DEF ScriptQuiet
  <2>. QED  BY <1>3, <2>1, <2>2 DEF Softirq
<1>4. CASE Command
  <2>1. UNCHANGED script
    BY <1>4 DEF Command
  <2>. QED  BY <1>1, <1>2, <1>4, <2>1, CommandUnbinds
<1>5. CASE ResetStep
  <2>1. /\ script' = "flush" => reset_flag'
        /\ script' = "destroy" => clean' /\ Bound' = {} /\ UNCHANGED reset_flag
        /\ script' \in {"idle", "flush", "destroy"}
        /\ script' = "destroy" => script = "flush"
    BY <1>1, <1>5, ResetUnbinds
  <2>. QED  BY <2>1 DEF ScriptQuiet
<1>6. CASE TableKept /\ ~ResetStep
  <2>1. \/ UNCHANGED script
        \/ script = "destroy" /\ script' = "init"
        \/ script = "init" /\ script' \in {"idle", "end"}
    BY <1>6
       DEF TreeNext, treeVars, Softirq, Command, DebugTc, NetdevSet, Unregister, Register,
           qos_tc_destroy, qos_tc_init
  <2>. QED  BY <1>6, <2>1 DEF ScriptQuiet, TableKept
<1>. QED  BY <1>3, <1>4, <1>5, <1>6, TreeOnly DEF TreeNext

-----------------------------------------------------------------------------
(* The trees, step by step.                                                *)

\* A tree that is in step now was so before, and the step was good for it.
LEMMA WorseIs ==
    ASSUME TreeTypeOK, NEW level \in [Devices -> {InStep, Missed, Wild}],
           drift' = Worse(level), NEW d \in Devices
    PROVE  /\ drift'[d] # Wild => drift[d] # Wild /\ level[d] # Wild
           /\ drift'[d] = InStep => drift[d] = InStep /\ level[d] = InStep
<1>1. /\ drift[d] \in {0, 1, 2} /\ level[d] \in {0, 1, 2}
      /\ drift'[d] = IF level[d] > drift[d] THEN level[d] ELSE drift[d]
  BY DEF TreeTypeOK, InStep, Missed, Wild, Worse
<1>. QED  BY <1>1 DEF InStep, Missed, Wild

\* What the next state's parts of the invariant say.
LEMMA OwnNext ==
    ASSUME [TreeNext]_treeVars,
           \A d \in Devices : drift'[d] # Wild => clean' /\ OwnTree(tc'[d])
    PROVE  TreesOwn'
BY SamePars DEF TreesOwn, OwnTree

LEMMA InStepNext ==
    ASSUME \A d \in Devices :
             drift'[d] = InStep /\ tc'[d].root # "none" =>
                Serves(tc'[d], d, IF d \in Targets' THEN InUse' ELSE {})
    PROVE  TreesInStep'
BY DEF TreesInStep, Serves

\* The call of a softirq, with the use it is about: nothing of a binding that
\* stays, a new or a known use, or the end of one.
LEMMA SoftirqCall ==
    ASSUME IInv, IInv', clean, RulesGiven, TreeTypeOK, Softirq,
           NEW u, u = [mark |-> tcCall'.mark, par |-> tcCall'.par]
    PROVE  /\ clean'
           /\ OnePerMark(InUse)
           /\ \/ tcCall'.op = "none" /\ InUse' = InUse
              \/ /\ tcCall'.op = "add" /\ InUse' = InUse \union {u}
                 /\ OnePerMark(InUse \union {u})
              \/ tcCall'.op = "del" /\ u \in InUse /\ InUse' = InUse \ {u}
           /\ tcCall'.op # "none" => tcCall'.par \in Pars /\ tcCall'.mark \in Marks
<1>. DEFINE Goal ==
        \/ tcCall'.op = "none" /\ InUse' = InUse
        \/ /\ tcCall'.op = "add" /\ InUse' = InUse \union {u}
           /\ OnePerMark(InUse \union {u})
        \/ tcCall'.op = "del" /\ u \in InUse /\ InUse' = InUse \ {u}
<1>1. TypeOK /\ OnePerMark(InUse) /\ mark_bitmap = UsedMarks
  BY TidyTable, UsesOne
<1>2. ASSUME NEW ip \in IPs, NEW id \in Known, qmark_alloc_mark_auto(ip, id)
      PROVE  clean' /\ Goal
  BY <1>2, UsesBind DEF qmark_alloc_mark_auto
<1>3. ASSUME NEW ip \in IPs, ConntrackDestroy(ip)
      PROVE  clean' /\ Goal
  <2>1. ip \in Bound /\ PutEntry(ip, TcDel(marktbl[ip].id, marktbl[ip].mark))
    BY <1>3 DEF ConntrackDestroy
  <2>2. clean'
    BY <2>1 DEF PutEntry
  <2>. QED  BY <2>1, <2>2, UsesPut
<1>4. ASSUME tcCall' = NoCall, UNCHANGED mark_bitmap, Unbinds, UNCHANGED clean,
             \A id \in RuleIds : g_ruletbl'[id].par = g_ruletbl[id].par
      PROVE  clean' /\ Goal
  <2>1. UsedMarks' = UsedMarks
    BY <1>1, <1>4 DEF IInv, Sound, Books
  <2>2. \A ip \in Bound : marktbl[ip].id \in RuleIds
    BY TidyTable
  <2>3. InUse' \subseteq InUse
    BY <1>4, <2>2, UsesShrink DEF Unbinds
  <2>4. InUse' = InUse
    BY <1>1, <2>1, <2>3, UsesKept
  <2>. QED  BY <1>4, <2>4 DEF NoCall
<1>5. ASSUME NEW ip \in IPs,
             ConntrackMark(ip) \/ \E id \in Known : AllocMarkAutoFails(ip, id)
      PROVE  clean' /\ Goal
  <2>1. tcCall' = NoCall /\ UNCHANGED mark_bitmap
    BY <1>5 DEF ConntrackMark, AllocMarkAutoFails
  <2>2. /\ Unbinds /\ UNCHANGED clean
        /\ \A id \in RuleIds : g_ruletbl'[id].par = g_ruletbl[id].par
    BY <1>1, <1>5, SoftirqUnbinds DEF Conntrack
  <2>. QED  BY <1>4, <2>1, <2>2
<1>6. clean' /\ Goal
  BY <1>2, <1>3, <1>5 DEF Softirq, Conntrack
<1>7. tcCall'.op # "none" => tcCall'.par \in Pars /\ tcCall'.mark \in Marks
  <2>1. u.par = tcCall'.par /\ u.mark = tcCall'.mark
    OBVIOUS
  <2>2. tcCall'.op # "none" => OnePerMark(InUse \union {u})
    BY <1>1, <1>6 DEF OnePerMark
  <2>. QED  BY <2>1, <2>2 DEF OnePerMark
<1>. QED  BY <1>1, <1>6, <1>7

\* What became of one tree in a softirq.
LEMMA SoftirqTree ==
    ASSUME OneKind, IInv, IInv', RulesGiven, TreesOwn, TreesInStep, TreeTypeOK,
           Softirq, NEW d \in Devices
    PROVE  /\ drift'[d] # Wild => clean' /\ OwnTree(tc'[d])
           /\ drift'[d] = InStep /\ tc'[d].root # "none" =>
                Serves(tc'[d], d, IF d \in Targets THEN InUse' ELSE {})
<1>1. PICK talk \in {Messages, {}} :
        /\ tc' = Sent(tcCall', talk)
        /\ drift' = Worse([e \in Devices |->
              IF tcCall'.op # "none" /\ e \in Targets \ (IF talk = {} THEN {} ELSE Reached)
              THEN Missed ELSE InStep])
  BY DEF Softirq
<1>. SUFFICES ASSUME drift'[d] # Wild
              PROVE  /\ clean' /\ OwnTree(tc'[d])
                     /\ drift'[d] = InStep /\ tc'[d].root # "none" =>
                          Serves(tc'[d], d, IF d \in Targets THEN InUse' ELSE {})
  BY DEF InStep, Wild
<1>2. /\ drift[d] # Wild
      /\ drift'[d] = InStep =>
           /\ drift[d] = InStep
           /\ tcCall'.op # "none" /\ d \in Targets => talk # {} /\ d \in Reached
  BY <1>1, WorseIs DEF Missed, InStep
<1>3. clean /\ OwnTree(tc[d]) /\ Grown(tc[d]) /\ profile \in Profiles
  BY <1>2 DEF TreesOwn, TreeTypeOK, Grown
<1>4. PICK call : call = tcCall'
  OBVIOUS
<1>5. PICK u : u = [mark |-> call.mark, par |-> call.par]
  OBVIOUS
<1>6. /\ clean' /\ OnePerMark(InUse)
      /\ \/ call.op = "none" /\ InUse' = InUse
         \/ /\ call.op = "add" /\ InUse' = InUse \union {u}
            /\ OnePerMark(InUse \union {u})
         \/ call.op = "del" /\ u \in InUse /\ InUse' = InUse \ {u}
      /\ call.op # "none" => call.par \in Pars /\ call.mark \in Marks /\ Call(call)
  BY <1>3, <1>4, <1>5, SoftirqCall, CallTyped DEF TreeTypeOK
<1>7. drift'[d] = InStep /\ tc[d].root # "none" =>
        Serves(tc[d], d, IF d \in Targets THEN InUse ELSE {})
  BY <1>2 DEF TreesInStep
<1>8. Messages # {} /\ Reached \subseteq Targets
  BY DEF Messages, Reached
<1>9. CASE call.op = "none" \/ d \notin Reached \/ talk = {}
  <2>1. tc'[d] = tc[d]
    BY <1>1, <1>4, <1>6, <1>9, NothingSent DEF Sent
  <2>2. drift'[d] = InStep => call.op = "none" \/ d \notin Targets
    BY <1>2, <1>4, <1>9
  <2>3. call.op = "none" => InUse' = InUse
    BY <1>6
  <2>. QED  BY <1>3, <1>6, <1>7, <2>1, <2>2, <2>3
<1>10. CASE call.op = "add" /\ d \in Reached /\ talk = Messages
  <2>1. tc'[d] = qmark_tc_add_rule(tc[d], d, call, Messages)
    BY <1>1, <1>4, <1>10 DEF Sent
  <2>2. OwnTree(tc'[d])
    BY <1>3, <1>6, <1>10, <2>1, OwnAdd
  <2>3. InUse' = InUse \union {u} /\ OnePerMark(InUse \union {u})
    BY <1>6, <1>10
  <2>4. tc'[d].root # "none" => tc[d].root # "none"
    BY <1>3, <2>1, AddToNone
  <2>5. drift'[d] = InStep /\ tc'[d].root # "none" => Serves(tc'[d], d, InUse \union {u})
    BY <1>3, <1>5, <1>6, <1>7, <1>8, <1>10, <2>1, <2>3, <2>4, ServesAdd
  <2>. QED  BY <1>6, <1>8, <1>10, <2>2, <2>3, <2>5
<1>11. CASE call.op = "del" /\ d \in Reached /\ talk = Messages
  <2>1. tc'[d] = qmark_tc_del_rule(tc[d], d, call, Messages)
    BY <1>1, <1>4, <1>11 DEF Sent
  <2>2. OwnTree(tc'[d])
    BY <1>3, <1>6, <1>11, <2>1, OwnDel
  <2>3. InUse' = InUse \ {u} /\ u \in InUse /\ u.mark = call.mark /\ u.par = call.par
    BY <1>5, <1>6, <1>11
  <2>4. tc'[d].root = tc[d].root
    BY <1>3, <1>6, <1>11, <2>1, DelMakes
  <2>5. drift'[d] = InStep /\ tc'[d].root # "none" => Serves(tc'[d], d, InUse \ {u})
    BY <1>3, <1>6, <1>7, <1>8, <1>11, <2>1, <2>3, <2>4, ServesDel
  <2>. QED  BY <1>6, <1>8, <1>11, <2>2, <2>3, <2>5
<1>. QED  BY <1>6, <1>8, <1>9, <1>10, <1>11

\* A tree that is not there belongs to nobody else, and what tc.sh builds is
\* what rules of the kind have.
LEMMA BareOwn ==
    /\ OwnTree(NoTree) /\ NoTree.root = "none"
    /\ OwnTree([NoTree EXCEPT !.root = RootOf, !.classes = Base(RootOf)])
    /\ \A d : Serves([NoTree EXCEPT !.root = RootOf, !.classes = Base(RootOf)], d, {})
<1>1. OwnTree(NoTree) /\ NoTree.root = "none"
  BY DEF NoTree, OwnTree, Base
<1>2. PICK s : s = [NoTree EXCEPT !.root = RootOf, !.classes = Base(RootOf)]
  OBVIOUS
<1>3. s.root = RootOf /\ s.classes = Base(RootOf) /\ s.leaves = {} /\ s.filters = {}
  BY <1>2 DEF NoTree
<1>4. RootOf # "none"
  BY DEF RootOf
<1>5. OwnTree(s) /\ \A d : Serves(s, d, {})
  BY <1>3, <1>4 DEF OwnTree, Serves
<1>. QED  BY <1>1, <1>2, <1>5

\* A command that leaves a tree in step took no use away and changed none.
LEMMA CommandTree ==
    ASSUME IInv, RulesGiven, TreesOwn, TreesInStep, TreeTypeOK, Command, NEW d \in Devices
    PROVE  /\ drift'[d] # Wild => clean' /\ OwnTree(tc'[d])
           /\ drift'[d] = InStep /\ tc'[d].root # "none" =>
                Serves(tc'[d], d, IF d \in Targets' THEN InUse' ELSE {})
<1>. DEFINE Over == \/ ~clean'
                    \/ \E ip \in Bound \intersect Bound' :
                         g_ruletbl'[marktbl'[ip].id].par # g_ruletbl[marktbl[ip].id].par
            Lost == UsedMarks' # UsedMarks
<1>1. /\ drift' = Worse([e \in Devices |->
            IF Over THEN Wild ELSE IF Lost THEN Missed ELSE InStep])
      /\ tc' = tc /\ Targets' = Targets
  BY DEF Command, Targets
<1>. HIDE DEF Over, Lost
<1>2. /\ drift'[d] # Wild => drift[d] # Wild /\ ~Over
      /\ drift'[d] = InStep => drift[d] = InStep /\ ~Over /\ ~Lost
  BY <1>1, WorseIs DEF InStep, Missed, Wild
<1>3. drift'[d] # Wild => clean' /\ OwnTree(tc'[d])
  BY <1>1, <1>2 DEF TreesOwn, Over
<1>4. ASSUME drift'[d] = InStep PROVE InUse' = InUse
  <2>1. clean
    BY <1>2, <1>4 DEF TreesOwn, InStep, Wild
  <2>2. Unbinds
    BY CommandUnbinds DEF TreeTypeOK
  <2>3. \A ip \in Bound' :
          g_ruletbl'[marktbl'[ip].id].par = g_ruletbl[marktbl[ip].id].par
    BY <1>2, <1>4, <2>2 DEF Over, Unbinds
  <2>4. InUse' \subseteq InUse
    BY <2>2, <2>3, UsesShrink DEF Unbinds
  <2>. QED  BY <1>2, <1>4, <2>1, <2>4, UsesOne, UsesKept DEF Lost
<1>. QED  BY <1>1, <1>2, <1>3, <1>4 DEF TreesInStep

LEMMA ResetTree ==
    ASSUME IInv, RulesGiven, TreesOwn, TreesInStep, TreeTypeOK, ResetStep, NEW d \in Devices
    PROVE  /\ drift'[d] # Wild => clean' /\ OwnTree(tc'[d])
           /\ drift'[d] = InStep /\ tc'[d].root # "none" =>
                Serves(tc'[d], d, IF d \in Targets' THEN InUse' ELSE {})
<1>. DEFINE Lost == UsedMarks' # UsedMarks
<1>1. /\ drift' = Worse([e \in Devices |-> IF Lost THEN Missed ELSE InStep])
      /\ tc' = tc /\ Targets' = Targets
  BY DEF ResetStep, Targets
<1>. HIDE DEF Lost
<1>2. /\ drift'[d] # Wild => drift[d] # Wild
      /\ drift'[d] = InStep => drift[d] = InStep /\ ~Lost
  BY <1>1, WorseIs DEF InStep, Missed, Wild
<1>3. /\ Unbinds
      /\ clean => clean'
      /\ \A id \in RuleIds : g_ruletbl'[id].par = g_ruletbl[id].par
  BY ResetUnbinds DEF TreeTypeOK
<1>4. drift'[d] # Wild => clean' /\ OwnTree(tc'[d])
  BY <1>1, <1>2, <1>3 DEF TreesOwn
<1>5. ASSUME drift'[d] = InStep PROVE InUse' = InUse
  <2>1. clean
    BY <1>2, <1>5 DEF TreesOwn, InStep, Wild
  <2>2. \A ip \in Bound : marktbl[ip].id \in RuleIds
    BY <2>1, TidyTable
  <2>3. Unbinds
    BY ResetUnbinds DEF TreeTypeOK
  <2>4. InUse' \subseteq InUse
    BY <1>3, <2>2, <2>3, UsesShrink DEF Unbinds
  <2>. QED  BY <1>2, <1>5, <2>1, <2>4, UsesOne, UsesKept DEF Lost
<1>. QED  BY <1>1, <1>2, <1>4, <1>5 DEF TreesInStep

\* Every step preserves the invariant of the trees, action by action.
LEMMA TreesStep ==
    ASSUME OneKind, IInv, IInv', TreeTypeOK, TreeInv, [TreeNext]_treeVars
    PROVE  TreesOwn' /\ TreesInStep'
<1>1. /\ RulesGiven /\ ScriptQuiet /\ TreesOwn /\ TreesInStep
      /\ profile \in Profiles /\ tc \in [Devices -> Trees]
      /\ drift \in [Devices -> {InStep, Missed, Wild}]
  BY DEF TreeInv, TreeTypeOK
<1>. DEFINE Goal(d) ==
        /\ drift'[d] # Wild => clean' /\ OwnTree(tc'[d])
        /\ drift'[d] = InStep /\ tc'[d].root # "none" =>
             Serves(tc'[d], d, IF d \in Targets' THEN InUse' ELSE {})
<1>. SUFFICES ASSUME NEW d \in Devices PROVE Goal(d)
  BY OwnNext, InStepNext
<1>2. CASE Softirq
  <2>1. Targets' = Targets
    BY <1>2 DEF Softirq, Targets
  <2>. QED  BY <1>1, <1>2, <2>1, SoftirqTree
<1>3. CASE Command
  BY <1>1, <1>3, CommandTree
<1>4. CASE ResetStep
  BY <1>1, <1>4, ResetTree
<1>5. CASE DebugTc
  BY <1>5 DEF DebugTc, InStep, Wild
<1>6. ASSUME NEW wan \in WanDevs, NetdevSet(wan) PROVE Goal(d)
  <2>1. /\ drift' = Worse([e \in Devices |->
             IF e \in WanDevs /\ UsedMarks # {} THEN Missed ELSE InStep])
        /\ tc' = tc /\ Targets' = {LanDev, wan}
    BY <1>6 DEF NetdevSet, Targets
  <2>2. TableKept
    BY <1>6, TreeOnly
  <2>3. /\ drift'[d] # Wild => drift[d] # Wild
        /\ drift'[d] = InStep => drift[d] = InStep /\ (d \notin WanDevs \/ UsedMarks = {})
    BY <2>1, WorseIs DEF InStep, Missed, Wild
  <2>4. d \notin WanDevs => d = LanDev /\ d \in Targets /\ d \in Targets'
    BY <2>1 DEF Devices, Targets
  <2>5. UsedMarks = {} => InUse = {}
    BY DEF UsedMarks, InUse
  <2>. QED  BY <1>1, <2>1, <2>2, <2>3, <2>4, <2>5 DEF TreesOwn, TreesInStep, TableKept
<1>7. ASSUME NEW e \in Devices, Unregister(e) PROVE Goal(d)
  <2>1. /\ drift' = drift /\ Targets' = Targets
        /\ tc'[d] = IF d = e THEN NoTree ELSE tc[d]
    BY <1>1, <1>7 DEF Unregister, Targets
  <2>2. TableKept
    BY <1>7, TreeOnly
  <2>. QED  BY <1>1, <2>1, <2>2, BareOwn DEF TreesOwn, TreesInStep, TableKept
<1>8. ASSUME UNCHANGED <<tc, drift, qmark_wan_dev>>, TableKept PROVE Goal(d)
  BY <1>1, <1>8 DEF TreesOwn, TreesInStep, TableKept, Targets
<1>9. ASSUME NEW e \in Devices, Register(e) PROVE Goal(d)
  BY <1>8, <1>9, TreeOnly DEF Register
<1>10. CASE qos_tc_destroy
  <2>1. tc'[d] = NoTree /\ drift'[d] = (IF clean THEN InStep ELSE Wild) /\ UNCHANGED clean
    BY <1>10, TreeOnly DEF qos_tc_destroy, TableKept
  <2>. QED  BY <2>1, BareOwn
<1>11. CASE qos_tc_init
  <2>1. /\ TableKept /\ UNCHANGED <<drift, qmark_wan_dev>> /\ script = "init"
    BY <1>11, TreeOnly DEF qos_tc_init
  <2>2. Bound = {} /\ InUse = {} /\ clean
    BY <1>1, <2>1 DEF ScriptQuiet, InUse
  <2>3. CASE UNCHANGED tc
    BY <1>8, <2>1, <2>3
  <2>4. ASSUME NEW id \in Known,
               tc' = [e \in Devices |->
                  IF e \in Targets \intersect present
                  THEN [NoTree EXCEPT !.root = IF g_ruletbl[id].par.devid = 0
                                               THEN "all" ELSE "ifaces",
                                      !.classes = Base(IF g_ruletbl[id].par.devid = 0
                                                       THEN "all" ELSE "ifaces")]
                  ELSE tc[e]]
        PROVE  Goal(d)
    <3>1. (IF g_ruletbl[id].par.devid = 0 THEN "all" ELSE "ifaces") = RootOf
      <4>1. PICK par \in Pars : par = g_ruletbl[id].par
        BY <1>1, KnownPars
      <4>2. /\ RootOf = "all" => par.devid = 0
            /\ RootOf = "ifaces" => par.devid # 0
            /\ RootOf \in {"all", "ifaces"}
        BY <1>1, KindOf
      <4>. QED  BY <4>1, <4>2
    <3>2. tc' = [e \in Devices |->
                  IF e \in Targets \intersect present
                  THEN [NoTree EXCEPT !.root = RootOf, !.classes = Base(RootOf)]
                  ELSE tc[e]]
      BY <2>4, <3>1
    <3>3. CASE d \in Targets \intersect present
      <4>1. tc'[d] = [NoTree EXCEPT !.root = RootOf, !.classes = Base(RootOf)]
        BY <3>2, <3>3
      <4>2. InUse' = {} /\ clean'
        BY <2>1, <2>2 DEF TableKept
      <4>. QED  BY <4>1, <4>2, BareOwn
    <3>4. CASE d \notin Targets \intersect present
      <4>1. tc'[d] = tc[d]
        BY <3>2, <3>4
      <4>. QED  BY <1>1, <2>1, <2>2, <4>1 DEF TreesOwn, TreesInStep, TableKept
    <3>. QED  BY <3>3, <3>4
  <2>. QED  BY <1>11, <2>3, <2>4 DEF qos_tc_init
<1>12. CASE UNCHANGED treeVars
  BY <1>8, <1>12, TreeOnly DEF treeVars
<1>. QED
  BY <1>2, <1>3, <1>4, <1>5, <1>6, <1>7, <1>9, <1>10, <1>11, <1>12 DEF TreeNext

LEMMA TreeInvInit == TreeInit => TreeInv
<1>. SUFFICES ASSUME TreeInit PROVE TreeInv
  OBVIOUS
<1>1. /\ Bound = {} /\ clean /\ script = "idle"
      /\ \A d \in Devices : tc[d] = NoTree
      /\ \A id \in RuleIds : g_ruletbl[id].par = NoPar
  BY DEF TreeInit, Init, Bound, NoEntry, ZeroRule
<1>. QED  BY <1>1, BareOwn DEF TreeInv, RulesGiven, ScriptQuiet, TreesOwn, TreesInStep

\* The invariant: while the rules are of one kind, the trees nobody overwrote
\* are the module's and the script's alone, and a tree that missed nothing has
\* one class, one queue and one filter for each use the table makes of a mark.
THEOREM TreeInvariantHolds == OneKind => (TreeSpec => []TreeInv)
<1>. SUFFICES ASSUME OneKind PROVE TreeSpec => []TreeInv
  OBVIOUS
<1>1. IInv /\ IInv' /\ TreeTypeOK /\ TreeInv /\ [TreeNext]_treeVars => TreeInv'
  <2>. SUFFICES ASSUME IInv, IInv', TreeTypeOK, TreeInv, [TreeNext]_treeVars PROVE TreeInv'
    OBVIOUS
  <2>1. RulesGiven' /\ ScriptQuiet'
    BY RulesStep, ScriptStep DEF TreeInv
  <2>. QED  BY <2>1, TreesStep DEF TreeInv
<1>. QED
  BY <1>1, TreeInvInit, TreeImplementsTable, TreeTypeCorrect, InvariantHolds, PTL DEF TreeSpec

-----------------------------------------------------------------------------
(* What it says of the trees.                                              *)

LEMMA TreeImplies ==
    ASSUME OneKind, TreeTypeOK, TreeInv
    PROVE  OwnClass /\ TreeFollowsTable
<1>1. profile \in Profiles /\ TreesOwn /\ TreesInStep
  BY DEF TreeTypeOK, TreeInv
<1>2. Targets \subseteq Devices
  BY DEF TreeTypeOK, Targets, Devices
<1>3. ASSUME NEW d \in Targets, drift[d] # Wild
      PROVE  /\ Base(tc[d].root) \subseteq tc[d].classes
             /\ \A f \in tc[d].filters :
                  /\ \E c \in tc[d].classes \ Base(tc[d].root) : c.id = f.cid
                  /\ \A g \in tc[d].filters : g.cid = f.cid => g = f
  <2>1. PICK t : t = tc[d] /\ OwnTree(t)
    BY <1>1, <1>2, <1>3 DEF TreesOwn
  <2>2. Base(t.root) \subseteq t.classes
    BY <2>1 DEF OwnTree
  <2>3. ASSUME NEW f \in t.filters
        PROVE  /\ \E c \in t.classes \ Base(t.root) : c.id = f.cid
               /\ \A g \in t.filters : g.cid = f.cid => g = f
    <3>1. PICK par \in Pars : f.cid = ClassId(par, f.mark) /\ f.mark \in Marks
      BY <2>1 DEF OwnTree
    <3>2. t.root = RootOf
      BY <2>1 DEF OwnTree
    <3>3. PICK c \in t.classes : c.id = f.cid
      BY <2>1 DEF OwnTree, Ids
    <3>4. c \notin Base(t.root)
      BY <1>1, <3>1, <3>2, <3>3, ClassIdNew
    <3>5. ASSUME NEW g \in t.filters, g.cid = f.cid PROVE g = f
      <4>1. PICK q \in Pars : g.cid = ClassId(q, g.mark) /\ g.mark \in Marks
        BY <2>1 DEF OwnTree
      <4>2. g.mark = f.mark
        BY <1>1, <3>1, <3>5, <4>1, ClassIdOneToOne
      <4>. QED  BY <2>1, <4>2 DEF OwnTree
    <3>. QED  BY <3>3, <3>4, <3>5
  <2>. QED  BY <2>1, <2>2, <2>3
<1>4. ASSUME NEW d \in Targets, drift[d] = InStep, tc[d].root # "none"
      PROVE  LET made == {ClassOf(ip, d) : ip \in Bound}
             IN  /\ tc[d].classes = Base(tc[d].root) \union made
                 /\ tc[d].leaves = {c.id : c \in made}
                 /\ tc[d].filters = {[mark |-> marktbl[ip].mark, held |-> TRUE,
                                      cid |-> ClassOf(ip, d).id] : ip \in Bound}
  <2>. DEFINE use(ip) == [mark |-> marktbl[ip].mark, par |-> g_ruletbl[marktbl[ip].id].par]
              made == {ClassOf(ip, d) : ip \in Bound}
  <2>1. Serves(tc[d], d, InUse)
    BY <1>1, <1>2, <1>4 DEF TreesInStep
  <2>2. InUse = {use(ip) : ip \in Bound}
    BY DEF InUse
  <2>3. \A ip \in Bound :
          /\ UseClass(use(ip), d) = ClassOf(ip, d)
          /\ ClassId(use(ip).par, use(ip).mark) = ClassOf(ip, d).id
          /\ UseFilter(use(ip)) = [mark |-> marktbl[ip].mark, held |-> TRUE,
                                   cid |-> ClassOf(ip, d).id]
    BY DEF UseClass, UseFilter, ClassOf
  <2>. HIDE DEF use
  <2>4. {UseClass(u, d) : u \in InUse} = made
    BY <2>2, <2>3
  <2>5. {ClassId(u.par, u.mark) : u \in InUse} = {c.id : c \in made}
    BY <2>2, <2>3
  <2>6. {UseFilter(u) : u \in InUse} =
          {[mark |-> marktbl[ip].mark, held |-> TRUE, cid |-> ClassOf(ip, d).id] : ip \in Bound}
    BY <2>2, <2>3
  <2>. QED  BY <2>1, <2>4, <2>5, <2>6 DEF Serves
<1>5. OwnClass
  BY <1>3 DEF OwnClass
<1>. QED  BY <1>4, <1>5 DEF TreeFollowsTable

\* Every filter leads to a class the module made for its mark alone, and the
\* interfaces' own classes stay, on trees that lost messages too.
THEOREM OwnClassHolds == OneKind => (TreeSpec => []OwnClass)
<1>. SUFFICES ASSUME OneKind PROVE TreeSpec => []OwnClass
  OBVIOUS
<1>1. TreeTypeOK /\ TreeInv => OwnClass
  BY TreeImplies
<1>2. TreeSpec => []TreeInv
  BY TreeInvariantHolds
<1>. QED  BY <1>1, <1>2, TreeTypeCorrect, PTL

\* A tree that missed nothing has exactly what the table's bindings ask for.
THEOREM TreeFollowsTableHolds == OneKind => (TreeSpec => []TreeFollowsTable)
<1>. SUFFICES ASSUME OneKind PROVE TreeSpec => []TreeFollowsTable
  OBVIOUS
<1>1. TreeTypeOK /\ TreeInv => TreeFollowsTable
  BY TreeImplies
<1>2. TreeSpec => []TreeInv
  BY TreeInvariantHolds
<1>. QED  BY <1>1, <1>2, TreeTypeCorrect, PTL

-----------------------------------------------------------------------------
(* The rates of the classes.                                               *)

\* Rates that fit the 32 bits of tc_htb_opt_parse, and mtus for which those of
\* qmark_tc_calc_rtable do: from 2048 on its products wrap.
RatesFit ==
    /\ \A k \in Kbits : k \in Nat /\ k <= 4294967
    /\ \A d \in Devices : DevMtu[d] \in Nat /\ DevMtu[d] <= 2047

\* What a rate and a ceil of a rule stand for.
AsRate(k) == IF k = 0 THEN 1 ELSE k
AsCeil(k) == IF k = 0 THEN 1000000 ELSE k

\* The rate tables of a rule's class keep it to the rates of the rule.
LEMMA RatesTracked ==
    ASSUME RatesFit, NEW k \in Kbits, NEW d \in Devices
    PROVE  /\ <<HtbRate(k), AsRate(k), DevMtu[d]>> \in Tracked
           /\ <<HtbCeil(k), AsCeil(k), DevMtu[d]>> \in Tracked
<1>1. PICK min, max, mtu : min = AsRate(k) /\ max = AsCeil(k) /\ mtu = DevMtu[d]
  OBVIOUS
<1>2. k \in Nat /\ k <= 4294967 /\ mtu \in Nat /\ mtu <= 2047
  BY <1>1 DEF RatesFit
<1>3. /\ TableTracks(qmark_tc_calc_rtable(HtbRate(k), mtu), min, mtu)
      /\ TableTracks(qmark_tc_calc_rtable(HtbCeil(k), mtu), max, mtu)
  BY <1>1, <1>2, RuleRatesTracked DEF AsRate, AsCeil
<1>4. min > 0 /\ max > 0
  BY <1>1, <1>2 DEF AsRate, AsCeil
<1>. DEFINE bps == {HtbRate(j) : j \in Kbits} \union {HtbCeil(j) : j \in Kbits}
            mtus == {DevMtu[e] : e \in Devices}
<1>5. /\ HtbRate(k) \in bps /\ HtbCeil(k) \in bps /\ mtu \in mtus
      /\ min \in Kbits \union {1, 1000000} /\ max \in Kbits \union {1, 1000000}
  BY <1>1 DEF AsRate, AsCeil
<1>. HIDE DEF bps, mtus
<1>6. /\ <<HtbRate(k), min, mtu>> \in bps \X (Kbits \union {1, 1000000}) \X mtus
      /\ <<HtbCeil(k), max, mtu>> \in bps \X (Kbits \union {1, 1000000}) \X mtus
  BY <1>5
<1>7. Tracked = {t \in bps \X (Kbits \union {1, 1000000}) \X mtus :
                   t[2] > 0 /\ TableTracks(qmark_tc_calc_rtable(t[1], t[3]), t[2], t[3])}
  BY DEF Tracked, bps, mtus
<1>8. <<HtbRate(k), min, mtu>> \in Tracked /\ <<HtbCeil(k), max, mtu>> \in Tracked
  BY <1>3, <1>4, <1>6, <1>7
<1>. QED  BY <1>1, <1>8

LEMMA RatesImplied ==
    ASSUME OneKind, RatesFit, TreeTypeOK, IInv, TreeInv
    PROVE  RatesHonoured
<1>. SUFFICES ASSUME NEW d \in Targets, NEW ip \in Bound, clean, drift[d] = InStep,
                     NEW c \in tc[d].classes, c.id = ClassOf(ip, d).id,
                     NEW par, par = g_ruletbl[marktbl[ip].id].par,
                     NEW min, min = (IF d = LanDev THEN par.rate_min_mate ELSE par.rate_min),
                     NEW max, max = (IF d = LanDev THEN par.rate_mate ELSE par.rate)
              PROVE  /\ <<c.rates.rate, IF min = 0 THEN 1 ELSE min, DevMtu[d]>> \in Tracked
                     /\ <<c.rates.ceil, IF max = 0 THEN 1000000 ELSE max, DevMtu[d]>>
                          \in Tracked
  BY DEF RatesHonoured
<1>1. d \in Devices
  BY DEF TreeTypeOK, Targets, Devices
<1>2. /\ profile \in Profiles /\ RulesGiven
      /\ OwnTree(tc[d]) /\ (tc[d].root # "none" => Serves(tc[d], d, InUse))
  BY <1>1 DEF TreeTypeOK, TreeInv, TreesOwn, TreesInStep, InStep, Wild
<1>3. PICK u : u = [mark |-> marktbl[ip].mark, par |-> par]
  OBVIOUS
<1>4. u \in InUse /\ u.par = par /\ OnePerMark(InUse)
  BY <1>2, <1>3, UsesOne DEF InUse
<1>5. c.id = ClassId(u.par, u.mark) /\ u.par \in Pars /\ u.mark \in Marks
  BY <1>3, <1>4 DEF ClassOf, OnePerMark
<1>6. tc[d].root = RootOf /\ Serves(tc[d], d, InUse)
  BY <1>2 DEF OwnTree
<1>7. c \notin Base(tc[d].root)
  BY <1>2, <1>5, <1>6, ClassIdNew
<1>8. PICK v \in InUse : c = UseClass(v, d)
  BY <1>6, <1>7 DEF Serves
<1>9. v = u
  BY <1>2, <1>4, <1>5, <1>8, UsesApart DEF UseClass
<1>10. c.rates = Rates(par, d)
  BY <1>4, <1>8, <1>9 DEF UseClass
<1>11. par \in Params
  BY <1>2, <1>4, <1>5, KindOf
<1>12. min \in Kbits /\ max \in Kbits
  BY <1>11 DEF Kbits
<1>13. c.rates.rate = HtbRate(min) /\ c.rates.ceil = HtbCeil(max)
  BY <1>10 DEF Rates
<1>14. /\ <<c.rates.rate, AsRate(min), DevMtu[d]>> \in Tracked
       /\ <<c.rates.ceil, AsCeil(max), DevMtu[d]>> \in Tracked
  BY <1>1, <1>12, <1>13, RatesTracked
<1>. QED  BY <1>14 DEF AsRate, AsCeil

\* The class that shapes a bound address keeps it to the rates its rule has for
\* the direction: never more, and hardly less, for every packet size.
THEOREM RatesHonouredHolds == OneKind /\ RatesFit => (TreeSpec => []RatesHonoured)
<1>. SUFFICES ASSUME OneKind, RatesFit PROVE TreeSpec => []RatesHonoured
  OBVIOUS
<1>1. TreeTypeOK /\ IInv /\ TreeInv => RatesHonoured
  BY RatesImplied
<1>2. TreeSpec => []TreeInv
  BY TreeInvariantHolds
<1>. QED  BY <1>1, <1>2, TreeTypeCorrect, TreeImplementsTable, InvariantHolds, PTL

=============================================================================
