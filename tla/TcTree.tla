------------------------------- MODULE TcTree -------------------------------
(***************************************************************************)
(* The tc objects of the LAN and the WAN device: what the module's netlink *)
(* messages (src/kmod/qos_marktbl_tc.c) and the scripts' tc commands       *)
(* (src/script/lib/ip_qos/tc.sh) make of them while the mark table works.  *)
(*                                                                         *)
(* A call of qmark_tc_add_rule or qmark_tc_del_rule comes with a step of   *)
(* QMarkTable (tcCall').  In softirq on one processor nobody can take or   *)
(* release rtnl_mutex during the call: all of its messages are sent or     *)
(* none is.  The debug ioctls run in process context, where each message   *)
(* may find the mutex taken.  What the kernel does with a message it       *)
(* refuses is ignored by the module, and is nothing here.                  *)
(***************************************************************************)
EXTENDS QMarkTable, TcRates

CONSTANTS LanDev,       \* the LAN device
          WanDevs,      \* devices that may be named as the WAN device
          DevMtu,       \* device -> mtu
          WanIfs,       \* number of WAN interfaces: devid is 0..WanIfs
          Profiles      \* rule id -> Params it may have: a choice for all rules

\* What a rule holds, in kbit/s, and TC_MAX_IP_CNT: the marks of a device fit
\* its block of class ids, and the last block 16 bits.
ASSUME TreeAssumption ==
    /\ WanIfs \in Nat
    /\ Params \union {NoPar} \subseteq
         [devid : 0..WanIfs, rate : Nat, rate_mate : Nat,
          rate_min : Nat, rate_min_mate : Nat]
    /\ \A n \in IpSpecs : n <= 4096 /\ (WanIfs + 1) * 4096 + n <= 65535
    /\ Profiles \subseteq [RuleIds -> SUBSET Params]

VARIABLES profile,        \* the parameters the administrator uses
          qmark_wan_dev,
          present,        \* the devices dev_get_by_name finds
          tc,             \* device -> [root, classes, leaves, filters]
          script,         \* where qos_reset (core.sh) is
          drift           \* ghost: device -> how far its tree may be off

table == vars           \* the variables of QMarkTable
treeVars == <<table, profile, qmark_wan_dev, present, tc, script, drift>>

Devices == {LanDev} \union WanDevs
Targets == {LanDev, qmark_wan_dev}
NoTree == [root |-> "none", classes |-> {}, leaves |-> {}, filters |-> {}]

\* How far a tree may be off: not at all, it missed messages or was not told,
\* a command wrote over what is in use.
InStep == 0
Missed == 1
Wild == 2

Worse(level) ==
    [d \in Devices |-> IF level[d] > drift[d] THEN level[d] ELSE drift[d]]

-----------------------------------------------------------------------------
(* Class ids (the minor number of 1:id) and rates.                         *)

\* Seeded fault: the block of ids of the device is left out.
ClassIdNoBlock(par, m) == m + 1

\* Seeded fault: the device goes into the major number.
ClassIdMajor(par, m) == IF par.devid = 0 THEN m + 1 ELSE par.devid * 65536 + m

ClassId(par, m) ==
    IF par.devid = 0 THEN m + 1 ELSE (par.devid + 1) * 4096 + m

ParentId(par) == IF par.devid = 0 THEN 1 ELSE par.devid + 1

\* Downlink rates on the LAN device, uplink rates on the WAN device.
Rates(par, d) ==
    IF d = LanDev
    THEN [rate |-> HtbRate(par.rate_min_mate), ceil |-> HtbCeil(par.rate_mate)]
    ELSE [rate |-> HtbRate(par.rate_min), ceil |-> HtbCeil(par.rate)]

\* The classes tc.sh makes have line rates of their own.
BaseClass(id, parent) ==
    [id |-> id, parent |-> parent, rates |-> [rate |-> 0, ceil |-> 0]]

Base(root) ==
    CASE root = "none" -> {}
      [] root = "all" -> {BaseClass(1, 0)}
      [] root = "ifaces" -> {BaseClass(1, 0)}
            \union {BaseClass(i + 1, 1) : i \in 1..WanIfs}

-----------------------------------------------------------------------------
(* What the kernel does with one message to a device with tree t.          *)

Ids(t) == {c.id : c \in t.classes}
Inner(t, id) == \E c \in t.classes : c.parent = id

\* RTM_NEWTCLASS with NLM_F_EXCL; a parent that is not there counts as root.
NewClass(t, id, parent, rates) ==
    IF t.root = "none" \/ id \in Ids(t) THEN t
    ELSE [t EXCEPT
            !.classes = @ \union {[id |-> id, rates |-> rates,
                parent |-> IF parent \in Ids(t) THEN parent ELSE 0]},
            !.leaves = @ \ {parent}]

\* htb_delete refuses a class with children or with filters bound to it.
DelClass(t, id) ==
    IF Inner(t, id) \/ \E f \in t.filters : f.held /\ f.cid = id THEN t
    ELSE [t EXCEPT !.classes = {c \in @ : c.id # id}, !.leaves = @ \ {id}]

\* RTM_NEWQDISC: only a leaf class takes a queue.
NewLeaf(t, id) ==
    IF id \notin Ids(t) \/ Inner(t, id) THEN t
    ELSE [t EXCEPT !.leaves = @ \union {id}]

\* RTM_NEWTFILTER: refused for mark 0 and for a mark that has a filter; bound
\* to the class if it is there.
NewFilter(t, m, id) ==
    IF t.root = "none" \/ m = 0 \/ \E f \in t.filters : f.mark = m THEN t
    ELSE [t EXCEPT !.filters = @ \union
            {[mark |-> m, cid |-> id, held |-> id \in Ids(t)]}]

\* RTM_DELTFILTER: handle 0 means all filters of the priority.
DelFilter(t, m) ==
    [t EXCEPT !.filters = {f \in @ : m # 0 /\ f.mark # m}]

-----------------------------------------------------------------------------
(* The module's calls.  `sent' are the kinds of messages that go out.      *)

Messages == {"class", "leaf", "filter"}

\* A message of this kind goes out, or is skipped with rtnl_mutex taken.
qmark_tc_rtnl_talk(kind, sent, before, after) ==
    IF kind \in sent THEN after ELSE before

tc_htb_class_modify(cmd, t, d, call, sent) ==
    LET id == ClassId(call.par, call.mark)
    IN  qmark_tc_rtnl_talk("class", sent, t,
            IF cmd = "new"
            THEN NewClass(t, id, ParentId(call.par), Rates(call.par, d))
            ELSE DelClass(t, id))

tc_pfifo_qdisc_modify(t, call, sent) ==
    qmark_tc_rtnl_talk("leaf", sent, t, NewLeaf(t, ClassId(call.par, call.mark)))

tc_fw_filter_modify(cmd, t, call, sent) ==
    qmark_tc_rtnl_talk("filter", sent, t,
        IF cmd = "new" THEN NewFilter(t, call.mark, ClassId(call.par, call.mark))
                       ELSE DelFilter(t, call.mark))

qmark_tc_add_rule(t, d, call, sent) ==
    LET t1 == tc_htb_class_modify("new", t, d, call, sent)
        t2 == tc_pfifo_qdisc_modify(t1, call, sent)
    IN  tc_fw_filter_modify("new", t2, call, sent)

\* Seeded fault: the class is deleted before the filter that leads to it.
DelClassFirst(t, d, call, sent) ==
    tc_fw_filter_modify("del",
        tc_htb_class_modify("del", t, d, call, sent), call, sent)

\* The queue goes with its class.
qmark_tc_del_rule(t, d, call, sent) ==
    tc_htb_class_modify("del",
        tc_fw_filter_modify("del", t, call, sent), d, call, sent)

\* The devices a call gets to: every loop over the two devices returns at one
\* that is missing, and the LAN device comes first.
Reached == IF LanDev \in present THEN Targets \intersect present ELSE {}

\* The trees after call, of whose messages those in sent went out.
Sent(call, sent) ==
    [d \in Devices |->
        CASE d \notin Reached \/ call.op = "none" -> tc[d]
          [] d \in Reached /\ call.op = "add" ->
                qmark_tc_add_rule(tc[d], d, call, sent)
          [] d \in Reached /\ call.op = "del" ->
                qmark_tc_del_rule(tc[d], d, call, sent)]

-----------------------------------------------------------------------------

TreeInit ==
    /\ Init
    /\ profile \in Profiles
    /\ qmark_wan_dev \in WanDevs
    /\ present = Devices
    /\ tc = [d \in Devices |-> NoTree]
    /\ script = "idle"
    /\ drift = [d \in Devices |-> InStep]

\* The rules the kernel has: `qmark -a' comes before the iptables rule.
Known == {id \in RuleIds : g_ruletbl[id].par # NoPar}

\* A packet or a connection event, with rtnl_is_locked() throughout or never.
\* The packet that stops the kernel (AllocMarkAutoOops) sends nothing and is
\* left out: it only comes after a rewrite, from which nothing is claimed.
Softirq ==
    /\ \/ \E ip \in IPs, id \in Known :
             qmark_alloc_mark_auto(ip, id) \/ AllocMarkAutoFails(ip, id)
       \/ Conntrack
    /\ \E talk \in {Messages, {}} :
        /\ tc' = Sent(tcCall', talk)
        /\ LET told == IF talk = {} THEN {} ELSE Reached
           IN  drift' = Worse([d \in Devices |->
                  IF tcCall'.op # "none" /\ d \in Targets \ told
                  THEN Missed ELSE InStep])
    /\ UNCHANGED <<profile, qmark_wan_dev, present, script>>

\* Commands that change the table and do not tell tc: those of the scripts and
\* the removal of bindings by hand (the others are QMarkTable's alone).
Command ==
    /\ \/ \E id \in RuleIds, mode \in {PRIV_MODE, SHARE_MODE},
             par \in Params : par \in profile[id] /\ qmark_add_rule(id, mode, par)
       \/ \E id \in RuleIds : qmark_del_rule(id)
       \/ qmark_flush_rule
       \/ \E ip \in IPs : qmark_del_hash(ip)
       \/ qmark_flush_hash
       \/ \E ip_spec \in IpSpecs : qmark_set_spec(ip_spec)
    /\ drift' = Worse([d \in Devices |->
          IF ~clean' \/ \E ip \in Bound \intersect Bound' :
                           g_ruletbl'[marktbl'[ip].id].par
                               # g_ruletbl[marktbl[ip].id].par
          THEN Wild
          ELSE IF UsedMarks' # UsedMarks THEN Missed ELSE InStep])
    /\ UNCHANGED <<profile, qmark_wan_dev, present, tc, script>>

\* QMARK_IOC_TC_ADD and QMARK_IOC_TC_DEL.  A kind of message is lost for both
\* devices or for none: nothing is claimed of the trees that this leaves until
\* they are taken down.
DebugTc ==
    /\ TcCommand
    /\ \E talk \in SUBSET Messages : tc' = Sent(tcCall', talk)
    /\ drift' = [d \in Devices |-> Wild]
    /\ UNCHANGED <<profile, qmark_wan_dev, present, script>>

\* QMARK_IOC_NETDEV_SET; the LAN device is always the same one.
NetdevSet(wan) ==
    /\ wan # qmark_wan_dev
    /\ qmark_wan_dev' = wan
    /\ drift' = Worse([d \in Devices |->
          IF d \in WanDevs /\ UsedMarks # {} THEN Missed ELSE InStep])
    /\ UNCHANGED <<table, profile, present, tc, script>>

\* A device and its qdiscs go away; it comes back bare.
Unregister(d) ==
    /\ d \in present
    /\ present' = present \ {d}
    /\ tc' = [tc EXCEPT ![d] = NoTree]
    /\ UNCHANGED <<table, profile, qmark_wan_dev, script, drift>>

Register(d) ==
    /\ d \notin present
    /\ present' = present \union {d}
    /\ UNCHANGED <<table, profile, qmark_wan_dev, tc, script, drift>>

-----------------------------------------------------------------------------
(* qos_reset.  Nothing is bound while the trees are taken down and built,  *)
(* so no message of the module comes in between: each is one step.         *)

ResetStep ==
    /\ \/ script = "idle"  /\ ResetBegin /\ script' = "flush"
       \/ script = "flush" /\ ResetFlush /\ script' = "destroy"
       \/ script = "end"   /\ ResetEnd   /\ script' = "idle"
    /\ drift' = Worse([d \in Devices |->
          IF UsedMarks' # UsedMarks THEN Missed ELSE InStep])
    /\ UNCHANGED <<profile, qmark_wan_dev, present, tc>>

qos_tc_destroy ==
    /\ script = "destroy"
    /\ script' = "init"
    /\ tc' = [d \in Devices |-> NoTree]
    /\ drift' = [d \in Devices |-> IF clean THEN InStep ELSE Wild]
    /\ UNCHANGED <<table, profile, qmark_wan_dev, present>>

\* The first of the installed rules (state.data's, here those the kernel has)
\* decides about the shape; the others find the roots there.  A stop leaves
\* the trees down and the table in reset.
qos_tc_init ==
    /\ script = "init"
    /\ \/ \E id \in Known :
            LET root == IF g_ruletbl[id].par.devid = 0 THEN "all" ELSE "ifaces"
            IN  /\ tc' = [d \in Devices |->
                      IF d \in Targets \intersect present
                      THEN [NoTree EXCEPT !.root = root, !.classes = Base(root)]
                      ELSE tc[d]]
                /\ script' = "end"
       \/ Known = {} /\ script' = "end" /\ UNCHANGED tc
       \/ script' = "idle" /\ UNCHANGED tc
    /\ UNCHANGED <<table, profile, qmark_wan_dev, present, drift>>

TreeNext ==
    \/ Softirq
    \/ Command
    \/ DebugTc
    \/ \E wan \in WanDevs : NetdevSet(wan)
    \/ \E d \in Devices : Unregister(d) \/ Register(d)
    \/ ResetStep
    \/ qos_tc_destroy
    \/ qos_tc_init

TreeSpec == TreeInit /\ [][TreeNext]_treeVars

-----------------------------------------------------------------------------

\* Class ids are minor numbers: 16 bits, and 0 is the qdisc.
LastClassId == 65535
ClassIds == 1..LastClassId
RatePairs == [rate : Nat, ceil : Nat]
HtbClasses == [id : ClassIds, parent : ClassIds \union {0}, rates : RatePairs]
FwFilters == [mark : Nat, cid : ClassIds, held : BOOLEAN]
Roots == {"none", "all", "ifaces"}
Trees == [root : Roots, classes : SUBSET HtbClasses, leaves : SUBSET ClassIds,
          filters : SUBSET FwFilters]

TreeTypeOK ==
    /\ TypeOK
    /\ profile \in Profiles
    /\ qmark_wan_dev \in WanDevs
    /\ present \subseteq Devices
    /\ tc \in [Devices -> Trees]
    /\ \A d \in Devices : tc[d].leaves \subseteq Ids(tc[d])
    /\ script \in {"idle", "flush", "destroy", "init", "end"}
    /\ drift \in [Devices -> {InStep, Missed, Wild}]

\* The class, as the rule has it, that shapes the packets of a bound address.
ClassOf(ip, d) ==
    LET par == g_ruletbl[marktbl[ip].id].par
    IN  [id |-> ClassId(par, marktbl[ip].mark), parent |-> ParentId(par),
         rates |-> Rates(par, d)]

\* Both trees hold, beside what tc.sh built, one class with a queue and one
\* filter for every mark in use, with the rates of its rule, and nothing else:
\* as long as no message was lost, and again after the next reset whatever was
\* lost or overwritten before (the EXCL adds of later addresses of a shared
\* rule are refused; a filter goes before its class).
TreeFollowsTable ==
    \A d \in Targets :
        clean /\ drift[d] = InStep /\ tc[d].root # "none" =>
            LET made == {ClassOf(ip, d) : ip \in Bound}
            IN  /\ tc[d].classes = Base(tc[d].root) \union made
                /\ tc[d].leaves = {c.id : c \in made}
                /\ tc[d].filters = {[mark |-> marktbl[ip].mark, held |-> TRUE,
                                     cid |-> ClassOf(ip, d).id] : ip \in Bound}

\* Lost messages leave a mark without a class or with the class it had under
\* an earlier rule; still every filter leads to a class that the module made
\* for this mark alone, and the interfaces' own classes stay.
OwnClass ==
    \A d \in Targets :
        drift[d] # Wild =>
            /\ Base(tc[d].root) \subseteq tc[d].classes
            /\ \A f \in tc[d].filters :
                /\ \E c \in tc[d].classes \ Base(tc[d].root) : c.id = f.cid
                /\ \A g \in tc[d].filters : g.cid = f.cid => g = f

\* The rate tables of Params, evaluated once.
Kbits == UNION {{par.rate, par.rate_mate, par.rate_min, par.rate_min_mate} :
                par \in Params}
Tracked == {t \in ({HtbRate(k) : k \in Kbits} \union {HtbCeil(k) : k \in Kbits})
                   \X (Kbits \union {1, 1000000}) \X {DevMtu[d] : d \in Devices} :
              t[2] > 0 /\ TableTracks(qmark_tc_calc_rtable(t[1], t[3]), t[2], t[3])}

\* The rate tables of the class that shapes an address keep it to the rates its
\* rule has for the direction, for every packet size of the device; 0 means 1
\* kbit/s as a rate and 1 Gbit/s as a ceil.
RatesHonoured ==
    \A d \in Targets, ip \in Bound :
        clean /\ drift[d] = InStep =>
            \A c \in tc[d].classes :
                c.id = ClassOf(ip, d).id =>
                    LET par == g_ruletbl[marktbl[ip].id].par
                        min == IF d = LanDev THEN par.rate_min_mate ELSE par.rate_min
                        max == IF d = LanDev THEN par.rate_mate ELSE par.rate
                    IN  /\ <<c.rates.rate, IF min = 0 THEN 1 ELSE min, DevMtu[d]>>
                              \in Tracked
                        /\ <<c.rates.ceil, IF max = 0 THEN 1000000 ELSE max, DevMtu[d]>>
                              \in Tracked

=============================================================================
