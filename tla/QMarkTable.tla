----------------------------- MODULE QMarkTable -----------------------------
(***************************************************************************)
(* The kernel mark table (src/kmod/qos_marktbl_main.c), its entry points   *)
(* from the iptables target (src/xt_kmod/xt_qmark.c), from conntrack       *)
(* events and from the control device (src/kmod/qos_marktbl_ioctl.c).      *)
(*                                                                         *)
(* Grain of atomicity: the uniprocessor build.  spin_lock_bh is there      *)
(* "disable softirqs", so a critical section, and the whole of a handler   *)
(* that already runs in softirq (the target and the conntrack notifier),   *)
(* is one step.  An ioctl runs in process context and can be interrupted   *)
(* by softirqs outside its critical sections: qmark_reset raises           *)
(* reset_flag before it takes the lock and is two steps.                   *)
(*                                                                         *)
(* A mark is represented by its offset (mark >> MARK_BASE); 0 is "no       *)
(* mark".  The rates and the device of a rule are one opaque value `par';  *)
(* the flag `on' is only printed and is left out.                          *)
(***************************************************************************)
EXTENDS Integers, FiniteSets

CONSTANTS IPs,          \* the addresses packets may carry
          RuleCnt,      \* max_rule_cnt: rule ids are 1..RuleCnt
          IpSpecs,      \* values of max_ip_cnt that set_spec may install
          DefaultSpec,  \* max_ip_cnt at module load
          Params,       \* device and rates of a rule
          NoPar,        \* the same, zeroed by memset
          RefBound,     \* bound: connections counted per IP
          CountBound    \* bound: rule counts from which the hash is flushed

ASSUME SpecAssumption ==
    /\ IpSpecs \subseteq Nat \ {0}
    /\ DefaultSpec \in IpSpecs
    /\ RuleCnt \in Nat \ {0}
    /\ RefBound \in Nat
    /\ CountBound \in Nat
    /\ NoPar \notin Params

ASSUME FiniteAssumption == IsFiniteSet(IPs)

VARIABLES g_ruletbl,    \* rule id -> [mode, mark, count, par]
          marktbl,      \* IP -> hash node [id, mark, count] or NoEntry
          elem_num,     \* g_marktbl_head->elem_num
          mark_bitmap,  \* the offsets whose bit is set
          max_ip_cnt,
          reset_flag,
          resetting,    \* a qmark_reset(1) is between its flag and its lock
          panic,        \* the kernel dereferenced NULL
          tcCall,       \* the call the last step made to qos_marktbl_tc.c
          clean         \* ghost: no command rewrote bookkeeping in use

vars == <<g_ruletbl, marktbl, elem_num, mark_bitmap, max_ip_cnt, reset_flag,
          resetting, panic, tcCall, clean>>

RuleIds == 1..RuleCnt
PRIV_MODE == 0
SHARE_MODE == 1

NoEntry == [id |-> 0, mark |-> 0, count |-> 0]
ZeroRule == [mode |-> PRIV_MODE, mark |-> 0, count |-> 0, par |-> NoPar]

NoCall == [op |-> "none", mark |-> 0, par |-> NoPar]
TcAdd(id, m) == [op |-> "add", mark |-> m, par |-> g_ruletbl[id].par]
TcDel(id, m) == [op |-> "del", mark |-> m, par |-> g_ruletbl[id].par]

Bound == {ip \in IPs : marktbl[ip].id # 0}
Holders(id) == {ip \in IPs : marktbl[ip].id = id}
UsedMarks == {marktbl[ip].mark : ip \in Bound}

TypeOK ==
    /\ g_ruletbl \in [RuleIds -> [mode : {PRIV_MODE, SHARE_MODE},
                                  mark : 0..max_ip_cnt, count : Int,
                                  par : Params \union {NoPar}]]
    /\ marktbl \in [IPs -> [id : RuleIds, mark : 0..max_ip_cnt, count : Nat]
                           \union {NoEntry}]
    /\ elem_num \in Nat
    /\ max_ip_cnt \in IpSpecs
    /\ mark_bitmap \subseteq 1..max_ip_cnt
    /\ reset_flag \in BOOLEAN
    /\ resetting \in BOOLEAN
    /\ panic \in BOOLEAN
    /\ tcCall \in [op : {"none", "add", "del"}, mark : Nat,
                   par : Params \union {NoPar}]
    /\ clean \in BOOLEAN

Init ==
    /\ g_ruletbl = [id \in RuleIds |-> ZeroRule]
    /\ marktbl = [ip \in IPs |-> NoEntry]
    /\ elem_num = 0
    /\ mark_bitmap = {}
    /\ max_ip_cnt = DefaultSpec
    /\ reset_flag = FALSE
    /\ resetting = FALSE
    /\ panic = FALSE
    /\ tcCall = NoCall
    /\ clean = TRUE

-----------------------------------------------------------------------------
(* The mark pool.                                                          *)

\* Seeded fault: the search runs one bit past the bitmap.
AllocPastEnd ==
    LET free == (1..max_ip_cnt + 1) \ mark_bitmap
    IN  {m \in free : \A k \in free : m <= k}

\* The mark alloc_mark returns, as a set: empty when the pool is exhausted.
alloc_mark ==
    LET free == (1..max_ip_cnt) \ mark_bitmap
    IN  {m \in free : \A k \in free : m <= k}

\* Seeded fault: the bit after the mark is cleared.
FreeMarkOffByOne(m) == {mark_bitmap \ {m + 1}}

\* The bitmaps free_mark can leave.  free_mark(0) clears bit -1: which bit
\* that is depends on the build's bitmap_clear, it may be one of the pool.
free_mark(m) ==
    IF m = 0 THEN {mark_bitmap} \union {mark_bitmap \ {k} : k \in mark_bitmap}
             ELSE {mark_bitmap \ {m}}

\* The values test_mark can return on bitmap bm; test_mark(0) reads bit -1.
test_mark(m, bm) == IF m = 0 THEN BOOLEAN ELSE {m \in bm}

\* Seeded fault: the element about to be added is not counted.
OverLimitOffByOne == elem_num > max_ip_cnt

elem_over_limit == elem_num + 1 > max_ip_cnt

-----------------------------------------------------------------------------
(* The hash table, keyed by IP.                                            *)

\* marktbl_hash_add for a key that is not in the table yet.
HashInsert(ip, id, m) ==
    marktbl' = [marktbl EXCEPT ![ip] = [id |-> id, mark |-> m, count |-> 0]]

\* Seeded fault: the mark of a shared rule is freed with any of its nodes.
LastOfRuleAlways(id) == TRUE

\* Seeded fault: the count is tested before the node was taken off it.
LastOfRuleTooEarly(id) ==
    g_ruletbl[id].mode = PRIV_MODE \/ g_ruletbl[id].count = 0

\* The rule of a node that leaves the table gives its mark back when it was
\* the node's own (private) or the node was the last one of a shared rule.
LastOfRule(id) ==
    g_ruletbl[id].mode = PRIV_MODE \/ g_ruletbl[id].count - 1 = 0

\* One reference less.  The node is removed when none is left, and its mark
\* is freed with the last node that uses it: the body conntrack's DESTROY
\* event and qmark_del_hash share.  `call' is what is sent to tc with it.
PutEntry(ip, call) ==
    LET node == marktbl[ip]
        id == node.id
    IN  /\ IF node.count - 1 > 0
           THEN /\ marktbl' = [marktbl EXCEPT ![ip].count = @ - 1]
                /\ tcCall' = NoCall
                /\ UNCHANGED <<g_ruletbl, elem_num, mark_bitmap>>
           ELSE /\ marktbl' = [marktbl EXCEPT ![ip] = NoEntry]
                /\ elem_num' = elem_num - 1
                /\ IF LastOfRule(id)
                   THEN /\ g_ruletbl' = [g_ruletbl EXCEPT
                              ![id].count = @ - 1, ![id].mark = 0]
                        /\ mark_bitmap' \in free_mark(node.mark)
                        /\ tcCall' = call
                   ELSE /\ g_ruletbl' = [g_ruletbl EXCEPT ![id].count = @ - 1]
                        /\ tcCall' = NoCall
                        /\ UNCHANGED mark_bitmap
        /\ UNCHANGED <<max_ip_cnt, reset_flag, resetting, panic, clean>>

-----------------------------------------------------------------------------
(* The packet path: qmark_handle and qmark_alloc_mark_auto.                *)

\* Seeded fault: the first address of a shared rule gets no new mark.
NeedsNewMarkPrivOnly(id) == g_ruletbl[id].mode = PRIV_MODE

NeedsNewMark(id) ==
    g_ruletbl[id].mode = PRIV_MODE \/ g_ruletbl[id].count = 0

\* The mark a packet of rule id would be given, as a set.
MarkFor(id) ==
    IF NeedsNewMark(id) THEN alloc_mark ELSE {g_ruletbl[id].mark}

BitmapWith(id, m) ==
    IF NeedsNewMark(id) THEN mark_bitmap \union {m} ELSE mark_bitmap

\* Seeded fault: the new mark of a shared rule is not stored in the rule.
RuleMarkNotStored(id, m) == g_ruletbl[id].mark

RuleMarkWith(id, m) ==
    IF g_ruletbl[id].mode = SHARE_MODE THEN m ELSE g_ruletbl[id].mark

\* Seeded fault: reset_flag is not looked at.
MissesInReset(ip) == marktbl[ip].mark = 0

\* qmark_handle finds no mark for the packet and the table is not in reset.
Misses(ip) ==
    /\ marktbl[ip].mark = 0
    /\ ~reset_flag

\* The packet's IP is bound to a mark and the mark's tc rule is added.
qmark_alloc_mark_auto(ip, id) ==
    /\ Misses(ip)
    /\ ip \notin Bound
    /\ ~elem_over_limit
    /\ \E m \in MarkFor(id) :
        /\ TRUE \in test_mark(m, BitmapWith(id, m))
        /\ mark_bitmap' = BitmapWith(id, m)
        /\ HashInsert(ip, id, m)
        /\ g_ruletbl' = [g_ruletbl EXCEPT ![id].mark = RuleMarkWith(id, m),
                                          ![id].count = @ + 1]
        /\ elem_num' = elem_num + 1
        /\ tcCall' = TcAdd(id, m)
    /\ UNCHANGED <<max_ip_cnt, reset_flag, resetting, panic, clean>>

\* qmark_add_hash refuses (mark not allocated, table full, or kmalloc failed,
\* which it may whenever it is reached) and the allocation is undone.
AllocMarkAutoFails(ip, id) ==
    /\ Misses(ip)
    /\ \E m \in MarkFor(id) :
        \/ FALSE \in test_mark(m, BitmapWith(id, m))
        \/ elem_over_limit
        \/ ip \notin Bound
    /\ g_ruletbl' = IF NeedsNewMark(id)
                    THEN [g_ruletbl EXCEPT ![id].mark = 0]
                    ELSE g_ruletbl
    /\ tcCall' = NoCall
    /\ UNCHANGED <<marktbl, elem_num, mark_bitmap, max_ip_cnt, reset_flag,
                   resetting, panic, clean>>

\* The IP has a node whose mark is 0: qmark_handle takes it for a miss, and
\* marktbl_hash_add finds the key.
AllocMarkAutoOops(ip, id) ==
    /\ Misses(ip)
    /\ ip \in Bound
    /\ ~elem_over_limit
    /\ \E m \in MarkFor(id) :
        /\ TRUE \in test_mark(m, BitmapWith(id, m))
        /\ mark_bitmap' = BitmapWith(id, m)
        /\ g_ruletbl' = [g_ruletbl EXCEPT ![id].mark = RuleMarkWith(id, m)]
    /\ panic' = TRUE
    /\ tcCall' = NoCall
    /\ UNCHANGED <<marktbl, elem_num, max_ip_cnt, reset_flag, resetting, clean>>

-----------------------------------------------------------------------------
(* Conntrack events of a marked connection of ip.                          *)

ConntrackMark(ip) ==
    /\ ip \in Bound
    /\ marktbl[ip].count < RefBound
    /\ marktbl' = [marktbl EXCEPT ![ip].count = @ + 1]
    /\ tcCall' = NoCall
    /\ UNCHANGED <<g_ruletbl, elem_num, mark_bitmap, max_ip_cnt, reset_flag,
                   resetting, panic, clean>>

ConntrackDestroy(ip) ==
    ip \in Bound /\ PutEntry(ip, TcDel(marktbl[ip].id, marktbl[ip].mark))

-----------------------------------------------------------------------------
(* Commands of the control device.                                         *)

qmark_add_rule(id, mode, par) ==
    /\ g_ruletbl' = [g_ruletbl EXCEPT ![id].mode = mode, ![id].par = par]
    /\ clean' = (clean /\ (Holders(id) = {} \/ mode = g_ruletbl[id].mode))
    /\ tcCall' = NoCall
    /\ UNCHANGED <<marktbl, elem_num, mark_bitmap, max_ip_cnt, reset_flag,
                   resetting, panic>>

\* memset: also the mark and the count of the nodes bound under the rule.
qmark_del_rule(id) ==
    /\ g_ruletbl' = [g_ruletbl EXCEPT ![id] = ZeroRule]
    /\ clean' = (clean /\ Holders(id) = {})
    /\ tcCall' = NoCall
    /\ UNCHANGED <<marktbl, elem_num, mark_bitmap, max_ip_cnt, reset_flag,
                   resetting, panic>>

qmark_flush_rule ==
    /\ g_ruletbl' = [id \in RuleIds |-> ZeroRule]
    /\ clean' = (clean /\ Bound = {})
    /\ tcCall' = NoCall
    /\ UNCHANGED <<marktbl, elem_num, mark_bitmap, max_ip_cnt, reset_flag,
                   resetting, panic>>

\* `qmark -A': the caller names the mark.  The refusals change nothing.
qmark_add_hash(ip, id, m) ==
    /\ TRUE \in test_mark(m, mark_bitmap)
    /\ ~elem_over_limit
    /\ IF ip \in Bound
       THEN /\ panic' = TRUE
            /\ UNCHANGED <<g_ruletbl, marktbl, elem_num>>
       ELSE /\ HashInsert(ip, id, m)
            /\ g_ruletbl' = [g_ruletbl EXCEPT ![id].count = @ + 1]
            /\ elem_num' = elem_num + 1
            /\ UNCHANGED panic
    /\ clean' = FALSE
    /\ tcCall' = NoCall
    /\ UNCHANGED <<mark_bitmap, max_ip_cnt, reset_flag, resetting>>

\* `qmark -D': as a DESTROY event, except that tc is not told.
qmark_del_hash(ip) == ip \in Bound /\ PutEntry(ip, NoCall)

\* The rules keep their counts, the bitmap its bits.
qmark_flush_hash ==
    /\ \A id \in RuleIds : g_ruletbl[id].count <= CountBound
    /\ marktbl' = [ip \in IPs |-> NoEntry]
    /\ elem_num' = 0
    /\ clean' = (clean /\ Bound = {})
    /\ tcCall' = NoCall
    /\ UNCHANGED <<g_ruletbl, mark_bitmap, max_ip_cnt, reset_flag, resetting,
                   panic>>

\* `qmark -g', `qmark -f' and `qmark -F' on the pool itself.
BitmapCommand ==
    /\ clean' = (clean /\ mark_bitmap' = mark_bitmap)
    /\ tcCall' = NoCall
    /\ UNCHANGED <<g_ruletbl, marktbl, elem_num, max_ip_cnt, reset_flag,
                   resetting, panic>>

qmark_alloc_mark ==
    /\ \E m \in alloc_mark : mark_bitmap' = mark_bitmap \union {m}
    /\ BitmapCommand

qmark_free_mark(m) ==
    /\ mark_bitmap' \in free_mark(m)
    /\ BitmapCommand

qmark_flush_mark ==
    /\ mark_bitmap' = {}
    /\ BitmapCommand

\* Everything is freed and allocated again with the new sizes.
qmark_set_spec(ip_spec) ==
    /\ max_ip_cnt' = ip_spec
    /\ marktbl' = [ip \in IPs |-> NoEntry]
    /\ elem_num' = 0
    /\ g_ruletbl' = [id \in RuleIds |-> ZeroRule]
    /\ mark_bitmap' = {}
    /\ clean' = TRUE
    /\ tcCall' = NoCall
    /\ UNCHANGED <<reset_flag, resetting, panic>>

\* qmark_reset(1) up to its spin_lock_bh.
ResetBegin ==
    /\ reset_flag' = TRUE
    /\ resetting' = TRUE
    /\ tcCall' = NoCall
    /\ UNCHANGED <<g_ruletbl, marktbl, elem_num, mark_bitmap, max_ip_cnt,
                   panic, clean>>

\* Seeded fault: the loop over the rules is missing.
CountsKept == g_ruletbl

CountsCleared == [id \in RuleIds |-> [g_ruletbl[id] EXCEPT !.count = 0]]

\* Its critical section: bitmap, hash and counts; the rules keep their marks.
ResetFlush ==
    /\ resetting
    /\ mark_bitmap' = {}
    /\ marktbl' = [ip \in IPs |-> NoEntry]
    /\ elem_num' = 0
    /\ g_ruletbl' = CountsCleared
    /\ resetting' = FALSE
    /\ clean' = TRUE
    /\ tcCall' = NoCall
    /\ UNCHANGED <<max_ip_cnt, reset_flag, panic>>

\* qmark_reset(0).
ResetEnd ==
    /\ reset_flag' = FALSE
    /\ tcCall' = NoCall
    /\ UNCHANGED <<g_ruletbl, marktbl, elem_num, mark_bitmap, max_ip_cnt,
                   resetting, panic, clean>>

\* QMARK_IOC_TC_ADD and QMARK_IOC_TC_DEL: the first rule with mark 0x800.
TcCommand ==
    /\ tcCall' \in {TcAdd(1, 1), TcDel(1, 1)}
    /\ UNCHANGED <<g_ruletbl, marktbl, elem_num, mark_bitmap, max_ip_cnt,
                   reset_flag, resetting, panic, clean>>

-----------------------------------------------------------------------------

Packet ==
    \E ip \in IPs, id \in RuleIds :
        \/ qmark_alloc_mark_auto(ip, id)
        \/ AllocMarkAutoFails(ip, id)
        \/ AllocMarkAutoOops(ip, id)

Conntrack == \E ip \in IPs : ConntrackMark(ip) \/ ConntrackDestroy(ip)

RuleCommand ==
    \/ \E id \in RuleIds, mode \in {PRIV_MODE, SHARE_MODE}, par \in Params :
          qmark_add_rule(id, mode, par)
    \/ \E id \in RuleIds : qmark_del_rule(id)
    \/ qmark_flush_rule

HashCommand ==
    \/ \E ip \in IPs, id \in RuleIds, m \in 0..max_ip_cnt :
          qmark_add_hash(ip, id, m)
    \/ \E ip \in IPs : qmark_del_hash(ip)
    \/ qmark_flush_hash

MarkCommand ==
    \/ qmark_alloc_mark
    \/ \E m \in 0..max_ip_cnt : qmark_free_mark(m)
    \/ qmark_flush_mark

TableCommand ==
    \/ \E ip_spec \in IpSpecs : qmark_set_spec(ip_spec)
    \/ ResetBegin
    \/ ResetFlush
    \/ ResetEnd
    \/ TcCommand

\* After a NULL dereference in softirq nothing runs any more.
Halted == panic /\ UNCHANGED vars

Next ==
    \/ ~panic /\ (Packet \/ Conntrack \/ RuleCommand \/ HashCommand
                   \/ MarkCommand \/ TableCommand)
    \/ Halted

Spec == Init /\ [][Next]_vars

-----------------------------------------------------------------------------
(* Correctness.  `clean' says that since the tables were last emptied by a *)
(* reset or by set_spec no command changed the pool, a rule or the hash    *)
(* under a live binding; what depends on it says so.                       *)

\* Two addresses share a mark exactly when one shared rule bound both: the
\* allocator in alloc_mark and the last-holder test of the DESTROY handler
\* never hand a mark in use to a stranger.
Isolation ==
    clean => \A p, q \in Bound :
        p # q => ( marktbl[p].mark = marktbl[q].mark
                   <=> /\ marktbl[p].id = marktbl[q].id
                       /\ g_ruletbl[marktbl[p].id].mode = SHARE_MODE )

\* The bitmap holds the marks of the nodes and no other: alloc_mark leaks
\* none (a failed qmark_add_hash gives it back) and free_mark frees none
\* that a node still carries.
MarksBacked == clean => mark_bitmap = UsedMarks

\* g_ruletbl[id].count is the number of hash nodes of the rule, which is what
\* the choice between a new and the shared mark relies on.
RuleCountExact ==
    clean => \A id \in RuleIds : g_ruletbl[id].count = Cardinality(Holders(id))

\* The mark a shared rule would give the next address is the one its bound
\* addresses have (the `mark' field of ruletbl_node_t).
SharedRuleMark ==
    clean => \A ip \in Bound :
        g_ruletbl[marktbl[ip].id].mode = SHARE_MODE
            => g_ruletbl[marktbl[ip].id].mark = marktbl[ip].mark

\* elem_num counts the nodes and never passes the limit elem_over_limit
\* tests, whatever the commands.
ElemNumExact == elem_num = Cardinality(Bound) /\ elem_num <= max_ip_cnt

\* Between the end of qmark_reset(1) and qmark_reset(0) packets bind nothing:
\* the flag, raised before the lock, keeps the flushed tables empty.
ResetQuiet ==
    clean /\ reset_flag /\ ~resetting => Bound = {} /\ mark_bitmap = {}

\* marktbl_hash_add meets an existing key (and dereferences NULL) only after
\* a command rewrote bookkeeping in use or added the key by hand.
PanicOnlyAfterRewrite == panic => ~clean

\* A mark that comes into use is the one qmark_tc_add_rule is called for, in
\* the same step; when qmark_tc_del_rule is called for a removed binding, no
\* address uses the mark any more.
TcFollowsMarks ==
    [][ clean /\ clean' /\ marktbl' # marktbl =>
          /\ UsedMarks' \ UsedMarks # {} =>
                tcCall'.op = "add" /\ UsedMarks' = UsedMarks \union {tcCall'.mark}
          /\ tcCall'.op = "del" =>
                UsedMarks' = UsedMarks \ {tcCall'.mark} /\ UsedMarks' # UsedMarks
      ]_vars

\* The table implements the classes of MarkService: its marks are the classes.
Service == INSTANCE MarkService WITH
    Classes <- UNION {1..n : n \in IpSpecs},
    class   <- [ip \in IPs |-> marktbl[ip].mark],
    ruleof  <- [ip \in IPs |-> marktbl[ip].id],
    shared  <- {id \in RuleIds : g_ruletbl[id].mode = SHARE_MODE},
    open    <- ~reset_flag,
    promise <- clean

\* Every step of the table is a step of MarkService or changes nothing it sees.
ImplementsService == Service!Spec

\* What qos_marktbl_hashtbl_add demands of a mark it stores ("mark not
\* alloc."): an address's mark is allocated as long as the address is bound.
StoredMarksAllocated == UsedMarks \subseteq mark_bitmap

\* What main.h says of the rule's mark ("for share mode"): the addresses of a
\* shared rule carry the mark kept in the rule.
ShareModeMark ==
    \A ip \in Bound :
        g_ruletbl[marktbl[ip].id].mode = SHARE_MODE
            => g_ruletbl[marktbl[ip].id].mark = marktbl[ip].mark

=============================================================================
