# ip_qos: a TLA+ development

`ip_qos` limits the bandwidth of LAN addresses on an OpenWrt style router. A kernel module keeps a table
*address -> mark*; an iptables target gives each packet the mark of its address; tc classes and filters, one
pair per mark, shape by mark; shell scripts install rules, reset the table and rebuild the tc trees. This
directory models the parts whose correctness depends on order and interleaving, checks them with TLC and proves
with TLAPS the safety properties of every module, for all values of the constants.

## 1. The system

| part | source | state | operations | talks to |
|---|---|---|---|---|
| mark table | `kmod/qos_marktbl_main.c` | hash of nodes (address, rule, mark, count), `g_ruletbl`, `mark_bitmap`, limits, `reset_flag` | allocate on a packet, count up and down on conntrack events, rule/hash/mark commands, `set_spec`, `reset` | tc layer (calls), conntrack (callback), control device |
| control device | `kmod/qos_marktbl_ioctl.c` | the registered device | one ioctl per command | mark table, tc layer |
| tc layer | `kmod/qos_marktbl_tc.c` | the netlink socket, the two device names; classes and filters in the kernel's qdiscs | add and delete the class and filter of a mark, by netlink messages to itself | rtnl lock |
| iptables target | `xt_kmod/xt_qmark.c` | none | find or allocate the mark of a packet | mark table |
| extension, CLI | `xt_lib/libxt_qmark.c`, `app/qmark.c` | none | parse options, issue one ioctl | control device |
| handlers | `main.sh`, `core.sh` | `.ready`, `.stop_flag`, `.lock`, `state.data` | start, stop, reload, time, ipgroup, ifup, under `flock` | `qmark`, iptables, tc, time manager |
| dispatcher, polling | `dispatch.sh`, `polling.sh` | pid file | forward requests; switch QoS on and off by throughput; kill the daemon | handlers |
| iptables rules | `nf.sh`, `find_index.lua` | the chain `qos_chain_default` | insert, delete, destroy | UCI, iptables |
| tc trees | `tc.sh` | root qdiscs and classes | destroy, build | `state.data` |
| shared | `public.sh`, `state_gen.lua` | `state.data`, UCI snapshot | get, set, delete keys | |
| hooks | `etc/` | none | check `.ready`, forward | dispatcher |

What is hard: softirq packets and conntrack events interrupt commands between their critical sections; a rule's
mark is shared by addresses that come and go; commands rewrite rules that are in use; a reset empties the table
in several steps, two of them in one ioctl; handlers wait for the lock with what they read before it; a stop
cuts a running handler short; the polling daemon is killed in the middle; commands of one handler can fail
unseen; a mark lives on in the connections that carry it, and its life is counted by events of theirs; tc messages
are skipped when the rtnl lock is taken. `PROJECT.json` lists each hazard at its line with the properties that cover it.

## 2. Modules

| module | what it is |
|---|---|
| `MarkService` | the promise of the table: bound addresses fall into classes, two in one class exactly when one shared rule bound both |
| `QMarkTable` | the mark table with the packet path, the conntrack handler and every command |
| `QMarkTableProofs` | theorems about `QMarkTable` for all values of its constants |
| `QosControl` | the handlers under the lock, an extension of `QMarkTable`, with iptables, state files, UCI, time manager |
| `QosControlProofs` | theorems about what the handlers leave at a released lock, and their use of the table |
| `QosAgreeProofs` | theorems about the agreement of UCI, `state.data`, kernel and iptables |
| `TcTree` | the tc trees of the LAN and the WAN device under the module's messages and the scripts' commands, an extension of `QMarkTable` |
| `TcTreeProofs` | theorems about `TcTree`: whose classes, queues and filters the trees hold, and their rates |
| `TcRates` | the 32 bit rate arithmetic of the tc layer, pure operators |
| `TcRatesProofs` | theorems about `TcRates`: the tables of every rate a rule can have |
| `QMarkConn` | connections: the chain's mark save and restore, the target, conntrack's events, an extension of `QMarkTable` |
| `QMarkConnProofs` | theorems about `QMarkConn`, and that it is a refinement of `QMarkTable` |
| `QMarkLifecycle` | module load, error paths, removal, and reallocation at run time |
| `QMarkLifecycleProofs` | theorems about `QMarkLifecycle`: why its labels and the order of its stages are right |
| `MCQMarkTable`, `MCQosControl`, `MCTcTree`, `MCQMarkConn` | instances for TLC (`QMarkLifecycle` needs none) |

### QMarkTable and MarkService

One action per function: `qmark_alloc_mark_auto` (and its failing and its crashing outcome, `AllocMarkAutoFails`
and `AllocMarkAutoOops`), `ConntrackMark`, `ConntrackDestroy`, and one for each command, named as in the source.
Marks are offsets (`mark >> MARK_BASE`), rates and device of a rule one opaque value.

*Atomicity.* The module is written for and modelled in the uniprocessor build: the target and the notifier run in
softirq, and `spin_lock_bh` keeps softirqs out of a command's critical section. Only `qmark_reset(1)` does
something outside it (it raises `reset_flag` first), and is two actions. This is the only build that can run the
scripts: where `spin_lock_bh` really spins, the first `qmark -r 1` waits for itself, as `qmark_reset` holds
`qmark_op_lock` when it calls `qmark_flush_hash`, which takes it again.

*Undefined values.* `free_mark(0)` and `test_mark(0)` address bit -1 of the bitmap; which bit that is depends on
the build, so they are nondeterministic. `kmalloc` may fail whenever it is reached.

*Ghosts.* `tcCall` is the call the last step made to the tc layer. `clean` becomes false when a command rewrites
a rule, the pool or the hash under a live binding, and true again at a reset or `set_spec`, which unbind
everything. What holds only while no command did so says `clean =>`; in `QosControl` it is a property that the
scripts restore it before they release the lock.

`ImplementsService` refines `MarkService`: marks are classes, `~reset_flag` is `open`, `clean` is `promise`.

### QosControl

A handler is a program of commands (`qos_start`, `qos_destroy`, ...) in three slots, filled when it gets the lock:
`now`, the commands up to the next turn of its loop, `todo`, the turns of its loop over rules, and `last`, what comes
after the loop. A turn may put the commands of `qos_rule_install` or `qos_rule_uninstall` into `now`; a `break`
empties `todo`. Each command is one step, and packets (for the rules iptables has), conntrack events and
new requests come in between. A request carries the UCI configuration of the moment it was made, because
`public.sh` calls `config_load` before `main.sh` waits for the lock; `state_gen.lua`, `find_index.lua` and the
existence test of the time handler read UCI themselves.

External, modelled from their use: the time manager (it reports rules registered with it), iptables (it refuses an
insertion past the end of the chain), flock, the tc command (it always succeeds).

The limit on rules in `qos_rules_parse` is never reached: `RuleCnt` is both that limit and the number of rules.
Every rule has a rate in both directions, so it owns one chain entry per direction.

Four constants say which environment is assumed: `StartsOnce` (QoS is started only while it is not ready, as the
polling daemon does), `Overlap` (UCI is written while other requests are under way), `LateReports` (the time manager
says that a rule is active which is disabled in UCI by then), `MayKill` (the dispatcher kills the daemon inside a
handler). The time manager is a process of its own and its hook looks for `.ready` and nothing else, so a report
comes at any time: before a reload that waits, behind it, or while it runs. Without `LateReports` only one thing is
excluded, that an ACTIVE report names a rule disabled before. Nothing in the code ensures that, see
`control_late_report` below. The hook's own wait for the lock and the handler's are one.

### TcTree and TcRates

A tree is the kind of its root (`none`, `all` WANs, or `ifaces` with one class per WAN), its classes, the classes
that have a queue, and its filters. Every step of the table that calls the tc layer (`tcCall'`) sends the messages
of `qmark_tc_add_rule` or `qmark_tc_del_rule` to both devices. In softirq on one processor `rtnl_mutex` cannot
change hands during a call, so all messages of the call go out or none; from the debug ioctls each kind may be
lost. A missing device ends the loops. `NewClass`, `DelClass`, `NewLeaf`, `NewFilter` and `DelFilter` are what the
kernel does with a message (external): it refuses an add of an id or handle that exists, the deletion of a class
with children or with filters bound to it, and it takes an unknown parent for the root. `qos_reset` runs as in
`core.sh`; nothing is bound while it takes the trees down and builds them, so each is one step.

The ghost `drift` says per device how far the tree may be off: in step, missed messages, or overwritten by a debug
command or a rule rewritten in use. A reset ends all of it. The packet that stops the kernel (`AllocMarkAutoOops`)
is left out here, since it is only reachable after such a rewrite.

`TcRates` computes `rate * 1000 / 8` and the rate tables modulo 2^32 (factors of 8 and 4 are taken out so that TLC's
integers suffice; `TcRatesProofs` counts with them as they are). `TableTracks` is the reference: a packet is charged
at least the time it takes at the configured rate and at most 1/24 and 2 ticks more, and larger packets never less.

### QMarkConn

A connection has a host, the side that opened it, whether its destination was rewritten, its saved mark, whether an
IPCT_MARK is pending and whether it is confirmed. A packet goes through the chain (`Forward`: restore and RETURN, no
rule, mark found, mark allocated, allocation failed) and is then confirmed or dropped; `cpu` keeps the processor in
between, as one softirq does both. conntrack (external) keeps events until a packet is confirmed, forgets an
unconfirmed connection silently and reports the end of a confirmed one. `EventAddr` is the code's guess of the
host. Rules change here only while they bind nobody, the rest is `QMarkTable`'s.

The ghost `astray` names the hosts for which the count cannot be right: a flush found them with marked
connections, an event stays pending after a drop, or they have a marked connection whose events go to an address
outside (routed inbound, redirected outbound). It is left when the host has neither node nor marked connections.

### QMarkLifecycle

Nine stages in the order of `qos_marktbl_init` and `qmark_dev_init`; `level` of them are done. An error jumps to the
label that undoes the stages before, which is also the order of `qos_marktbl_exit`, so one action `Undo` stands for
the labels and the exit functions. A pointer is `none`, `ok` or `stale` (freed and kept, as
`qos_marktbl_hashtbl_init` leaves it). A failure of `device_create` is not noticed. A command may come as soon as
the device is there, also while the error labels run (`pc` is `failed` then, and `exit` during a removal); the ghost
`excuse` remembers that one came before the module was live, or that an allocation failed at run time. A device file
that is opened before the labels and still used after the device is gone is left out.

## 3. Runs

| run | instance | shows |
|---|---|---|
| `table` | 3 addresses, 2 rules, limits 2 and 3, counts to 2; after a rewrite in use explored on with one address bound | types, `Isolation`, `MarksBacked`, `RuleCountExact`, `SharedRuleMark`, `ResetQuiet`, `ElemNumExact`, `PanicOnlyAfterRewrite`, `TcFollowsMarks`, refinement of `MarkService` |
| `tc_tree` | 2 addresses, 2 rules, 2 marks, 2 WAN interfaces and devices; all rules for all WANs, or all for single WANs | types, `TreeFollowsTable`, `OwnClass`, `RatesHonoured` |
| `tc_clash` | the same with both kinds of rules | violation, below |
| `conn` | 3 connections of 2 hosts, 1 rule | `MarkedAsBound`, `CountExact`, `ConnIsolation`, `LastOneUnbinds` |
| `lifecycle` | no parameters, complete | types, `NothingLeft`, `TablesOutliveUsers`, `BadNeedsExcuse` |
| `control` | the environment the scripts count on: 1 address, 2 rules (one timed) that are switched on and off, added and deleted, two requests waiting | agreement of iptables, state and kernel (`RulesAgree`) and of state and UCI (`InstalledAreEnabled`), nothing bound under unknown rules (`BoundUnderKnownRule`), `StopCompletes` and `ResetEnds` under fairness |
| `control_kill` | kills, repeated starts and late reports allowed; rules are added and deleted, one request waiting | types; at a released lock reset ended (`ReadyServes`), trees (`TreeFollowsRules`), promise restored (`UnlockedClean`), and a completed stop clears whatever a kill left (`StoppedQuiet`) |
| `control_regroup`, `control_start_twice`, `control_chain`, `control_overlap`, `control_late_report` | small | violations: the findings below |

*Bounds.* Three addresses and two rules give two holders of a shared mark and a stranger, limits 2 and 3 make the
pool or the table run out first; two rules are what a `break` needs to skip one. `RefBound` caps the connections
per address at 2 (one that keeps the node, one that releases it); in `conn` it is the number of connections, in
`tc_tree` 0, where counts do not matter. `CountBound` caps the rule counts that `qmark -X` on a live table lets
grow without limit; it only restricts a debug command. `MaxWaiting` caps waiting requests: one overtakes the
running handler, two compete; with two a reload and a report wait behind another handler and are served in either
order, and further reports come while the first of them runs. What the handlers leave is counted in rules; one address
is enough to have bindings under a rule that is rewritten, two are in `control_regroup`.

`tc_tree` explores two rules (one private, one shared) as long as no message was lost, lost messages, a missing
device and a change of the WAN device with one rule and one address, and overwritten trees during a reset
(`Explored`); a state outside is checked and not continued. Its rates are the ends and a few odd values of the
range up to `RATE_MAX`, its mtus 1500 and 2047. That is a real limit: from 2048 on the largest entries of a rate
table wrap in 32 bits (`qos_marktbl_tc.c:97`), and a large packet is charged too little. `conn` has three
connections so that one host can have two, counted and not, beside another host; at most one is of an uncounted
kind. Marks fit the rule mask (`WidthAssumption`): the code does not compare `cell_spec` with the mask.

*Fairness.* Weak fairness of the running handler: a shell is not stopped forever. Strong fairness of a waiting
stop: flock wakes waiters in turn, while the lock is only now and then free. No fairness of traffic or requests.
Liveness is checked without kills: with them a stop may be killed again and again, or a reset with its handler.

## 4. Findings

* `control_regroup` (`StoredMarksAllocated`): `qmark -d` zeroes a rule in use (`core.sh:216`,
  `qos_marktbl_main.c:547`); until the reset at the end of the handler a DESTROY event of one address of a shared
  rule frees the mark of the others.
* `control_start_twice` (`SkippedRuleIsKnown`): a start on a running QoS empties the kernel's rule table and then
  skips the installation since `state.data` says installed (`core.sh:101`).
* `control_chain` (`InstalledInChain`): the insertion index counts enabled rules that are not in the chain
  (`find_index.lua:26`); iptables refuses, and the rule counts as installed.
* `control_overlap` (`InstalledAreEnabled`): the configuration is read before the lock is awaited
  (`public.sh:85`); a rule disabled or deleted meanwhile is installed.
* `control_late_report` (`InstalledAreEnabled`): no UCI write overlaps anything here. A timed rule waits for its time
  object; the administrator disables it and asks for a reload; before the reload deregisters it the time manager
  reports it as active. The time handler, which runs after the reload, tests only that the rule exists
  (`main.sh:264`) and installs it. A `reload delete` of that rule later finds it recorded as off (`main.sh:165`), skips
  its uninstallation and drops the record: kernel and chain keep a rule that `state.data` has lost, so `RulesAgree` is
  violated too. Without overlaps, late reports and a second start both properties hold: run `control`, and for
  every instance, as long as no handler is killed, `InstalledAreEnabledHolds` and `RulesAgreeHolds`.
* `tc_clash` (`OwnClass`): the class of a mark of an all-WAN rule is `1:(offset + 1)` (`qos_marktbl_tc.c:175`), the
  class of WAN interface i is `1:(i + 1)` (`tc.sh:159-162`). With both kinds of rules installed, the first marks of
  the former are shaped by an interface's class, and their end deletes that class unless it has children.

Not findings of a run, but visible in the conditions of the properties: connections keep their marks over a reset
(`astray`), so until they end they are shaped as whoever has the mark now; a routed inbound or redirected outbound
connection is counted for an address outside (`qos_marktbl_main.c:420`); a command between the creation of the device
and the end of the initialisation, its error labels included, meets missing tables or makes one leak (`excuse`); after
a failed reallocation in `qmark_flush_hash` the head is freed twice.

## 5. Proofs

All theorems hold for any finite set of addresses, any number of rules, connections and waiting requests, any limits
and bounds, and any traffic between two commands. The constants are restricted by named assumptions only:
`SpecAssumption` and `FiniteAssumption` (a limit is positive, the addresses are finitely many), `WidthAssumption` (the
marks fit the rule mask) and `ConnsAssumption` (finitely many connections, `RefBound` not below their number) in
`QMarkConn`, `ControlAssumption` in `QosControl` (types), `TreeAssumption` in `TcTree` (what a rule holds, and that
the marks of a device fit its 4096 class ids and the last of them 16 bits: `TC_MAX_IP_CNT`). The bounds `RefBound`,
`CountBound` and `MaxWaiting` are otherwise arbitrary naturals.

**`QMarkTableProofs`**, the mark table:

* `TypeCorrect`, `ElemNumHolds`: types and the table limit, under every command;
* `InvariantHolds`: the inductive invariant `IInv`, types and counters and, while `clean`, the books: the marks of
  nodes are allocated and every allocated mark has a node, the count of a rule is the number of its nodes, a
  shared rule's mark is its nodes' mark, different rules and private nodes have different marks, and the table is
  empty between the flush and the end of a reset. `Isolation` alone is not inductive: the DESTROY step keeps it
  because the last-holder test reads the rule's count, so the count must be exact, and the packet step because
  the allocator's choice is not the mark of any node, so the bitmap must cover the nodes;
* from it `IsolationHolds`, `MarksBackedHolds`, `RuleCountHolds`, `SharedRuleMarkHolds`, `ResetQuietHolds`, `PanicHolds`;
* `TcFollowsMarksHolds`, an action property, and `ServiceImplemented`, the refinement: the initial states map to
  initial states, every step to a step of `MarkService` or a stutter.

**`QMarkConnProofs`**, the connections:

* `ConnImplementsTable`: every step of `QMarkConn` is one of the table's, or none; so all of the above holds of it;
* `ConnInvariantHolds`: the inductive invariant `ConnInv`. Per host that is not `astray`, its marked connections
  carry the mark of its node, and the node's count is the number of those without an event pending. Neither half is
  inductive alone: a node goes, and its mark with it, when the count says so. Which connections are counted is part of
  it (confirmed ones whose events go to the host itself; an event is pending only for the packet in flight): without
  it a DESTROY could take a reference its connection never had;
* from it `ConnTypeCorrect`, `MarkedAsBoundHolds`, `CountExactHolds`, `LastOneUnbindsHolds` (an action property), and,
  with `IsolationHolds` of the table, `ConnIsolationHolds`: isolation end to end, at the connections.

**`QosControlProofs`**, what a handler leaves:

* `ControlImplementsTable`: the scripts use the table only by its own operations, so its theorems hold under them;
* `ControlTypeCorrect`, from `CInv`, which says beside the types what `Shape` a program has: each slot is a chain of
  commands with their successors (`PreludeFlow`, `RuleFlow`, ...). This is what replaces the program text in the
  proofs: where a command leads is looked up in the flow (lemma `After`) and where it can come from is `Before`;
* `RestHolds`: the inductive invariant `RInv`. The properties of the released lock are false in the middle of a
  handler, so they are stated at rest (`Rest`) and carried to the next rest by what is true from command to command:
  what a reset has already done (`Finishing`), what a stop has already done (`Stopping`), that a handler that serves
  found QoS ready (`Serving`);
* from it `UnlockedCleanHolds`, `ReadyServesHolds`, `TreeFollowsRulesHolds`, `StoppedQuietHolds`, all of them without
  any condition on the environment, kills and repeated starts included;
* `BoundUnderKnownRuleHolds`, for `StartsOnce` and no kills: `KInv`, iptables names only rules the kernel has, up to
  the one in hand. A second start empties the kernel's rules under the chain (`control_start_twice` shows it), a
  killed handler leaves half a rule: both hypotheses are needed.

**`QosAgreeProofs`**, whether the four places agree about the rules:

* `AgreementHolds`: the inductive invariant `DInv`, for `StartsOnce`, no `Overlap`, no `LateReports` and no kills.
  `RulesAgree` speaks of `ready` and of the released lock, and a handler can leave its loop at any rule, so the
  invariant accounts for every difference by something still to come: an installed rule is recorded as enabled or its
  new record is in hand (`Recorded`), it is enabled in UCI or a waiting request or a turn left takes it down
  (`Enabled`), a rule enabled in UCI is recorded so or a record follows (`Follows`), the time manager has enabled
  rules only (`Registered`), a rule it has or has reported as active is recorded as enabled or its record is in hand
  (`Timely`), and kernel and `state.data` differ by the rule in hand (`Agree`). That these debts are paid rests on the
  order of the turns of a loop (`Loops`: all uninstallations before all updates), on stop clearing what a broken loop
  owes (`Blanked`, `StopAsked`), and on `delete` removing the record only of a rule that is not installed: it
  uninstalls only what is recorded as enabled, so `Recorded` is needed for the kernel and `state.data` to agree.
  `Timely` is what lets a report be served at any time without breaking `Recorded`;
* from it `RulesAgreeHolds` and `InstalledAreEnabledHolds`. The violations `control_overlap`,
  `control_late_report` and `control_start_twice` show what becomes of them without the hypotheses.

**`TcTreeProofs`**, the trees:

* `TreeImplementsTable`: module and scripts use the table only by its own operations here too. It is what gives the
  proofs below `IInv`, and with it isolation, in every state of the trees;
* `TreeTypeCorrect`: types under lost messages, debug commands and devices that come and go, without any condition;
* `TreeInvariantHolds`: the inductive invariant `TreeInv`, for `OneKind` (the rules are all for all WANs or all for
  single ones; `tc_clash` shows what happens otherwise). It has two levels, as `drift` has. A tree that is not `Wild`
  is the module's and the script's own (`TreesOwn`): a root of the one kind, a filter per mark that is bound to a
  class of that mark, classes below those of `tc.sh` only. `OwnClass` alone is not inductive: it does not say whose id
  a class has, so the next mark could meet it. A tree in step has one class, queue and filter for each use the table
  makes of a mark (`TreesInStep`). It needs the first level (which root, hence which ids are taken) and, from the
  table's `IInv`, that a mark in use has one rule (`OnePerMark`): so an add that is refused is one of a later address
  of a shared rule, and a deletion takes nobody else's class. The class ids are injective because the marks of a
  device fit its block and rules of one kind share one formula. `RulesGiven` keeps the parameters of bound rules the
  administrator's, and `ScriptQuiet` says that nothing is bound from the flush of `qos_reset` to its end, so no
  message meets a tree half built;
* from it `OwnClassHolds` and `TreeFollowsTableHolds`, and, with `RuleRatesTracked`, `RatesHonouredHolds`, for `RatesFit`:
  rates up to 4294967 kbit/s, beyond which `rate * 1000` wraps, and an mtu of at most 2047.

**`TcRatesProofs`**, the rate tables, for every rate instead of the handful of the run:

* `TableTracksKbit`: a rate table for k kbit/s charges a packet at least its time and at most a 24th and two ticks
  more, and never charges a larger packet less. The divisor, 12.5 k cut to an integer, is at least 12 k, so at most
  a 25th too small; the division by it cuts again, by a tick. Nothing wraps up to an mtu of 2047, the
  limit named in section 3;
* `RuleRatesTracked`: so do the tables of what `tc_htb_opt_parse` makes of a rule, 0 standing for 1 kbit/s as a rate
  and for 1 Gbit/s as a ceil.

**`QMarkLifecycleProofs`**, load and removal. The module has no parameters, so the run `lifecycle` is complete; what the
proof adds is the reason:

* `LifeInvariantHolds`: `LifeInv`. What is done is there (`DoneIsThere`) and what is not done is not (`RestIsNot`), each
  with its excuse, and the loader's place says how far it is (`Course`). Each label undoes one stage, so both hold from
  label to label; packets and events need the notifier or the target, which exist only at the last level, and below it
  the tables are;
* from it `LifeTypeCorrect`, `NothingLeftHolds`, `TablesOutliveUsersHolds` and `BadNeedsExcuseHolds`.

The inductive invariants (`DInv`, `KInv`, `TreeInv`, `LifeInv` and the others) were checked by TLC on the instances of
the runs before they were proved.

Only model-checked:

* liveness (`StopCompletes`, `ResetEnds`): fairness and ENABLED are outside the prover's reach;
* that the violations of section 4 are reachable.

Every invariant and every safety action property of a passing run is stated by a theorem.

## 6. Not modelled

* several CPUs: a build where `spin_lock_bh` spins stops for good at the first `qmark -r 1`, which every start,
  reload and stop issues, so its races (two packets of one address, the mark read after the unlock in
  `qos_marktbl_hashtbl_get`) are those of a system that cannot be brought up;
* `init.d` restart, which removes the directory with the lock file: with two lock files two handlers interleave
  freely and no property of `QosControl` is meant to hold;
* the throughput windows of `polling.sh`: when it asks for start and stop is arbitrary in `QosControl`;
* option parsing (`libxt_qmark.c`, `qmark.c`): one struct or one ioctl, no state; listings, log files, HTB bursts and
  line rates computed in `tc.sh`, the unused `tc_sfq_qdisc_modify`; UCI edits of the `wanhook`, `vpnhook` and
  `bridgescripts` hooks;
* in `QosControl`: key prefixes in `state.data`, self-defined address sets and time objects, failures of `qmark` and
  `tc`, a rule's duplicate iptables entries after a kill, the order of the chain's entries.
