----------------------------- MODULE QosControl -----------------------------
(***************************************************************************)
(* The control scripts (src/script/lib/ip_qos/main.sh and core.sh) driving *)
(* the kernel mark table while packets and connections go on.              *)
(*                                                                         *)
(* main.sh runs one handler at a time under flock; requests wait for the   *)
(* lock.  A handler is a program of commands, and every command that       *)
(* touches shared state (an ioctl of `qmark', iptables, a state file) is   *)
(* one step: packets, conntrack events and new requests come in between.   *)
(* The `qmark -r 1' ioctl is two steps, as in QMarkTable.                  *)
(*                                                                         *)
(* UCI options of a rule are abstracted to: does the section exist, is it  *)
(* enabled, its mode, and (constant) whether a time object governs it.     *)
(* The counter rule_num and the rate options are left out (a rule has a    *)
(* rate in both directions).  The UCI file is read when a script starts,   *)
(* before it waits for the lock, so a request carries the configuration it *)
(* saw.                                                                    *)
(***************************************************************************)
EXTENDS QMarkTable, Sequences, Functions

CONSTANTS Timed,        \* rules with a named time object
          Configs,      \* configurations the administrator writes to a rule
          Lists,        \* lists of rules a request may name
          MaxWaiting,   \* bound: requests waiting for the lock
          StartsOnce,   \* QoS is started only while it is not running
          Overlap,      \* UCI is written while other requests are under way
          LateReports,  \* rules just disabled are reported active
          MayKill       \* dispatch.sh kills the polling daemon

ASSUME ControlAssumption ==
    /\ MaxWaiting \in Nat
    /\ Timed \subseteq RuleIds
    /\ Lists \subseteq Seq(RuleIds)
    /\ Configs \subseteq [exists : {TRUE}, on : BOOLEAN,
                           mode : {PRIV_MODE, SHARE_MODE}]
    /\ {StartsOnce, Overlap, LateReports, MayKill} \subseteq BOOLEAN

VARIABLES ready,        \* the file .ready ($QOS_READY)
          stopFlag,     \* the file .stop_flag ($QOS_STOP_FLAG)
          state,        \* state.data: rule -> [enable, install]
          uci,          \* the UCI file: rule -> configuration
          timeobj,      \* rules registered with the time manager
          nf,           \* entries <<rule, direction>> of the iptables chain
          tree,         \* the tc trees of the interfaces are built
          waiting,      \* requests blocked in flock
          job,          \* the handler that holds the lock, or NoJob
          now,          \* its commands up to the next turn of its loop
          todo,         \* the turns its loop has left
          last,         \* its commands after the loop
          killed        \* ghost: a handler was killed since the last stop

table == vars           \* the variables of QMarkTable
files == <<ready, stopFlag, state>>
outside == <<nf, tree, timeobj>>
prog == <<now, todo, last>>
controlVars == <<table, files, outside, uci, waiting, job, prog, killed>>

AllRules == [i \in 1..RuleCnt |-> i]
Absent == [exists |-> FALSE, on |-> FALSE, mode |-> SHARE_MODE]
Cfgs == [RuleIds -> Configs \union {Absent}]
NoState == [enable |-> "", install |-> FALSE]
NoJob == [op |-> "none", cfg |-> [r \in RuleIds |-> Absent]]
Free == job = NoJob
Done == now = <<>> /\ todo = <<>> /\ last = <<>>

Installed == {r \in RuleIds : state[r].install}
InChain == {e[1] : e \in nf}
Known == {r \in RuleIds : g_ruletbl[r].par # NoPar}

ControlInit ==
    /\ Init
    /\ ready = FALSE
    /\ stopFlag = FALSE
    /\ state = [r \in RuleIds |-> NoState]
    /\ uci \in [RuleIds -> Configs]
    /\ timeobj = {}
    /\ nf = {}
    /\ tree = FALSE
    /\ waiting = {}
    /\ job = NoJob
    /\ Done
    /\ killed = FALSE

-----------------------------------------------------------------------------
(* The handlers as programs.  A command is <<name, rule>>.  The handler    *)
(* runs what `now' holds, then the next turn of its loop, and when no turn *)
(* is left, what `last' holds.  A turn of a loop may put commands in `now'.*)

Cmd(name) == <<name, 0>>
Each(name, list) == [i \in DOMAIN list |-> <<name, list[i]>>]

Load(first, loop, end) == now' = first /\ todo' = loop /\ last' = end
Finish == Load(<<>>, <<>>, <<>>)

Current ==
    IF now # <<>> THEN Head(now) ELSE IF todo # <<>> THEN Head(todo) ELSE Head(last)
At(name) == ~Done /\ Current[1] = name
Rule == Current[2]

\* The command has no successor but the next one.
Proceed ==
    IF now # <<>> THEN Load(Tail(now), todo, last)
    ELSE IF todo # <<>> THEN Load(now, Tail(todo), last)
    ELSE Load(now, todo, Tail(last))

\* A turn of the loop goes on with cmds; `break' leaves the loop.
Enter(cmds) == Load(cmds, Tail(todo), last)
Break == Load(now, <<>>, last)

\* Seeded fault: the reset is begun and never ended.
ResetNotEnded == <<Cmd("resetBegin"), Cmd("resetFlush"), Cmd("tcDestroy"),
                   Cmd("tcInit")>>

qos_reset == <<Cmd("resetBegin"), Cmd("resetFlush"), Cmd("tcDestroy"),
               Cmd("tcInit"), Cmd("resetEnd")>>

\* Seeded fault: packets are sent to a rule the kernel does not have yet.
InstallNfFirst(r) == <<<<"nfAdd", r>>, <<"ruleAdd", r>>, <<"setInstall", r>>>>

qos_rule_install(r) ==
    <<<<"ruleAdd", r>>, <<"nfAdd", r>>, <<"setInstall", r>>>>

\* Seeded fault: the kernel keeps the rule.
UninstallKeepsRule(r) == <<<<"nfDel", r>>, <<"unsetInstall", r>>>>

qos_rule_uninstall(r) ==
    <<<<"nfDel", r>>, <<"unsetInstall", r>>, <<"ruleDel", r>>>>

\* A rule that is not in UCI is not enabled, and its turn does nothing.
qos_start(cfg) ==
    LET prelude == <<Cmd("setSpec"), Cmd("checkEnable")>>
        end == Append(qos_reset, Cmd("setReady"))
    IN  IF \A r \in RuleIds : ~cfg[r].exists
        THEN Load(prelude, <<>>, end)
        ELSE Load(Append(prelude, Cmd("genState")), Each("parse", AllRules), end)

\* Seeded fault: the stop flag is left behind.
DestroyLeavesFlag == Load(<<>>, <<>>,
    <<Cmd("unsetReady"), Cmd("clearState"), Cmd("nfDestroy"),
      Cmd("resetBegin"), Cmd("resetFlush"), Cmd("tcDestroy"),
      Cmd("flushRules")>>)

\* Seeded fault: the table is not flushed.
DestroyNoReset == Load(<<>>, <<>>,
    <<Cmd("unsetReady"), Cmd("clearState"), Cmd("nfDestroy"),
      Cmd("tcDestroy"), Cmd("flushRules"), Cmd("unsetStop")>>)

qos_destroy == Load(<<>>, <<>>,
    <<Cmd("unsetReady"), Cmd("clearState"), Cmd("nfDestroy"),
      Cmd("resetBegin"), Cmd("resetFlush"), Cmd("tcDestroy"),
      Cmd("flushRules"), Cmd("unsetStop")>>)

\* Seeded fault: an updated rule is not uninstalled first.
ReloadInPlace(op, list) ==
    Load(<<>>,
         CASE op = "delete" -> Each("delete", list)
           [] op = "add"    -> Each("newState", list) \o Each("parse", list)
           [] op = "update" -> Each("update", list),
         qos_reset)

qos_reload(op, list) ==
    Load(<<>>,
         CASE op = "delete" -> Each("delete", list)
           [] op = "add"    -> Each("newState", list) \o Each("parse", list)
           [] op = "update" -> Each("uninstall", list) \o Each("update", list),
         qos_reset)

\* Seeded fault: what a time object changed is not followed by a reset.
TimeWithoutReset(mode, list) ==
    Load(<<>>, Each(IF mode = "ACTIVE" THEN "activate" ELSE "expire", list), <<>>)

qos_time_handle(mode, list) ==
    Load(<<>>, Each(IF mode = "ACTIVE" THEN "activate" ELSE "expire", list), qos_reset)

\* The rules of the group that UCI has; those of `list' it has not are passed.
qos_ipgroup_handle(cfg, list) ==
    IF \A r \in Range(list) : ~cfg[r].exists THEN Finish
    ELSE Load(<<>>, Each("regroup", list), qos_reset)

qos_ifup_handle == Load(<<Cmd("checkRoot")>>, <<>>, qos_reset)

\* reload, time and ipgroup return at once when QoS is not ready.
Handler(req) ==
    CASE req.op = "start" -> qos_start(req.cfg)
      [] req.op = "stop"  -> qos_destroy
      [] req.op = "ifup"  -> qos_ifup_handle
      [] OTHER -> IF ~ready THEN Finish ELSE
           CASE req.op = "reload"  -> qos_reload(req.arg, req.list)
             [] req.op = "time"    -> qos_time_handle(req.arg, req.list)
             [] req.op = "ipgroup" -> qos_ipgroup_handle(req.cfg, req.list)

-----------------------------------------------------------------------------
(* Requests.                                                               *)

Request(op, arg, list) ==
    waiting' = waiting \union
        {[op |-> op, arg |-> arg, list |-> list, cfg |-> uci']}

Pending(op) == (~Free /\ job.op = op) \/ \E q \in waiting : q.op = op

\* dispatch.sh start: from init.d, or from the polling daemon once it has
\* seen that QoS is not ready.
RequestStart ==
    /\ StartsOnce => ~ready /\ ~Pending("start")
    /\ UNCHANGED <<uci, stopFlag>>
    /\ Request("start", "", <<>>)

\* main.sh stop raises the flag before it asks for the lock.
RequestStop ==
    /\ stopFlag' = TRUE
    /\ UNCHANGED uci
    /\ Request("stop", "", <<>>)

\* The configuration is written, then the script is told which rules changed.
RequestReload(list, cfg) ==
    /\ Overlap \/ (Free /\ waiting = {})
    /\ uci' = [r \in RuleIds |-> IF r \in Range(list) THEN cfg ELSE uci[r]]
    /\ \E op \in {"add", "delete", "update"} :
        /\ op = "add"    => cfg.exists /\ \A r \in Range(list) : ~uci[r].exists
        /\ op = "delete" => ~cfg.exists /\ \A r \in Range(list) : uci[r].exists
        /\ op = "update" => cfg.exists /\ \A r \in Range(list) : uci[r].exists
        /\ Request("reload", op, list)
    /\ UNCHANGED stopFlag

\* The time manager reports rules that are registered with it.  Its hook looks
\* for .ready and nothing else, so a report comes at any time: before a reload
\* that waits, behind it, or while it runs.  With LateReports one may say that
\* a rule is active which the administrator has disabled and the reload has
\* not deregistered yet.  The hook's own wait for the lock and the handler's
\* are one.
RequestTime(mode, list) ==
    /\ Range(list) \subseteq timeobj
    /\ \/ LateReports
       \/ mode = "EXPIRE"
       \/ \A r \in Range(list) : uci[r].exists => uci[r].on
    /\ UNCHANGED uci
    /\ Request("time", mode, list)
    /\ UNCHANGED stopFlag

RequestIpgroup(list) ==
    /\ UNCHANGED uci
    /\ Request("ipgroup", "update", list)
    /\ UNCHANGED stopFlag

RequestIfup ==
    /\ UNCHANGED uci
    /\ Request("ifup", "", <<>>)
    /\ UNCHANGED stopFlag

Submit ==
    /\ Cardinality(waiting) < MaxWaiting
    /\ \/ RequestStart
       \/ RequestStop
       \/ RequestIfup
       \/ \E list \in Lists, cfg \in Configs \union {Absent} :
             RequestReload(list, cfg)
       \/ \E list \in Lists, mode \in {"ACTIVE", "EXPIRE"} :
             RequestTime(mode, list)
       \/ \E list \in Lists : RequestIpgroup(list)
    /\ UNCHANGED <<table, outside, ready, state, job, prog, killed>>

\* flock -x: the request gets the lock.
Acquire(req) ==
    /\ Free
    /\ req \in waiting
    /\ waiting' = waiting \ {req}
    /\ job' = [op |-> req.op, cfg |-> req.cfg]
    /\ Handler(req)
    /\ UNCHANGED <<table, files, outside, uci, killed>>

\* flock -u.
Unlock ==
    /\ ~Free /\ Done
    /\ job' = NoJob
    /\ killed' = (killed /\ job.op # "stop")
    /\ UNCHANGED <<table, files, outside, uci, waiting, prog>>

\* dispatch.sh start or stop kills the polling daemon while it runs a
\* handler.  A command the daemon has started goes on to its end and holds
\* the lock until then.
KillPolling ==
    /\ MayKill
    /\ ~Done /\ job.op \in {"start", "stop"}
    /\ ~resetting
    /\ job' = NoJob
    /\ Finish
    /\ killed' = TRUE
    /\ UNCHANGED uci
    /\ \/ Request("stop", "", <<>>) /\ stopFlag' = TRUE
       \/ ready /\ Request("start", "", <<>>) /\ UNCHANGED stopFlag
       \/ ~ready /\ UNCHANGED <<waiting, stopFlag>>
    /\ UNCHANGED <<table, outside, ready, state>>

-----------------------------------------------------------------------------
(* The commands.                                                           *)

\* Seeded fault: every enabled rule is left to the time manager.
ByTimeAlways(r) == job.cfg[r].on

\* The rule is enabled, and a time object says when it applies.
ByTime(r) == job.cfg[r].on /\ r \in Timed

\* The rule is installed, unless qos_rule_install finds it in place; or finds
\* no address set or no interface for it, which may be so at any time.
InstallNow == ~state[Rule].install /\ job.cfg[Rule].exists

\* qos_rules_parse, one rule.
Parse ==
    /\ At("parse")
    /\ IF stopFlag THEN Break
       ELSE IF ~job.cfg[Rule].on \/ ByTime(Rule) THEN Proceed
       ELSE Break \/ (InstallNow /\ Enter(qos_rule_install(Rule)))
    /\ timeobj' = IF ByTime(Rule) /\ ~stopFlag THEN timeobj \union {Rule}
                                               ELSE timeobj
    /\ UNCHANGED <<table, files, nf, tree>>

\* The other loops, one rule: qos_time_handle, qos_ipgroup_handle and the
\* lists of qos_reload.  The time manager's rules are looked up in UCI anew.
RuleLoop ==
    /\ \/ /\ At("activate")
          /\ IF stopFlag THEN Break
             ELSE IF ~uci[Rule].exists THEN Proceed
             ELSE Break \/ (InstallNow /\ Enter(qos_rule_install(Rule)))
       \/ /\ At("expire")
          /\ IF stopFlag THEN Break
             ELSE IF ~uci[Rule].exists THEN Proceed
             ELSE IF ~state[Rule].install THEN Break
             ELSE Enter(qos_rule_uninstall(Rule))
       \/ /\ At("regroup")
          /\ IF stopFlag THEN Break
             ELSE IF ~job.cfg[Rule].exists \/ ~state[Rule].install THEN Proceed
             ELSE Enter(Append(qos_rule_uninstall(Rule), <<"install", Rule>>))
       \/ /\ At("install")
          /\ Proceed \/ (InstallNow /\ Load(qos_rule_install(Rule), todo, last))
       \/ /\ At("uninstall")
          /\ IF state[Rule].install THEN Enter(qos_rule_uninstall(Rule)) ELSE Proceed
       \/ /\ At("delete")
          /\ IF stopFlag THEN Break
             ELSE IF state[Rule].install /\ state[Rule].enable = "on"
             THEN Enter(Append(qos_rule_uninstall(Rule), <<"forget", Rule>>))
             ELSE Enter(<<<<"forget", Rule>>>>)
    /\ UNCHANGED <<table, files, outside>>

\* qos_reload: an updated rule is registered, installed or left out, and the
\* state file follows; a deleted one is forgotten.
Reload ==
    \/ /\ At("update")
       /\ \/ Enter(<<<<"newState", Rule>>>>)
          \/ /\ InstallNow /\ job.cfg[Rule].on /\ ~ByTime(Rule)
             /\ Enter(Append(qos_rule_install(Rule), <<"newState", Rule>>))
       /\ timeobj' = IF Rule \notin Timed THEN timeobj
                     ELSE IF ByTime(Rule) THEN timeobj \union {Rule}
                     ELSE timeobj \ {Rule}
       /\ UNCHANGED <<table, files, nf, tree>>
    \/ /\ At("newState") /\ Proceed
       /\ state' = [state EXCEPT ![Rule].enable =
                       IF @ = "twice" THEN @
                       ELSE IF job.cfg[Rule].on THEN "on" ELSE "off"]
       /\ UNCHANGED <<table, ready, stopFlag, outside>>
    \/ /\ At("forget") /\ Proceed
       /\ state' = [state EXCEPT ![Rule] = NoState]
       /\ timeobj' = timeobj \ (Timed \intersect {Rule})
       /\ UNCHANGED <<table, ready, stopFlag, nf, tree>>

\* find_index.lua: the rule goes behind two entries for each enabled rule
\* before it in UCI, whether that rule is installed or not.
InsertPosition(r) ==
    IF uci[r].exists THEN 2 * Cardinality({q \in 1..(r - 1) : uci[q].on}) + 1
                     ELSE 2 * Cardinality({q \in RuleIds : uci[q].on})

\* qos_nf_add_rule: iptables refuses an index past the end of the chain,
\* which begins with two entries of its own and ends with one.
ChainWith(chain, r, dir) ==
    IF InsertPosition(r) + 2 <= Cardinality(chain) + 4
    THEN chain \union {<<r, dir>>} ELSE chain

\* The steps of qos_rule_install and qos_rule_uninstall.
RuleStep ==
    \/ /\ At("ruleAdd") /\ Proceed
       /\ \E par \in Params : qmark_add_rule(Rule, job.cfg[Rule].mode, par)
       /\ UNCHANGED <<files, outside>>
    \/ /\ At("ruleDel") /\ Proceed
       /\ qmark_del_rule(Rule)
       /\ UNCHANGED <<files, outside>>
    \/ /\ \/ At("nfAdd") /\ nf' = ChainWith(ChainWith(nf, Rule, 0), Rule, 1)
          \/ At("nfDel") /\ nf' = {e \in nf : e[1] # Rule}
       /\ Proceed
       /\ UNCHANGED <<table, files, tree, timeobj>>
    \/ /\ \/ At("setInstall")   /\ state' = [state EXCEPT ![Rule].install = TRUE]
          \/ At("unsetInstall") /\ state' = [state EXCEPT ![Rule].install = FALSE]
       /\ Proceed
       /\ UNCHANGED <<table, ready, stopFlag, outside>>

\* qos_global_init, and state_gen.lua, which reads UCI itself and appends to
\* what state.data holds: a key that was there is there twice.
StartCommand ==
    \/ /\ At("setSpec") /\ Proceed
       /\ qmark_set_spec(DefaultSpec)
       /\ UNCHANGED <<files, outside>>
    \/ /\ At("checkEnable")
       /\ Proceed \/ Finish
       /\ UNCHANGED <<table, files, outside>>
    \/ /\ At("genState") /\ Proceed
       /\ state' = [r \in RuleIds |-> [state[r] EXCEPT !.enable =
                       IF ~uci[r].exists THEN @
                       ELSE IF @ # "" THEN "twice"
                       ELSE IF uci[r].on THEN "on" ELSE "off"]]
       /\ UNCHANGED <<table, ready, stopFlag, outside>>
    \/ /\ At("setReady") /\ Proceed
       /\ ready' = TRUE
       /\ UNCHANGED <<table, stopFlag, state, outside>>

\* qos_destroy.
StopCommand ==
    \/ /\ At("unsetReady") /\ Proceed
       /\ ready' = FALSE
       /\ UNCHANGED <<table, stopFlag, state, outside>>
    \/ /\ At("clearState") /\ Proceed
       /\ state' = [r \in RuleIds |-> NoState]
       /\ timeobj' = {}
       /\ UNCHANGED <<table, ready, stopFlag, nf, tree>>
    \/ /\ At("nfDestroy") /\ Proceed
       /\ nf' = {}
       /\ UNCHANGED <<table, files, tree, timeobj>>
    \/ /\ At("flushRules") /\ Proceed
       /\ qmark_flush_rule
       /\ UNCHANGED <<files, outside>>
    \/ /\ At("unsetStop") /\ Proceed
       /\ stopFlag' = FALSE
       /\ UNCHANGED <<table, ready, state, outside>>

\* qos_reset.  qos_tc_init builds the trees of the installed rules.
ResetCommand ==
    \/ /\ \/ At("resetBegin") /\ ResetBegin
          \/ At("resetFlush") /\ ResetFlush
          \/ At("resetEnd")   /\ ResetEnd
       /\ Proceed
       /\ UNCHANGED <<files, outside>>
    \/ /\ \/ At("tcDestroy") /\ tree' = FALSE
          \/ At("tcInit")    /\ tree' = (Installed # {})
       /\ Proceed
       /\ UNCHANGED <<table, files, nf, timeobj>>

\* qos_ifup_handle: a device that came up anew has lost its tc root.
Ifup ==
    /\ At("checkRoot")
    /\ Proceed \/ (tree /\ Finish)
    /\ UNCHANGED <<table, files, outside>>

\* One command of the handler that holds the lock.
Step ==
    /\ Parse \/ RuleLoop \/ Reload \/ RuleStep \/ StartCommand
        \/ StopCommand \/ ResetCommand \/ Ifup
    /\ UNCHANGED <<uci, waiting, job, killed>>

-----------------------------------------------------------------------------

\* Packets reach the target for the rules iptables has.
Traffic ==
    /\ \/ \E ip \in IPs, id \in InChain :
             \/ qmark_alloc_mark_auto(ip, id)
             \/ AllocMarkAutoFails(ip, id)
             \/ AllocMarkAutoOops(ip, id)
       \/ Conntrack
    /\ UNCHANGED <<files, outside, uci, waiting, job, prog, killed>>

ControlHalted == panic /\ UNCHANGED controlVars

ControlNext ==
    \/ /\ ~panic
       /\ \/ Submit
          \/ \E req \in waiting : Acquire(req)
          \/ Step
          \/ Unlock
          \/ KillPolling
          \/ Traffic
    \/ ControlHalted

\* The shell that holds the lock runs on, and flock serves its waiters in
\* turn, so a stop that waits while the lock is free again and again gets it.
Fairness ==
    /\ WF_controlVars(~panic /\ (Step \/ Unlock))
    /\ SF_controlVars(~panic /\ \E req \in waiting : req.op = "stop" /\ Acquire(req))

ControlSpec == ControlInit /\ [][ControlNext]_controlVars /\ Fairness

-----------------------------------------------------------------------------

Ops == {"start", "stop", "reload", "time", "ipgroup", "ifup"}
Requests == [op : Ops, list : Lists \union {<<>>}, cfg : Cfgs,
             arg : {"", "add", "delete", "update", "ACTIVE", "EXPIRE"}]
Names == {"setSpec", "checkEnable", "genState", "setReady", "checkRoot",
          "parse", "activate", "expire", "regroup", "uninstall", "delete",
          "update", "newState", "ruleAdd", "nfAdd", "setInstall", "nfDel",
          "unsetInstall", "ruleDel", "install", "forget", "unsetReady",
          "clearState", "nfDestroy", "flushRules", "unsetStop", "resetBegin",
          "resetFlush", "tcDestroy", "tcInit", "resetEnd"}
Commands == Names \X (0..RuleCnt)

ControlTypeOK ==
    /\ TypeOK
    /\ ready \in BOOLEAN
    /\ stopFlag \in BOOLEAN
    /\ state \in [RuleIds -> [enable : {"", "on", "off", "twice"},
                              install : BOOLEAN]]
    /\ uci \in Cfgs
    /\ timeobj \subseteq Timed
    /\ nf \subseteq RuleIds \X {0, 1}
    /\ tree \in BOOLEAN
    /\ killed \in BOOLEAN
    /\ waiting \subseteq Requests
    /\ Cardinality(waiting) <= MaxWaiting + 1
    /\ job \in [op : Ops \union {"none"}, cfg : Cfgs]
    /\ {now, todo, last} \subseteq Seq(Commands)

\* However the handlers are scheduled and wherever traffic interrupts them, a
\* rule that is rewritten under live bindings is followed by a flush of the
\* table before the lock is released: MarkService's promise is in force again.
UnlockedClean == Free /\ ~killed => clean

\* While QoS is ready and nobody holds the lock, state.data and the kernel's
\* rule table name the same rules and iptables names no other.
RulesAgree ==
    Free /\ ready /\ ~killed => InChain \subseteq Installed /\ Installed = Known

\* QoS that is ready gives out marks: no handler leaves the table in reset.
ReadyServes == Free /\ ready /\ ~killed => ~reset_flag

\* The trees are built exactly when QoS runs with a rule installed; no late
\* handler (ifup after a stop) leaves trees behind or misses their rebuild.
TreeFollowsRules ==
    Free /\ ~killed => (tree <=> ready /\ Installed # {})

\* While QoS is not ready nothing of it is left in iptables, in state.data or
\* in the kernel; after a killed handler, from the next stop on.
StoppedQuiet ==
    Free /\ ~ready /\ ~killed =>
        /\ nf = {} /\ Installed = {} /\ Known = {}
        /\ Bound = {} /\ mark_bitmap = {}

\* Packets are bound only under rules the kernel was told (`qmark -a' comes
\* before the iptables rule, which goes before `qmark -d').
BoundUnderKnownRule ==
    clean => \A ip \in Bound : marktbl[ip].id \in Known

\* A requested stop is carried out, whatever else is requested meanwhile.
StopCompletes == stopFlag ~> (~stopFlag \/ panic)

\* A reset that was begun on a running QoS ends.
ResetEnds == ready /\ reset_flag ~> (~reset_flag \/ ~ready \/ panic)

\* core.sh's "rule ... has alreay install, skip": the kernel has the rule.
SkippedRuleIsKnown ==
    At("parse") /\ job.cfg[Rule].on /\ ~ByTime(Rule) /\ ~stopFlag
        /\ state[Rule].install => Rule \in Known

\* core.sh's "add netfilter(iptables) rule": what it records as installed has
\* its iptables rules in both directions.
InstalledInChain ==
    Free /\ ready => Installed \X {0, 1} \subseteq nf

\* main.sh's "check rule should be to install - if rule is enable": once all
\* requests are served, the installed rules are enabled ones.
InstalledAreEnabled ==
    Free /\ waiting = {} => \A r \in Installed : uci[r].on

=============================================================================
