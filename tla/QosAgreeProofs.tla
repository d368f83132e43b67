--------------------------- MODULE QosAgreeProofs ---------------------------
(***************************************************************************)
(* RulesAgree of QosControl: iptables, state.data and the kernel name the  *)
(* same rules whenever the lock is free and QoS is ready.                  *)
(***************************************************************************)
EXTENDS QosControlProofs

-----------------------------------------------------------------------------
(* What is installed.  The state file, the kernel and UCI are compared     *)
(* rule by rule; a rule that a request or the rest of a handler's program  *)
(* still has to bring in line is left out.  UCI is written here only while *)
(* no other request is under way, and no rule that is just disabled is     *)
(* reported as active (the runs control_overlap and control_late_report    *)
(* show why).  The time manager reports its rules at any time.             *)

Waits(arg, r) == \E q \in waiting : q.op = "reload" /\ q.arg = arg /\ r \in Range(q.list)

\* A handler sees the configuration in force.
Fresh ==
    /\ \A q \in waiting : q.cfg = uci
    /\ ~Free => job.cfg = uci

\* One change of the configuration at a time.
OneReload ==
    /\ \A p, q \in waiting : p.op = "reload" /\ q.op = "reload" => p = q
    /\ job.op = "reload" => \A q \in waiting : q.op # "reload"

\* The time manager's word that a rule is active is still to be followed.
ActiveWaits(r) ==
    \E q \in waiting : q.op = "time" /\ q.arg = "ACTIVE" /\ r \in Range(q.list)
Activates(r) == ActiveWaits(r) \/ <<"activate", r>> \in Range(todo)

StopAsked ==
    stopFlag => (\E q \in waiting : q.op = "stop") \/ (job.op = "stop" /\ ~Done)

\* Which loops a handler has: the turns named first come before the others.
Kinds == {<<"start", "parse", "parse">>, <<"reload", "newState", "parse">>,
          <<"reload", "uninstall", "update">>, <<"reload", "delete", "delete">>,
          <<"time", "activate", "activate">>, <<"time", "expire", "expire">>,
          <<"ipgroup", "regroup", "regroup">>}
Sorted(s, a, b) ==
    /\ \A i \in 1..Len(s) : s[i][1] \in {a, b}
    /\ \A i, j \in 1..Len(s) : i < j /\ s[j][1] = a => s[i][1] = a
Loops ==
    /\ todo # <<>> => \E k \in Kinds : job.op = k[1] /\ Sorted(todo, k[2], k[3])
    /\ \A x \in Range(now) : x[1] = "install" => job.op = "ipgroup"
    /\ \A x \in Range(now) : x[1] = "forget" => job.op = "reload"
    /\ \A x \in Range(now) : x[1] = "newState" =>
          job.op = "reload" /\ \A y \in Range(todo) : y[1] # "uninstall"

\* Before the first start and after a stop nothing is recorded.
Blank == state = [r \in RuleIds |-> NoState] /\ timeobj = {}
Blanked ==
    /\ ~ready /\ (AtRest \/ At("genState") \/ job.op = "ifup") => Blank
    /\ job.op = "stop" => At("unsetReady") \/ At("clearState") \/ Blank

\* Requests name the rules they may.
Asks ==
    /\ \A r \in RuleIds : Waits("delete", r) \/ <<"delete", r>> \in Range(todo)
                              \/ <<"forget", r>> \in Range(now) => ~uci[r].exists
    /\ \A r \in RuleIds : Activates(r) /\ uci[r].exists => uci[r].on

\* The time manager has enabled rules.
Registered ==
    \A r \in timeobj :
        /\ uci[r].exists => uci[r].on \/ Waits("update", r) \/ <<"update", r>> \in Range(todo)
        /\ \/ stopFlag \/ uci[r].exists
           \/ Waits("delete", r) \/ <<"delete", r>> \in Range(todo)
           \/ <<"forget", r>> \in Range(now)

\* The kernel has the rules that state.data has, up to the one in hand.
Agree ==
    /\ job.op # "stop" =>
        IF At("nfAdd") \/ At("setInstall") THEN Known = Installed \union {Rule}
        ELSE IF At("ruleDel") THEN Installed = Known \ {Rule}
        ELSE Installed = Known
    /\ At("forget") => Rule \notin Installed

AtInstall == At("ruleAdd") \/ At("nfAdd") \/ At("setInstall")
AtUninstall == At("nfDel") \/ At("unsetInstall") \/ At("ruleDel")

\* An installed rule is recorded as enabled, and so is one about to be
\* installed, unless the record follows.
Recorded ==
    /\ \A r \in RuleIds : state[r].install =>
          state[r].enable = "on" \/ (At("newState") /\ Rule = r)
    /\ AtInstall => \/ state[Rule].enable = "on"
                    \/ uci[Rule].on /\ <<"newState", Rule>> \in Range(now)
    /\ AtUninstall \/ At("install") => state[Rule].enable = "on"

\* An installed rule is enabled in UCI.
Leaves(r) == Waits("update", r) \/ Waits("delete", r)
Enabled ==
    /\ \A r \in RuleIds : state[r].install =>
          \/ uci[r].on \/ Leaves(r)
          \/ <<"uninstall", r>> \in Range(todo) \/ <<"delete", r>> \in Range(todo)
          \/ job.op = "reload" /\ (At("nfDel") \/ At("unsetInstall")) /\ Rule = r
    /\ AtInstall \/ At("install") \/ (job.op = "ipgroup" /\ AtUninstall)
          => uci[Rule].on \/ Leaves(Rule)
    /\ At("newState") /\ now # <<>> /\ state[Rule].install => uci[Rule].on

\* A rule enabled in UCI is recorded as enabled.
Follows ==
    /\ ready => \A r \in RuleIds : uci[r].on =>
          \/ state[r].enable = "on" \/ Waits("add", r) \/ Waits("update", r)
          \/ <<"newState", r>> \in Range(todo) \union Range(now)
          \/ <<"update", r>> \in Range(todo)
    /\ job.op = "start" /\ ~Done =>
          \/ <<"genState", 0>> \in Range(now)
          \/ \A r \in RuleIds : uci[r].on => state[r].enable = "on"

\* A rule of the time manager is recorded as enabled, and so is one reported as
\* active, unless the record follows.
RecordComes(r) == state[r].enable = "on" \/ <<"newState", r>> \in Range(now)
Timely ==
    /\ \A r \in timeobj : /\ RecordComes(r)
                          /\ <<"newState", r>> \in Range(now) => uci[r].on
    /\ \A r \in RuleIds : ready /\ Activates(r) /\ uci[r].exists => RecordComes(r)

NotTwice == \A r \in RuleIds : state[r].enable # "twice"

DInv == /\ Fresh /\ OneReload /\ StopAsked /\ Loops /\ Blanked /\ Asks
        /\ Registered /\ Agree /\ NotTwice
        /\ ~stopFlag => Recorded /\ Enabled /\ Follows /\ Timely

-----------------------------------------------------------------------------
(* Programs as they are run.                                               *)

LEMMA RangeTail ==
    ASSUME NEW S, NEW s \in Seq(S), s # <<>>
    PROVE  Range(s) = {Head(s)} \union Range(Tail(s))
<1>1. /\ Len(s) \in Nat \ {0} /\ Head(s) = s[1]
      /\ Tail(s) \in Seq(S) /\ Len(Tail(s)) = Len(s) - 1
      /\ \A i \in 1..Len(Tail(s)) : Tail(s)[i] = s[i + 1]
  BY HeadTailProperties, EmptySeq
<1>2. DOMAIN s = 1..Len(s) /\ DOMAIN Tail(s) = 1..Len(Tail(s))
  BY <1>1
<1>3. ASSUME NEW i \in 1..Len(s) PROVE s[i] \in {Head(s)} \union Range(Tail(s))
  <2>1. CASE i = 1
    BY <1>1, <2>1
  <2>2. CASE i # 1
    <3>1. i - 1 \in 1..Len(Tail(s)) /\ (i - 1) + 1 = i
      BY <1>1, <2>2
    <3>2. Tail(s)[i - 1] = s[i]
      BY <1>1, <3>1
    <3>. QED  BY <1>2, <3>1, <3>2 DEF Range
  <2>. QED  BY <2>1, <2>2
<1>4. ASSUME NEW i \in 1..Len(Tail(s)) PROVE Tail(s)[i] \in Range(s)
  <2>1. i + 1 \in 1..Len(s)
    BY <1>1
  <2>. QED  BY <1>1, <1>2, <2>1 DEF Range
<1>5. Head(s) \in Range(s)
  BY <1>1, <1>2 DEF Range
<1>. QED  BY <1>2, <1>3, <1>4, <1>5 DEF Range

LEMMA RangeEmpty == Range(<<>>) = {}
BY DEF Range

LEMMA SortedTail ==
    ASSUME NEW S, NEW s \in Seq(S), s # <<>>, NEW a, NEW b, Sorted(s, a, b)
    PROVE  /\ Sorted(Tail(s), a, b)
           /\ \A x \in Range(s) : x[1] \in {a, b}
           /\ Head(s)[1] \in {a, b}
           /\ Head(s)[1] # a => \A x \in Range(s) : x[1] = b
<1>1. /\ Len(s) \in Nat \ {0} /\ Head(s) = s[1]
      /\ Tail(s) \in Seq(S) /\ Len(Tail(s)) = Len(s) - 1
      /\ \A i \in 1..Len(Tail(s)) : Tail(s)[i] = s[i + 1] /\ i + 1 \in 1..Len(s)
  BY HeadTailProperties, EmptySeq
<1>2. DOMAIN s = 1..Len(s) /\ 1 \in 1..Len(s)
  BY <1>1
<1>3. \A i \in 1..Len(Tail(s)) : Tail(s)[i][1] \in {a, b}
  BY <1>1 DEF Sorted
<1>4. ASSUME NEW i \in 1..Len(Tail(s)), NEW j \in 1..Len(Tail(s)), i < j, Tail(s)[j][1] = a
      PROVE  Tail(s)[i][1] = a
  <2>1. i + 1 \in 1..Len(s) /\ j + 1 \in 1..Len(s) /\ i + 1 < j + 1
    BY <1>1, <1>4
  <2>. QED  BY <1>1, <1>4, <2>1 DEF Sorted
<1>5. Sorted(Tail(s), a, b)
  BY <1>3, <1>4 DEF Sorted
<1>6. \A x \in Range(s) : x[1] \in {a, b}
  BY <1>2 DEF Range, Sorted
<1>7. ASSUME Head(s)[1] # a, NEW j \in 1..Len(s) PROVE s[j][1] = b
  <2>1. j = 1 \/ 1 < j
    OBVIOUS
  <2>. QED  BY <1>1, <1>2, <1>7, <2>1 DEF Sorted
<1>8. Head(s)[1] # a => \A x \in Range(s) : x[1] = b
  BY <1>2, <1>7 DEF Range
<1>. QED  BY <1>1, <1>2, <1>5, <1>6, <1>8 DEF Sorted

\* What a command leaves of the program: all but itself, unless it breaks out
\* of the loop, ends the handler or puts the commands of a turn first.
LEMMA Walk ==
    ASSUME Shape, Step
    PROVE  /\ ~Done /\ UNCHANGED <<uci, waiting, job, killed>>
           /\ Range(todo') \subseteq Range(todo)
           /\ Range(todo) \subseteq Range(todo') \union {Current} \/ Break \/ Finish
           /\ \A a, b : Sorted(todo, a, b) => Sorted(todo', a, b)
           /\ todo' # <<>> => todo # <<>>
           /\ Proceed => Range(now') \subseteq Range(now)
           /\ Proceed => Range(now) \subseteq Range(now') \union {Current}
           /\ now # <<>> => Current \in Range(now)
           /\ now = <<>> /\ todo # <<>> => Current \in Range(todo)
           /\ Proceed /\ now # <<>> => todo' = todo
           /\ Proceed /\ now = <<>> => now' = <<>>
           /\ Break => now' = now /\ todo' = <<>>
<1>1. ~Done /\ UNCHANGED <<uci, waiting, job, killed>>
  BY StepFlow DEF Step
<1>2. todo \in Seq(LoopNames \X RuleIds)
  BY DEF Shape
<1>3. now # <<>> => \E S : now \in Seq(S)
  BY DEF Shape, NowShape, Chain
<1>4. now # <<>> => Range(now) = {Head(now)} \union Range(Tail(now))
  BY <1>3, RangeTail
<1>5. todo # <<>> => Range(todo) = {Head(todo)} \union Range(Tail(todo))
  BY <1>2, RangeTail
<1>6. todo # <<>> => \A a, b : Sorted(todo, a, b) => Sorted(Tail(todo), a, b)
  BY <1>2, SortedTail
<1>7. /\ now # <<>> => Current = Head(now)
      /\ now = <<>> /\ todo # <<>> => Current = Head(todo)
  BY DEF Current
<1>8. \A a, b : Sorted(<<>>, a, b)
  BY DEF Sorted
<1>9. CASE Proceed
  <2>1. CASE now # <<>>
    BY <1>1, <1>4, <1>7, <1>9, <2>1 DEF Proceed, Load, Finish, Break
  <2>2. CASE now = <<>> /\ todo # <<>>
    BY <1>1, <1>5, <1>6, <1>7, <1>9, <2>2, RangeEmpty DEF Proceed, Load, Finish, Break
  <2>3. CASE now = <<>> /\ todo = <<>>
    BY <1>1, <1>9, <2>3, RangeEmpty DEF Proceed, Load, Finish, Break
  <2>. QED  BY <2>1, <2>2, <2>3
<1>10. CASE Finish \/ Break
  <2>1. todo' = <<>>
    BY <1>10 DEF Finish, Break, Load
  <2>. QED  BY <1>1, <1>4, <1>5, <1>7, <1>8, <1>9, <1>10, <2>1, RangeEmpty DEF Break, Load
<1>11. CASE ~Proceed /\ ~Finish /\ ~Break
  <2>1. \/ \E cmds : Enter(cmds) /\ now = <<>> /\ todo # <<>>
        \/ todo' = todo
    <3>1. CASE At("install")
      BY <1>11, <3>1 DEF Step, Parse, RuleLoop, Reload, RuleStep, StartCommand, StopCommand,
                    ResetCommand, Ifup, At, Load
    <3>2. CASE ~At("install")
      <4>1. Current[1] \in LoopNames \ {"newState"}
        BY <1>11, <3>2 DEF Step, Parse, RuleLoop, Reload, RuleStep, StartCommand, StopCommand,
                    ResetCommand, Ifup, At, LoopNames
      <4>2. \E cmds : Enter(cmds)
        BY <1>11, <3>2 DEF Step, Parse, RuleLoop, Reload, RuleStep, StartCommand, StopCommand,
                    ResetCommand, Ifup
      <4>. QED  BY <1>1, <4>1, <4>2, AtLoop
    <3>. QED  BY <3>1, <3>2
  <2>2. CASE todo' = todo
    BY <1>1, <1>4, <1>5, <1>7, <1>11, <2>2
  <2>3. CASE (\E cmds : Enter(cmds)) /\ now = <<>> /\ todo # <<>>
    <3>1. todo' = Tail(todo)
      BY <2>3 DEF Enter, Load
    <3>. QED  BY <1>1, <1>4, <1>5, <1>6, <1>7, <1>11, <2>3, <3>1
  <2>. QED  BY <2>1, <2>2, <2>3
<1>. QED  BY <1>9, <1>10, <1>11

\* A configuration has no enabled rule that is not there.
LEMMA OnIsThere == \A cfg \in Cfgs, r \in RuleIds : cfg[r].on => cfg[r].exists
<1>1. \A c \in Configs \union {Absent} : c.on => c.exists
  <2>1. \A c \in Configs : c \in [exists : {TRUE}, on : BOOLEAN, mode : {PRIV_MODE, SHARE_MODE}]
    BY ControlAssumption
  <2>2. ~Absent.on
    BY DEF Absent
  <2>. QED  BY <2>1, <2>2
<1>. QED  BY <1>1 DEF Cfgs

LEMMA OnExists ==
    ASSUME ControlTypes, NEW r \in RuleIds
    PROVE  /\ uci[r].on \in BOOLEAN /\ uci[r].exists \in BOOLEAN
           /\ uci[r].on => uci[r].exists
BY OnIsThere, CfgTypes DEF ControlTypes

\* The commands a handler has in hand.
LEMMA NowNames ==
    ASSUME Shape
    PROVE  /\ \A x \in Range(now) : x = <<x[1], x[2]>>
           /\ \A x \in Range(now) :
                \/ job.op = "start" /\ x[1] \in {"setSpec", "checkEnable", "genState"}
                \/ job.op = "ifup" /\ x[1] = "checkRoot"
                \/ job.op \in LoopOps /\ x[1] \in RuleNames /\ x[2] \in RuleIds
           /\ \A x \in Range(todo) : x = <<x[1], x[2]>> /\ x[1] \in LoopNames /\ x[2] \in RuleIds
<1>1. ASSUME NEW flow, NEW rules, Chain(now, flow, rules), NEW x \in Range(now)
      PROVE  /\ x = <<x[1], x[2]>> /\ x[2] \in rules
             /\ \E y : <<x[1], y>> \in flow
  <2>1. now \in Seq(Names \X rules) /\ DOMAIN now = 1..Len(now) /\ Len(now) \in Nat
    BY <1>1 DEF Chain
  <2>2. PICK i \in 1..Len(now) : x = now[i]
    BY <2>1 DEF Range
  <2>3. now[i] \in Names \X rules
    BY <2>1, <2>2
  <2>4. i = Len(now) \/ i < Len(now)
    <3>1. \A n \in Nat : \A j \in 1..n : j = n \/ j < n
      OBVIOUS
    <3>. QED  BY <2>1, <2>2, <3>1
  <2>5. \E y : <<now[i][1], y>> \in flow
    BY <1>1, <2>2, <2>4 DEF Chain
  <2>6. \A p \in Names \X rules : p = <<p[1], p[2]>> /\ p[2] \in rules
    OBVIOUS
  <2>. QED  BY <2>2, <2>3, <2>5, <2>6
<1>2. ASSUME NEW x \in Range(now)
      PROVE  /\ x = <<x[1], x[2]>>
             /\ \/ job.op = "start" /\ x[1] \in {"setSpec", "checkEnable", "genState"}
                \/ job.op = "ifup" /\ x[1] = "checkRoot"
                \/ job.op \in LoopOps /\ x[1] \in RuleNames /\ x[2] \in RuleIds
  <2>1. CASE now = <<>>
    BY <1>2, <2>1, RangeEmpty
  <2>2. CASE job.op = "start" /\ Chain(now, PreludeFlow, {0})
    <3>1. x = <<x[1], x[2]>> /\ \E y : <<x[1], y>> \in PreludeFlow
      BY <1>1, <1>2, <2>2
    <3>. QED  BY <2>2, <3>1 DEF PreludeFlow
  <2>3. CASE job.op = "ifup" /\ Chain(now, CheckFlow, {0})
    <3>1. x = <<x[1], x[2]>> /\ \E y : <<x[1], y>> \in CheckFlow
      BY <1>1, <1>2, <2>3
    <3>. QED  BY <2>3, <3>1 DEF CheckFlow
  <2>4. CASE job.op \in LoopOps /\ Chain(now, RuleFlow, RuleIds)
    <3>1. x = <<x[1], x[2]>> /\ x[2] \in RuleIds /\ \E y : <<x[1], y>> \in RuleFlow
      BY <1>1, <1>2, <2>4
    <3>2. x[1] \in RuleNames
      BY <3>1 DEF RuleFlow, RuleNames
    <3>. QED  BY <2>4, <3>1, <3>2
  <2>. QED  BY <2>1, <2>2, <2>3, <2>4 DEF Shape, NowShape
<1>3. ASSUME NEW x \in Range(todo)
      PROVE  x = <<x[1], x[2]>> /\ x[1] \in LoopNames /\ x[2] \in RuleIds
  <2>1. todo \in Seq(LoopNames \X RuleIds) /\ DOMAIN todo = 1..Len(todo)
    BY DEF Shape
  <2>2. x \in LoopNames \X RuleIds
    BY <1>3, <2>1 DEF Range
  <2>. QED  BY <2>2
<1>. QED  BY <1>2, <1>3

LEMMA CurrentPair ==
    ASSUME Shape, ~Done, Current[1] \in RuleNames \union LoopNames
    PROVE  Current = <<Current[1], Rule>>
<1>1. CASE now # <<>>
  <2>1. \E S : now \in Seq(S)
    BY <1>1 DEF Shape, NowShape, Chain
  <2>2. Current \in Range(now)
    BY <1>1, <2>1, RangeTail DEF Current
  <2>. QED  BY <2>2, NowNames DEF Rule
<1>2. CASE now = <<>> /\ todo # <<>>
  <2>1. Current \in Range(todo)
    BY <1>2, RangeTail DEF Current, Shape
  <2>. QED  BY <2>1, NowNames DEF Rule
<1>3. CASE now = <<>> /\ todo = <<>>
  BY <1>3, Place DEF InPlace, RuleNames, LoopNames, StopNames, ResetNames
<1>. QED  BY <1>1, <1>2, <1>3

\* The turns that are left when one begins, and whose they are.
LEMMA Kind ==
    ASSUME Shape, Loops, ~Done, now = <<>>, todo # <<>>
    PROVE  /\ At("parse") => /\ job.op \in {"start", "reload"}
                             /\ \A x \in Range(todo) : x[1] = "parse"
           /\ At("newState") => /\ job.op = "reload"
                                /\ \A x \in Range(todo) : x[1] \in {"newState", "parse"}
           /\ At("uninstall") => /\ job.op = "reload"
                                 /\ \A x \in Range(todo) : x[1] \in {"uninstall", "update"}
           /\ At("update") => job.op = "reload" /\ \A x \in Range(todo) : x[1] = "update"
           /\ At("delete") => job.op = "reload" /\ \A x \in Range(todo) : x[1] = "delete"
           /\ At("activate") => job.op = "time" /\ \A x \in Range(todo) : x[1] = "activate"
           /\ At("expire") => job.op = "time" /\ \A x \in Range(todo) : x[1] = "expire"
           /\ At("regroup") => job.op = "ipgroup" /\ \A x \in Range(todo) : x[1] = "regroup"
<1>1. PICK k \in Kinds : job.op = k[1] /\ Sorted(todo, k[2], k[3])
  BY DEF Loops
<1>2. /\ \A x \in Range(todo) : x[1] \in {k[2], k[3]}
      /\ Head(todo)[1] \in {k[2], k[3]}
      /\ Head(todo)[1] # k[2] => \A x \in Range(todo) : x[1] = k[3]
  BY <1>1, SortedTail DEF Shape
<1>3. Current = Head(todo)
  BY DEF Current
<1>. QED  BY <1>1, <1>2, <1>3 DEF Kinds, At

\* Whose turns there are.
LEMMA LoopJob ==
    ASSUME Shape, Loops, NEW x \in Range(todo)
    PROVE  /\ x[1] \in {"newState", "uninstall", "update", "delete"} => job.op = "reload"
           /\ job.op = "start" => x[1] = "parse"
           /\ job.op \in LoopOps
<1>1. todo # <<>>
  BY RangeEmpty
<1>2. PICK k \in Kinds : job.op = k[1] /\ Sorted(todo, k[2], k[3])
  BY <1>1 DEF Loops
<1>3. x[1] \in {k[2], k[3]}
  BY <1>1, <1>2, SortedTail DEF Shape
<1>. QED  BY <1>2, <1>3 DEF Kinds, LoopOps

LEMMA RuleRanges ==
    ASSUME NEW r
    PROVE  /\ Range(qos_rule_install(r)) = {<<"ruleAdd", r>>, <<"nfAdd", r>>, <<"setInstall", r>>}
           /\ Range(qos_rule_uninstall(r)) =
                {<<"nfDel", r>>, <<"unsetInstall", r>>, <<"ruleDel", r>>}
           /\ Range(Append(qos_rule_install(r), <<"newState", r>>)) =
                {<<"ruleAdd", r>>, <<"nfAdd", r>>, <<"setInstall", r>>, <<"newState", r>>}
           /\ Range(Append(qos_rule_uninstall(r), <<"install", r>>)) =
                {<<"nfDel", r>>, <<"unsetInstall", r>>, <<"ruleDel", r>>, <<"install", r>>}
           /\ Range(Append(qos_rule_uninstall(r), <<"forget", r>>)) =
                {<<"nfDel", r>>, <<"unsetInstall", r>>, <<"ruleDel", r>>, <<"forget", r>>}
           /\ Range(<<<<"forget", r>>>>) = {<<"forget", r>>}
           /\ Range(<<<<"newState", r>>>>) = {<<"newState", r>>}
<1>1. ASSUME NEW a, NEW b, NEW c PROVE Range(<<a, b, c>>) = {a, b, c}
  <2>1. DOMAIN <<a, b, c>> = {1, 2, 3}
    OBVIOUS
  <2>. QED  BY <2>1 DEF Range
<1>2. ASSUME NEW a, NEW b, NEW c, NEW d PROVE Range(<<a, b, c, d>>) = {a, b, c, d}
  <2>1. DOMAIN <<a, b, c, d>> = {1, 2, 3, 4}
    OBVIOUS
  <2>. QED  BY <2>1 DEF Range
<1>3. ASSUME NEW a PROVE Range(<<a>>) = {a}
  <2>1. DOMAIN <<a>> = {1}
    OBVIOUS
  <2>. QED  BY <2>1 DEF Range
<1>4. Append(qos_rule_install(r), <<"newState", r>>) =
        <<<<"ruleAdd", r>>, <<"nfAdd", r>>, <<"setInstall", r>>, <<"newState", r>>>>
  BY Append3 DEF qos_rule_install
<1>5. Append(qos_rule_uninstall(r), <<"install", r>>) =
        <<<<"nfDel", r>>, <<"unsetInstall", r>>, <<"ruleDel", r>>, <<"install", r>>>>
  BY Append3 DEF qos_rule_uninstall
<1>6. Append(qos_rule_uninstall(r), <<"forget", r>>) =
        <<<<"nfDel", r>>, <<"unsetInstall", r>>, <<"ruleDel", r>>, <<"forget", r>>>>
  BY Append3 DEF qos_rule_uninstall
<1>7. /\ Range(qos_rule_install(r)) = {<<"ruleAdd", r>>, <<"nfAdd", r>>, <<"setInstall", r>>}
      /\ Range(qos_rule_uninstall(r)) = {<<"nfDel", r>>, <<"unsetInstall", r>>, <<"ruleDel", r>>}
  BY <1>1 DEF qos_rule_install, qos_rule_uninstall
<1>8. /\ Range(<<<<"forget", r>>>>) = {<<"forget", r>>}
      /\ Range(<<<<"newState", r>>>>) = {<<"newState", r>>}
  BY <1>3
<1>9. Range(Append(qos_rule_install(r), <<"newState", r>>)) =
        {<<"ruleAdd", r>>, <<"nfAdd", r>>, <<"setInstall", r>>, <<"newState", r>>}
  <2>1. Range(<<<<"ruleAdd", r>>, <<"nfAdd", r>>, <<"setInstall", r>>, <<"newState", r>>>>) =
          {<<"ruleAdd", r>>, <<"nfAdd", r>>, <<"setInstall", r>>, <<"newState", r>>}
    BY <1>2
  <2>. QED  BY <1>4, <2>1
<1>10. Range(Append(qos_rule_uninstall(r), <<"install", r>>)) =
         {<<"nfDel", r>>, <<"unsetInstall", r>>, <<"ruleDel", r>>, <<"install", r>>}
  <2>1. Range(<<<<"nfDel", r>>, <<"unsetInstall", r>>, <<"ruleDel", r>>, <<"install", r>>>>) =
          {<<"nfDel", r>>, <<"unsetInstall", r>>, <<"ruleDel", r>>, <<"install", r>>}
    BY <1>2
  <2>. QED  BY <1>5, <2>1
<1>11. Range(Append(qos_rule_uninstall(r), <<"forget", r>>)) =
         {<<"nfDel", r>>, <<"unsetInstall", r>>, <<"ruleDel", r>>, <<"forget", r>>}
  <2>1. Range(<<<<"nfDel", r>>, <<"unsetInstall", r>>, <<"ruleDel", r>>, <<"forget", r>>>>) =
          {<<"nfDel", r>>, <<"unsetInstall", r>>, <<"ruleDel", r>>, <<"forget", r>>}
    BY <1>2
  <2>. QED  BY <1>6, <2>1
<1>. QED  BY <1>7, <1>8, <1>9, <1>10, <1>11

-----------------------------------------------------------------------------
(* One command.                                                            *)

\* What a command does to the files.
LEMMA StepFiles ==
    ASSUME Step
    PROVE  /\ At("setInstall") => state' = [state EXCEPT ![Rule].install = TRUE]
           /\ At("unsetInstall") => state' = [state EXCEPT ![Rule].install = FALSE]
           /\ At("newState") => state' = [state EXCEPT ![Rule].enable =
                                            IF @ = "twice" THEN @
                                            ELSE IF job.cfg[Rule].on THEN "on" ELSE "off"]
           /\ At("forget") => state' = [state EXCEPT ![Rule] = NoState]
           /\ At("genState") =>
                state' = [r \in RuleIds |-> [state[r] EXCEPT !.enable =
                            IF ~uci[r].exists THEN @
                            ELSE IF @ # "" THEN "twice"
                            ELSE IF uci[r].on THEN "on" ELSE "off"]]
           /\ At("clearState") => state' = [r \in RuleIds |-> NoState] /\ timeobj' = {}
           /\ ~(Current[1] \in {"setInstall", "unsetInstall", "newState", "forget",
                                "genState", "clearState"}) => state' = state
           /\ At("parse") => timeobj' = IF ByTime(Rule) /\ ~stopFlag
                                        THEN timeobj \union {Rule} ELSE timeobj
           /\ At("update") => timeobj' = IF Rule \notin Timed THEN timeobj
                                         ELSE IF ByTime(Rule) THEN timeobj \union {Rule}
                                         ELSE timeobj \ {Rule}
           /\ At("forget") => timeobj' = timeobj \ (Timed \intersect {Rule})
           /\ ~(Current[1] \in {"parse", "update", "forget", "clearState"}) => timeobj' = timeobj
           /\ IF At("unsetStop") THEN ~stopFlag' ELSE stopFlag' = stopFlag
           /\ At("setReady") => ready'
           /\ At("unsetReady") => ~ready'
           /\ ~(Current[1] \in {"setReady", "unsetReady"}) => ready' = ready
<1>. USE DEF At, files, outside
<1>1. CASE Parse
  BY <1>1 DEF Parse
<1>2. CASE RuleLoop
  BY <1>2 DEF RuleLoop
<1>3. CASE Reload
  BY <1>3 DEF Reload
<1>4. CASE RuleStep
  BY <1>4 DEF RuleStep
<1>5. CASE StartCommand
  BY <1>5 DEF StartCommand
<1>6. CASE StopCommand
  BY <1>6 DEF StopCommand
<1>7. CASE ResetCommand
  BY <1>7 DEF ResetCommand
<1>8. CASE Ifup
  BY <1>8 DEF Ifup
<1>. QED  BY <1>1, <1>2, <1>3, <1>4, <1>5, <1>6, <1>7, <1>8 DEF Step

\* The record of one rule.
LEMMA Record ==
    ASSUME ControlTypes, Shape, Step, NEW r \in RuleIds
    PROVE  /\ state[r].install \in BOOLEAN /\ state'[r].install \in BOOLEAN
           /\ At("setInstall") /\ Rule = r =>
                state'[r].install /\ state'[r].enable = state[r].enable
           /\ At("unsetInstall") /\ Rule = r =>
                ~state'[r].install /\ state'[r].enable = state[r].enable
           /\ At("newState") /\ Rule = r =>
                /\ state'[r].install = state[r].install
                /\ state[r].enable # "twice" =>
                      state'[r].enable = IF job.cfg[r].on THEN "on" ELSE "off"
           /\ At("forget") /\ Rule = r => ~state'[r].install /\ state'[r].enable = ""
           /\ At("clearState") => ~state'[r].install /\ state'[r].enable = ""
           /\ At("genState") =>
                /\ state'[r].install = state[r].install
                /\ state[r].enable = "" =>
                      state'[r].enable = IF ~uci[r].exists THEN ""
                                         ELSE IF uci[r].on THEN "on" ELSE "off"
           /\ At("genState") \/ At("clearState") \/ Rule = r \/ state'[r] = state[r]
           /\ ~(Current[1] \in {"setInstall", "unsetInstall", "newState", "forget",
                                "genState", "clearState"}) => state' = state
<1>1. state \in [RuleIds -> [enable : {"", "on", "off", "twice"}, install : BOOLEAN]]
  BY DEF ControlTypes
<1>2. /\ state[r] \in [enable : {"", "on", "off", "twice"}, install : BOOLEAN]
      /\ DOMAIN state = RuleIds
      /\ NoState.install = FALSE /\ NoState.enable = ""
      /\ ~Done
  BY <1>1, StepFlow DEF NoState
<1>3. ControlTypes'
  BY StepTypes
<1>4. state'[r].install \in BOOLEAN
  BY <1>3 DEF ControlTypes
<1>5. ASSUME At("setInstall")
      PROVE  IF Rule = r THEN state'[r].install = TRUE /\ state'[r].enable = state[r].enable
                         ELSE state'[r] = state[r]
  <2>1. state' = [state EXCEPT ![Rule] = [@ EXCEPT !.install = TRUE]]
    BY <1>5, StepFiles
  <2>2. state'[r] = IF Rule = r THEN [state[r] EXCEPT !.install = TRUE] ELSE state[r]
    BY <1>2, <2>1
  <2>. QED  BY <1>2, <2>2
<1>6. ASSUME At("unsetInstall")
      PROVE  IF Rule = r THEN state'[r].install = FALSE /\ state'[r].enable = state[r].enable
                         ELSE state'[r] = state[r]
  <2>1. state' = [state EXCEPT ![Rule] = [@ EXCEPT !.install = FALSE]]
    BY <1>6, StepFiles
  <2>2. state'[r] = IF Rule = r THEN [state[r] EXCEPT !.install = FALSE] ELSE state[r]
    BY <1>2, <2>1
  <2>. QED  BY <1>2, <2>2
<1>7. ASSUME At("newState")
      PROVE  IF Rule = r THEN /\ state'[r].install = state[r].install
                              /\ state[r].enable # "twice" =>
                                    state'[r].enable = IF job.cfg[r].on THEN "on" ELSE "off"
                         ELSE state'[r] = state[r]
  <2>. DEFINE e(q) == IF state[q].enable = "twice" THEN "twice"
                      ELSE IF job.cfg[q].on THEN "on" ELSE "off"
  <2>1. state' = [state EXCEPT ![Rule].enable = e(Rule)]
    BY <1>7, StepFiles
  <2>2. state'[r] = IF Rule = r THEN [state[r] EXCEPT !.enable = e(r)] ELSE state[r]
    BY <1>2, <2>1
  <2>. QED  BY <1>2, <2>2
<1>8. ASSUME At("forget")
      PROVE  IF Rule = r THEN state'[r] = NoState ELSE state'[r] = state[r]
  BY <1>2, <1>8, StepFiles
<1>9. ASSUME At("clearState") PROVE state'[r] = NoState
  BY <1>9, StepFiles
<1>10. ASSUME At("genState")
       PROVE  /\ state'[r].install = state[r].install
              /\ state[r].enable = "" =>
                    state'[r].enable = IF ~uci[r].exists THEN ""
                                       ELSE IF uci[r].on THEN "on" ELSE "off"
  <2>1. state'[r] = [state[r] EXCEPT !.enable =
                        IF ~uci[r].exists THEN @
                        ELSE IF @ # "" THEN "twice"
                        ELSE IF uci[r].on THEN "on" ELSE "off"]
    BY <1>10, StepFiles
  <2>. QED  BY <1>2, <2>1
<1>11. ~(Current[1] \in {"setInstall", "unsetInstall", "newState", "forget",
                         "genState", "clearState"}) => state' = state
  BY StepFiles
<1>12. At("genState") \/ At("clearState") \/ Rule = r \/ state'[r] = state[r]
  BY <1>2, <1>5, <1>6, <1>7, <1>8, <1>11 DEF At
<1>. QED  BY <1>2, <1>4, <1>5, <1>6, <1>7, <1>8, <1>9, <1>10, <1>11, <1>12

\* Where a turn of a loop leads.
LEMMA TurnMoves ==
    ASSUME Step
    PROVE  /\ At("parse") => \/ Break
                             \/ Proceed
                             \/ /\ Enter(qos_rule_install(Rule))
                                /\ ~stopFlag /\ job.cfg[Rule].on
           /\ At("activate") => \/ Break
                                \/ Proceed
                                \/ /\ Enter(qos_rule_install(Rule))
                                   /\ ~stopFlag /\ uci[Rule].exists
           /\ At("expire") => \/ Break
                              \/ Proceed
                              \/ /\ Enter(qos_rule_uninstall(Rule))
                                 /\ state[Rule].install
           /\ At("regroup") => \/ Break /\ stopFlag
                               \/ Proceed
                               \/ /\ Enter(Append(qos_rule_uninstall(Rule), <<"install", Rule>>))
                                  /\ state[Rule].install
           /\ At("install") => \/ Proceed
                               \/ Load(qos_rule_install(Rule), todo, last)
           /\ At("uninstall") => \/ Proceed /\ ~state[Rule].install
                                 \/ /\ Enter(qos_rule_uninstall(Rule))
                                    /\ state[Rule].install
           /\ At("delete") => \/ Break /\ stopFlag
                              \/ /\ Enter(Append(qos_rule_uninstall(Rule), <<"forget", Rule>>))
                                 /\ state[Rule].install
                              \/ /\ Enter(<<<<"forget", Rule>>>>)
                                 /\ ~stopFlag /\ ~(state[Rule].install /\ state[Rule].enable = "on")
           /\ At("update") => \/ Enter(<<<<"newState", Rule>>>>)
                              \/ /\ Enter(Append(qos_rule_install(Rule), <<"newState", Rule>>))
                                 /\ job.cfg[Rule].on
           /\ At("checkEnable") \/ At("checkRoot") => Proceed \/ Finish
           /\ ~(Current[1] \in {"parse", "activate", "expire", "regroup", "install", "uninstall",
                                "delete", "update", "checkEnable", "checkRoot"}) => Proceed
<1>. USE DEF At
<1>1. CASE Parse
  BY <1>1 DEF Parse
<1>2. CASE RuleLoop
  BY <1>2 DEF RuleLoop
<1>3. CASE Reload
  BY <1>3 DEF Reload
<1>4. CASE RuleStep
  BY <1>4 DEF RuleStep
<1>5. CASE StartCommand \/ StopCommand \/ ResetCommand \/ Ifup
  BY <1>5 DEF StartCommand, StopCommand, ResetCommand, Ifup
<1>. QED  BY <1>1, <1>2, <1>3, <1>4, <1>5 DEF Step

\* The command behind the one in hand.
LEMMA Behind ==
    ASSUME Shape, now # <<>>
    PROVE  /\ Range(now) = {Current} \union Range(Tail(now))
           /\ Tail(now) # <<>> =>
                /\ <<Current[1], Head(Tail(now))[1]>> \in PreludeFlow \union CheckFlow \union RuleFlow
                /\ Head(Tail(now))[1] # "end"
                /\ Head(Tail(now))[2] = Rule
<1>1. PICK flow \in {PreludeFlow, CheckFlow, RuleFlow}, rules \in {{0}, RuleIds} :
          Chain(now, flow, rules)
  BY DEF Shape, NowShape
<1>2. now \in Seq(Names \X rules) /\ Current = Head(now)
  BY <1>1 DEF Chain, Current
<1>3. /\ Chain(Tail(now), flow, rules)
      /\ Tail(now) # <<>> => /\ <<Head(now)[1], Head(Tail(now))[1]>> \in flow
                             /\ Head(Tail(now))[2] = Head(now)[2]
  BY <1>1, ChainTail
<1>4. Tail(now) # <<>> => Head(Tail(now))[1] \in Names
  BY <1>3, ChainTail
<1>5. "end" \notin Names
  BY DEF Names
<1>6. Range(now) = {Current} \union Range(Tail(now))
  BY <1>2, RangeTail
<1>8. Tail(now) # <<>> =>
        /\ <<Current[1], Head(Tail(now))[1]>> \in PreludeFlow \union CheckFlow \union RuleFlow
        /\ Head(Tail(now))[1] # "end"
        /\ Head(Tail(now))[2] = Rule
  BY <1>2, <1>3, <1>4, <1>5 DEF Rule
<1>. QED  BY <1>6, <1>8

\* The loop is left early; the handler ends early.
Breaking ==
    /\ Break
    /\ Current[1] \in {"parse", "activate", "expire"} \/ (Current[1] \in {"regroup", "delete"} /\ stopFlag)
Quitting == Finish /\ Current[1] \in {"checkEnable", "checkRoot"}

\* What a turn of a loop puts in hand.
LEMMA Entering ==
    ASSUME Shape, Step, ~Proceed, ~Breaking, ~Quitting
    PROVE  /\ Current[1] \in {"parse", "activate", "expire", "regroup", "install", "uninstall",
                              "delete", "update"}
           /\ Current[1] # "install" => now = <<>> /\ todo # <<>> /\ Range(now) = {}
           /\ now' # <<>> /\ Rule' = Rule
           /\ \A x \in Range(now') :
                /\ x = <<x[1], Rule>>
                /\ x[1] = "install" => At("regroup")
                /\ x[1] = "newState" => At("update")
                /\ x[1] = "forget" => At("delete")
                /\ x[1] # "genState"
           /\ At("update") => <<"newState", Rule>> \in Range(now')
           /\ At("delete") => <<"forget", Rule>> \in Range(now')
           /\ At("ruleAdd")' \/ At("nfDel")' \/ At("newState")' \/ At("forget")'
           /\ At("ruleAdd")' => \/ At("parse") /\ ~stopFlag /\ job.cfg[Rule].on
                                \/ At("activate") /\ uci[Rule].exists
                                \/ At("update") /\ job.cfg[Rule].on
                                \/ At("install")
           /\ At("nfDel")' => /\ state[Rule].install
                              /\ Current[1] \in {"expire", "regroup", "uninstall", "delete"}
           /\ At("newState")' => At("update")
           /\ At("forget")' => /\ At("delete") /\ ~stopFlag
                               /\ ~(state[Rule].install /\ state[Rule].enable = "on")
<1>1. ~Done /\ UNCHANGED job
  BY StepFlow DEF Step
<1>2. Current[1] \in {"parse", "activate", "expire", "regroup", "install", "uninstall",
                      "delete", "update"}
  BY <1>1, TurnMoves DEF At, Breaking, Quitting
<1>3. Rule \in RuleIds
  BY <1>1, <1>2, AtRule DEF RuleNames, LoopNames
<1>4. CASE At("install")
  <2>1. Load(qos_rule_install(Rule), todo, last)
    BY <1>4, TurnMoves
  <2>2. At("ruleAdd")' /\ Rule' = Rule
    BY <1>1, <1>4, <2>1, ReinstallFlow
  <2>3. Range(now') = {<<"ruleAdd", Rule>>, <<"nfAdd", Rule>>, <<"setInstall", Rule>>}
    BY <2>1, RuleRanges DEF Load
  <2>4. now' # <<>>
    BY <2>3, RangeEmpty
  <2>. QED  BY <1>2, <1>4, <2>2, <2>3, <2>4 DEF At
<1>5. CASE ~At("install")
  <2>1. now = <<>> /\ todo # <<>> /\ Range(now) = {}
    BY <1>1, <1>2, <1>5, AtLoop, RangeEmpty DEF At, LoopNames
  <2>2. \A cmds : Enter(cmds) => now' = cmds
    BY DEF Enter, Load
  <2>3. Current[1] \in LoopNames \ {"newState"}
    BY <1>1, <1>2, <1>5 DEF At, LoopNames
  <2>4. Enter(qos_rule_install(Rule)) =>
         /\ now' # <<>> /\ At("ruleAdd")' /\ Rule' = Rule
         /\ Range(now') = {<<"ruleAdd", Rule>>, <<"nfAdd", Rule>>, <<"setInstall", Rule>>}
    <3>1. Enter(qos_rule_install(Rule)) => At("ruleAdd")' /\ Rule' = Rule
      BY <1>1, <2>3, TurnFlow
    <3>2. Range(qos_rule_install(Rule)) = {<<"ruleAdd", Rule>>, <<"nfAdd", Rule>>, <<"setInstall", Rule>>}
      BY RuleRanges
    <3>. QED  BY <2>2, <3>1, <3>2, RangeEmpty
  <2>5. Enter(Append(qos_rule_install(Rule), <<"newState", Rule>>)) =>
         /\ now' # <<>> /\ At("ruleAdd")' /\ Rule' = Rule
         /\ Range(now') = {<<"ruleAdd", Rule>>, <<"nfAdd", Rule>>, <<"setInstall", Rule>>, <<"newState", Rule>>}
    <3>1. Enter(Append(qos_rule_install(Rule), <<"newState", Rule>>)) => At("ruleAdd")' /\ Rule' = Rule
      BY <1>1, <2>3, TurnFlow
    <3>2. Range(Append(qos_rule_install(Rule), <<"newState", Rule>>)) = {<<"ruleAdd", Rule>>, <<"nfAdd", Rule>>, <<"setInstall", Rule>>, <<"newState", Rule>>}
      BY RuleRanges
    <3>. QED  BY <2>2, <3>1, <3>2, RangeEmpty
  <2>6. Enter(qos_rule_uninstall(Rule)) =>
         /\ now' # <<>> /\ At("nfDel")' /\ Rule' = Rule
         /\ Range(now') = {<<"nfDel", Rule>>, <<"unsetInstall", Rule>>, <<"ruleDel", Rule>>}
    <3>1. Enter(qos_rule_uninstall(Rule)) => At("nfDel")' /\ Rule' = Rule
      BY <1>1, <2>3, TurnFlow
    <3>2. Range(qos_rule_uninstall(Rule)) = {<<"nfDel", Rule>>, <<"unsetInstall", Rule>>, <<"ruleDel", Rule>>}
      BY RuleRanges
    <3>. QED  BY <2>2, <3>1, <3>2, RangeEmpty
  <2>7. Enter(Append(qos_rule_uninstall(Rule), <<"install", Rule>>)) =>
         /\ now' # <<>> /\ At("nfDel")' /\ Rule' = Rule
         /\ Range(now') = {<<"nfDel", Rule>>, <<"unsetInstall", Rule>>, <<"ruleDel", Rule>>, <<"install", Rule>>}
    <3>1. Enter(Append(qos_rule_uninstall(Rule), <<"install", Rule>>)) => At("nfDel")' /\ Rule' = Rule
      BY <1>1, <2>3, TurnFlow
    <3>2. Range(Append(qos_rule_uninstall(Rule), <<"install", Rule>>)) = {<<"nfDel", Rule>>, <<"unsetInstall", Rule>>, <<"ruleDel", Rule>>, <<"install", Rule>>}
      BY RuleRanges
    <3>. QED  BY <2>2, <3>1, <3>2, RangeEmpty
  <2>8. Enter(Append(qos_rule_uninstall(Rule), <<"forget", Rule>>)) =>
         /\ now' # <<>> /\ At("nfDel")' /\ Rule' = Rule
         /\ Range(now') = {<<"nfDel", Rule>>, <<"unsetInstall", Rule>>, <<"ruleDel", Rule>>, <<"forget", Rule>>}
    <3>1. Enter(Append(qos_rule_uninstall(Rule), <<"forget", Rule>>)) => At("nfDel")' /\ Rule' = Rule
      BY <1>1, <2>3, TurnFlow
    <3>2. Range(Append(qos_rule_uninstall(Rule), <<"forget", Rule>>)) = {<<"nfDel", Rule>>, <<"unsetInstall", Rule>>, <<"ruleDel", Rule>>, <<"forget", Rule>>}
      BY RuleRanges
    <3>. QED  BY <2>2, <3>1, <3>2, RangeEmpty
  <2>9. Enter(<<<<"forget", Rule>>>>) =>
         /\ now' # <<>> /\ At("forget")' /\ Rule' = Rule
         /\ Range(now') = {<<"forget", Rule>>}
    <3>1. Enter(<<<<"forget", Rule>>>>) => At("forget")' /\ Rule' = Rule
      BY <1>1, <2>3, TurnFlow
    <3>2. Range(<<<<"forget", Rule>>>>) = {<<"forget", Rule>>}
      BY RuleRanges
    <3>. QED  BY <2>2, <3>1, <3>2, RangeEmpty
  <2>10. Enter(<<<<"newState", Rule>>>>) =>
         /\ now' # <<>> /\ At("newState")' /\ Rule' = Rule
         /\ Range(now') = {<<"newState", Rule>>}
    <3>1. Enter(<<<<"newState", Rule>>>>) => At("newState")' /\ Rule' = Rule
      BY <1>1, <2>3, TurnFlow
    <3>2. Range(<<<<"newState", Rule>>>>) = {<<"newState", Rule>>}
      BY RuleRanges
    <3>. QED  BY <2>2, <3>1, <3>2, RangeEmpty
  <2>11. CASE At("parse")
    BY <2>1, <2>11, <2>4, TurnMoves DEF At, Breaking, Quitting
  <2>12. CASE At("activate")
    BY <2>1, <2>12, <2>4, TurnMoves DEF At, Breaking, Quitting
  <2>13. CASE At("expire")
    BY <2>1, <2>13, <2>6, TurnMoves DEF At, Breaking, Quitting
  <2>14. CASE At("regroup")
    BY <2>1, <2>14, <2>7, TurnMoves DEF At, Breaking, Quitting
  <2>15. CASE At("uninstall")
    BY <2>1, <2>15, <2>6, TurnMoves DEF At, Breaking, Quitting
  <2>16. CASE At("delete")
    BY <2>1, <2>16, <2>8, <2>9, TurnMoves DEF At, Breaking, Quitting
  <2>17. CASE At("update")
    BY <2>1, <2>17, <2>5, <2>10, TurnMoves DEF At, Breaking, Quitting
  <2>. QED  BY <1>1, <1>2, <1>5, <2>11, <2>12, <2>13, <2>14, <2>15, <2>16, <2>17 DEF At
<1>. QED  BY <1>4, <1>5

\* A loop that is left early has no turn that another loop of the handler
\* would need.
LEMMA Early ==
    ASSUME Shape, Loops, Step, Breaking \/ Quitting
    PROVE  /\ \A x \in Range(todo) :
                /\ x[1] \notin {"newState", "uninstall", "update"}
                /\ x[1] = "delete" => stopFlag
           /\ \A x \in Range(now) : x[1] \notin {"newState", "forget"}
           /\ Range(now') \subseteq Range(now)
           /\ Range(now) = Range(now') \/ Done'
<1>0. ~Done
  BY StepFlow
<1>1. CASE Breaking
  <2>1. now = <<>> /\ todo # <<>> /\ now' = now /\ Range(now) = {}
    BY <1>0, <1>1, AtLoop, RangeEmpty DEF Breaking, Break, Load, LoopNames
  <2>. QED  BY <1>0, <1>1, <2>1, Kind DEF Breaking, At
<1>2. CASE Quitting
  <2>1. job.op \in {"start", "ifup"} /\ now # <<>>
    BY <1>0, <1>2, Place DEF Quitting, InPlace, RuleNames, LoopNames, StopNames, ResetNames
  <2>2. now' = <<>> /\ Done'
    BY <1>2, FinishFlow DEF Quitting, Finish, Load
  <2>3. \A x \in Range(todo) : x[1] = "parse"
    BY <2>1, LoopJob DEF LoopOps
  <2>4. \A x \in Range(now) : x[1] \notin {"newState", "forget"}
    BY <2>1 DEF Loops
  <2>. QED  BY <2>2, <2>3, <2>4, RangeEmpty
<1>. QED  BY <1>1, <1>2

\* What is left to do after a command.
LEMMA Left ==
    ASSUME Shape, Loops, Step
    PROVE  /\ \A x \in Range(todo) :
                x[1] \in {"newState", "uninstall", "update"} => x \in Range(todo') \/ x = Current
           /\ \A x \in Range(todo) :
                x[1] = "delete" => x \in Range(todo') \/ x = Current \/ stopFlag
           /\ \A x \in Range(now) :
                x[1] \in {"newState", "forget"} => x \in Range(now') \/ x = Current
           /\ \A x \in Range(now) :
                x[1] = "genState" => x \in Range(now') \/ x = Current \/ Done'
           /\ \A x \in Range(now') :
                \/ x \in Range(now)
                \/ /\ x = <<x[1], Rule>>
                   /\ x[1] = "install" => At("regroup")
                   /\ x[1] = "newState" => At("update")
                   /\ x[1] = "forget" => At("delete")
                   /\ x[1] # "genState"
<1>1. CASE Proceed
  <2>1. Break \/ Finish => Range(todo) \subseteq Range(todo') \union {Current}
    <3>1. CASE now = <<>> /\ todo # <<>>
      <4>1. Range(todo) = {Head(todo)} \union Range(Tail(todo)) /\ todo' = Tail(todo)
        BY <1>1, <3>1, RangeTail DEF Proceed, Load, Shape
      <4>. QED  BY <3>1, <4>1 DEF Current
    <3>2. CASE now # <<>>
      BY <1>1, <3>2 DEF Proceed, Load
    <3>3. CASE now = <<>> /\ todo = <<>>
      BY <3>3, RangeEmpty
    <3>. QED  BY <3>1, <3>2, <3>3
  <2>2. Range(todo) \subseteq Range(todo') \union {Current}
    BY <2>1, Walk
  <2>. QED  BY <1>1, <2>2, Walk
<1>2. CASE Breaking \/ Quitting
  BY <1>2, Early
<1>3. CASE ~Proceed /\ ~Breaking /\ ~Quitting
  <2>1. Range(todo) \subseteq Range(todo') \union {Current}
    <3>1. CASE At("install")
      <4>1. Load(qos_rule_install(Rule), todo, last)
        BY <1>3, <3>1, TurnMoves
      <4>. QED  BY <4>1 DEF Load
    <3>2. CASE ~At("install")
      <4>1. now = <<>> /\ todo # <<>> /\ ~Done /\ now' # <<>>
        BY <1>3, <3>2, Entering, StepFlow DEF At
      <4>2. ~Break /\ ~Finish
        BY <4>1 DEF Break, Finish, Load
      <4>. QED  BY <4>2, Walk
    <3>. QED  BY <3>1, <3>2
  <2>2. \A x \in Range(now) : x[1] \notin {"newState", "forget", "genState"}
    <3>1. CASE At("install")
      <4>1. job.op = "ipgroup"
        <5>1. now # <<>> /\ ~Done
          BY <3>1, Place, StepFlow
             DEF At, InPlace, RuleNames, LoopNames, StopNames, ResetNames
        <5>2. Current \in Range(now)
          BY <5>1, Behind
        <5>. QED  BY <3>1, <5>2 DEF At, Loops
      <4>. QED  BY <4>1, NowNames DEF Loops, RuleNames
    <3>2. CASE ~At("install")
      BY <1>3, <3>2, Entering, StepFlow DEF At
    <3>. QED  BY <3>1, <3>2
  <2>. QED  BY <1>3, <2>1, <2>2, Entering
<1>. QED  BY <1>1, <1>2, <1>3

\* Where the commands on a rule come from.
LEMMA Origins ==
    ASSUME Shape, Loops, Step
    PROVE  /\ At("ruleAdd")' =>
                /\ Rule' = Rule
                /\ \/ At("parse") /\ ~stopFlag /\ job.cfg[Rule].on
                   \/ At("activate") /\ uci[Rule].exists
                   \/ At("update") /\ job.cfg[Rule].on
                   \/ At("install")
           /\ At("nfDel")' => /\ Rule' = Rule /\ state[Rule].install
                              /\ Current[1] \in {"expire", "regroup", "uninstall", "delete"}
           /\ At("forget")' =>
                /\ Rule' = Rule
                /\ \/ At("ruleDel")
                   \/ At("delete") /\ ~stopFlag /\ ~(state[Rule].install /\ state[Rule].enable = "on")
           /\ At("newState")' /\ now' # <<>> =>
                Rule' = Rule /\ (At("setInstall") \/ At("update"))
           /\ At("setInstall") /\ <<"newState", Rule>> \in Range(now) =>
                At("newState")' /\ Rule' = Rule
<1>0. ~Done /\ UNCHANGED job
  BY StepFlow DEF Step
<1>1. CASE Proceed
  <2>1. InPlace
    BY <1>0, Place
  <2>2. Turn' => ~Done' /\ Current'[1] \in LoopNames \union {"resetBegin"}
    BY DEF Turn
  <2>3. ~At("ruleAdd")' /\ ~At("nfDel")'
    BY <1>0, <1>1, <2>1, <2>2, After
       DEF InPlace, At, LoopNames, RuleNames, ResetNames, StopNames
  <2>4. At("forget")' => At("ruleDel") /\ Rule' = Rule
    BY <1>0, <1>1, <2>1, <2>2, After
       DEF InPlace, At, LoopNames, RuleNames, ResetNames, StopNames
  <2>5. CASE now # <<>>
    <3>1. now' = Tail(now) /\ (now' # <<>> => Current' = Head(now'))
      BY <1>1, <2>5 DEF Proceed, Load, Current
    <3>2. now' # <<>> =>
            /\ <<Current[1], Current'[1]>> \in PreludeFlow \union CheckFlow \union RuleFlow
            /\ Current'[1] # "end"
            /\ Rule' = Rule /\ ~Done'
      BY <2>5, <3>1, Behind DEF Rule, Done
    <3>3. now' # <<>> /\ Current'[1] = "newState" => Current[1] = "setInstall"
      BY <3>2 DEF PreludeFlow, CheckFlow, RuleFlow
    <3>4. now' # <<>> /\ Current[1] = "setInstall" => Current'[1] = "newState"
      BY <3>2 DEF PreludeFlow, CheckFlow, RuleFlow
    <3>5. <<"newState", Rule>> \in Range(now) /\ At("setInstall") => now' # <<>>
      <4>1. Range(now) = {Current} \union Range(Tail(now))
        BY <2>5, Behind
      <4>2. ASSUME At("setInstall"), Tail(now) = <<>>, <<"newState", Rule>> \in Range(now)
            PROVE  FALSE
        <5>1. <<"newState", Rule>> = Current
          BY <4>1, <4>2, RangeEmpty
        <5>2. Current[1] = "newState"
          BY <5>1
        <5>. QED  BY <4>2, <5>2 DEF At
      <4>. QED  BY <3>1, <4>2
    <3>6. At("newState")' /\ now' # <<>> => Rule' = Rule /\ At("setInstall")
      BY <1>0, <3>2, <3>3 DEF At
    <3>7. At("setInstall") /\ <<"newState", Rule>> \in Range(now) => At("newState")' /\ Rule' = Rule
      BY <3>2, <3>4, <3>5 DEF At
    <3>. QED  BY <2>3, <2>4, <3>6, <3>7
  <2>6. CASE now = <<>>
    <3>1. now' = <<>> /\ Range(now) = {}
      BY <1>1, <2>6, Walk, RangeEmpty
    <3>. QED  BY <2>3, <2>4, <3>1
  <2>. QED  BY <2>5, <2>6
<1>2. CASE Breaking \/ Quitting
  <2>1. ~At("setInstall")
    BY <1>2 DEF Breaking, Quitting, At
  <2>2. CASE Breaking
    <3>1. now = <<>> /\ todo # <<>>
      BY <1>0, <2>2, AtLoop DEF Breaking, LoopNames
    <3>2. At("resetBegin")' /\ now' = <<>>
      BY <1>0, <2>2, <3>1, BreakFlow DEF Breaking, Break, Load
    <3>. QED  BY <2>1, <3>2 DEF At
  <2>3. CASE Quitting
    BY <2>1, <2>3, FinishFlow DEF Quitting, At
  <2>. QED  BY <1>2, <2>2, <2>3
<1>3. CASE ~Proceed /\ ~Breaking /\ ~Quitting
  <2>1. ~At("setInstall")
    BY <1>3, Entering DEF At
  <2>. QED  BY <1>3, <2>1, Entering
<1>. QED  BY <1>1, <1>2, <1>3

\* The rule the handler is to uninstall, and the turns that go on at once.
LEMMA Uninstalls ==
    ASSUME Shape, Step
    PROVE  /\ At("uninstall") /\ state[Rule].install => At("nfDel")' /\ Rule' = Rule
           /\ At("delete") /\ ~stopFlag /\ state[Rule].install /\ state[Rule].enable = "on"
                => At("nfDel")' /\ Rule' = Rule
           /\ At("update") => <<"newState", Rule>> \in Range(now')
           /\ At("delete") => <<"forget", Rule>> \in Range(now') \/ stopFlag
<1>0. ~Done /\ UNCHANGED job
  BY StepFlow DEF Step
<1>1. CASE At("uninstall")
  <2>1. Current[1] \in LoopNames \ {"newState"}
    BY <1>1 DEF At, LoopNames
  <2>. QED  BY <1>0, <1>1, <2>1, TurnMoves, TurnFlow DEF At
<1>2. CASE At("delete")
  <2>1. Current[1] \in LoopNames \ {"newState"}
    BY <1>2 DEF At, LoopNames
  <2>2. \A cmds : Enter(cmds) => now' = cmds
    BY DEF Enter, Load
  <2>. QED  BY <1>0, <1>2, <2>1, <2>2, TurnMoves, TurnFlow, RuleRanges DEF At
<1>3. CASE At("update")
  <2>2. \A cmds : Enter(cmds) => now' = cmds
    BY DEF Enter, Load
  <2>. QED  BY <1>3, <2>2, TurnMoves, RuleRanges DEF At
<1>. QED  BY <1>1, <1>2, <1>3 DEF At

-----------------------------------------------------------------------------
(* The invariant over one command.                                         *)

LEMMA FlagStep ==
    ASSUME Shape, RInv, Fresh, OneReload, StopAsked, Step
    PROVE  Fresh' /\ OneReload' /\ StopAsked'
<1>1. UNCHANGED <<uci, waiting, job>> /\ ~Done
  BY StepFlow DEF Step
<1>2. Free' = Free
  BY <1>1 DEF Free
<1>3. Fresh'
  BY <1>1, <1>2 DEF Fresh
<1>4. OneReload'
  BY <1>1 DEF OneReload
<1>5. ASSUME stopFlag', job.op = "stop" PROVE ~Done'
  <2>1. stopFlag /\ ~At("unsetStop")
    BY <1>5, StepFiles DEF ControlTypes
  <2>2. now = <<>> /\ todo = <<>> /\ Current[1] \in StopNames
    BY <1>1, <1>5, Place DEF InPlace, LoopOps
  <2>3. Proceed
    BY <2>2, TurnMoves DEF StopNames
  <2>. QED  BY <1>1, <1>5, <2>1, <2>2, <2>3, After DEF At, StopNames
<1>6. stopFlag' => stopFlag
  BY StepFiles
<1>7. StopAsked'
  BY <1>1, <1>5, <1>6 DEF StopAsked
<1>. QED  BY <1>3, <1>4, <1>7

LEMMA LoopsStep ==
    ASSUME Shape, Loops, Step
    PROVE  Loops'
<1>1. UNCHANGED job /\ ~Done
  BY StepFlow DEF Step
<1>2. todo' # <<>> => \E k \in Kinds : job'.op = k[1] /\ Sorted(todo', k[2], k[3])
  BY <1>1, Walk DEF Loops
<1>3. At("regroup") => now = <<>> /\ todo # <<>> /\ job.op = "ipgroup"
  BY <1>1, AtLoop, Kind DEF At, LoopNames
<1>4. At("delete") => now = <<>> /\ todo # <<>> /\ job.op = "reload"
  BY <1>1, AtLoop, Kind DEF At, LoopNames
<1>5. At("update") => /\ now = <<>> /\ todo # <<>> /\ job.op = "reload"
                      /\ \A x \in Range(todo) : x[1] # "uninstall"
  BY <1>1, AtLoop, Kind DEF At, LoopNames
<1>6. Range(todo') \subseteq Range(todo)
  BY Walk
<1>7. ASSUME NEW x \in Range(now')
      PROVE  /\ x[1] = "install" => job.op = "ipgroup"
             /\ x[1] = "forget" => job.op = "reload"
             /\ x[1] = "newState" => /\ job.op = "reload"
                                     /\ \A y \in Range(todo') : y[1] # "uninstall"
  <2>1. CASE x \in Range(now)
    BY <1>6, <2>1 DEF Loops
  <2>2. CASE x \notin Range(now)
    <3>1. /\ x[1] = "install" => At("regroup")
          /\ x[1] = "newState" => At("update")
          /\ x[1] = "forget" => At("delete")
      BY <2>2, Left
    <3>. QED  BY <1>3, <1>4, <1>5, <1>6, <3>1
  <2>. QED  BY <2>1, <2>2
<1>. QED  BY <1>1, <1>2, <1>7 DEF Loops

LEMMA BlankedStep ==
    ASSUME ControlTypes, Shape, RInv, OneStart, Blanked, Step
    PROVE  Blanked'
<1>1. UNCHANGED <<job, killed>> /\ ~Done /\ InPlace
  BY StepFlow, Place DEF Step
<1>2. CASE job.op = "stop"
  <2>1. Current[1] \in StopNames /\ now = <<>> /\ todo = <<>>
    BY <1>1, <1>2 DEF InPlace, LoopOps
  <2>2. Proceed
    BY <2>1, TurnMoves DEF StopNames
  <2>3. CASE At("unsetReady")
    <3>1. At("clearState")'
      BY <1>1, <2>2, <2>3, After
    <3>. QED  BY <1>1, <1>2, <3>1 DEF Blanked, AtRest, At
  <2>4. CASE At("clearState")
    BY <1>1, <2>4, StepFiles DEF Blanked, Blank
  <2>5. CASE ~At("unsetReady") /\ ~At("clearState")
    <3>1. Blank
      BY <1>2, <2>5 DEF Blanked
    <3>2. UNCHANGED <<state, timeobj>>
      <4>1. ~(Current[1] \in {"setInstall", "unsetInstall", "newState", "forget", "genState",
                              "clearState", "parse", "update"})
        BY <1>1, <2>1, <2>5 DEF StopNames, At
      <4>. QED  BY <4>1, StepFiles
    <3>3. Blank'
      BY <3>1, <3>2 DEF Blank
    <3>. QED  BY <3>3 DEF Blanked
  <2>. QED  BY <2>3, <2>4, <2>5
<1>3. CASE job.op \in {"reload", "time", "ipgroup"}
  <2>1. ready /\ ~(Current[1] \in {"setReady", "unsetReady"})
    BY <1>1, <1>3 DEF RInv, Serving, InPlace, LoopNames, RuleNames, ResetNames
  <2>2. ready'
    BY <2>1, StepFiles
  <2>. QED  BY <1>1, <1>3, <2>2 DEF Blanked
<1>4. CASE job.op = "ifup"
  <2>1. Current[1] \in ResetNames \union {"checkRoot"}
    BY <1>1, <1>4 DEF InPlace, LoopOps
  <2>2. UNCHANGED <<state, timeobj, ready>>
    BY <2>1, StepFiles DEF ResetNames
  <2>. QED  BY <1>1, <1>4, <2>2 DEF Blanked, Blank
<1>5. CASE job.op = "start"
  <2>1. ASSUME ~ready', AtRest' \/ At("genState")' PROVE Blank'
    <3>1. CASE Quitting
      <4>1. UNCHANGED <<state, timeobj, ready>> /\ AtRest
        BY <1>1, <1>5, <3>1, StepFiles DEF Quitting, AtRest, At
      <4>. QED  BY <2>1, <4>1 DEF Blanked, Blank
    <3>2. CASE Proceed /\ ~Quitting
      <4>1. At("setSpec") \/ At("checkEnable")
        <5>1. Turn' => ~AtRest' /\ ~At("genState")'
          BY DEF Turn, AtRest, At, LoopNames
        <5>2. ~At("setReady")
          BY <2>1, StepFiles
        <5>3. Current[1] \in {"setSpec", "checkEnable", "genState"} \union RuleNames
                  \union LoopNames \union ResetNames
          BY <1>1, <1>5, <5>2 DEF InPlace, At
        <5>4. CASE Current[1] \in RuleNames \union LoopNames \union {"genState"}
          <6>1. Turn' \/ (~Done' /\ Current'[1] \in RuleNames)
            BY <1>1, <3>2, <5>4, After DEF At, RuleNames, LoopNames
          <6>. QED  BY <2>1, <5>1, <6>1 DEF AtRest, At, RuleNames
        <5>5. CASE Current[1] \in ResetNames
          <6>1. Current'[1] \in ResetNames \union {"setReady"} /\ ~Done'
            BY <1>1, <1>5, <3>2, <5>5, After DEF At, ResetNames
          <6>. QED  BY <2>1, <6>1 DEF AtRest, At, ResetNames
        <5>. QED  BY <1>1, <5>3, <5>4, <5>5 DEF At
      <4>2. UNCHANGED <<state, timeobj, ready>> /\ AtRest
        BY <4>1, StepFiles DEF AtRest, At
      <4>. QED  BY <2>1, <4>2 DEF Blanked, Blank
    <3>3. CASE ~Proceed /\ ~Quitting
      <4>1. ~Done' /\ Current'[1] \in {"ruleAdd", "nfDel", "forget", "newState", "resetBegin"}
        <5>1. CASE Breaking
          <6>1. now = <<>> /\ todo # <<>>
            BY <1>1, <5>1, AtLoop DEF Breaking, LoopNames
          <6>. QED  BY <1>1, <5>1, <6>1, BreakFlow DEF Breaking, At
        <5>2. CASE ~Breaking
          BY <3>3, <5>2, Entering DEF At
        <5>. QED  BY <5>1, <5>2
      <4>. QED  BY <2>1, <4>1 DEF AtRest, At
    <3>. QED  BY <3>1, <3>2, <3>3
  <2>. QED  BY <1>1, <1>5, <2>1 DEF Blanked
<1>6. job.op \in Ops
  BY <1>1 DEF Shape
<1>. QED  BY <1>2, <1>3, <1>4, <1>5, <1>6 DEF Ops

LEMMA AsksStep ==
    ASSUME Shape, Loops, Asks, Step
    PROVE  Asks'
<1>1. UNCHANGED <<uci, waiting, job>> /\ ~Done
  BY StepFlow DEF Step
<1>2. \A arg, r : Waits(arg, r)' <=> Waits(arg, r)
  BY <1>1 DEF Waits
<1>3. Range(todo') \subseteq Range(todo)
  BY Walk
<1>4. ASSUME NEW r \in RuleIds, <<"forget", r>> \in Range(now') PROVE ~uci[r].exists
  <2>1. CASE <<"forget", r>> \in Range(now)
    BY <2>1 DEF Asks
  <2>2. CASE <<"forget", r>> \notin Range(now)
    <3>1. At("delete") /\ <<"forget", r>> = <<"forget", Rule>>
      <4>1. \A x \in Range(now') : x \notin Range(now) =>
               x = <<x[1], Rule>> /\ (x[1] = "forget" => At("delete"))
        BY Left
      <4>. QED  BY <1>4, <2>2, <4>1
    <3>2. Current = <<"delete", r>>
      BY <1>1, <3>1, CurrentPair DEF At, LoopNames
    <3>3. Current \in Range(todo)
      BY <1>1, <3>1, AtLoop, Walk DEF At, LoopNames
    <3>. QED  BY <3>2, <3>3 DEF Asks
  <2>. QED  BY <2>1, <2>2
<1>5. \A r \in RuleIds : <<"delete", r>> \in Range(todo') => ~uci[r].exists
  BY <1>3 DEF Asks
<1>6. \A r : Activates(r)' => Activates(r)
  BY <1>1, <1>3 DEF Activates, ActiveWaits
<1>. QED  BY <1>1, <1>2, <1>4, <1>5, <1>6 DEF Asks

LEMMA RegisteredStep ==
    ASSUME ControlTypes, Shape, Loops, Fresh, Blanked, Registered, Step
    PROVE  Registered'
<1>1. UNCHANGED <<uci, waiting, job>> /\ ~Done
  BY StepFlow DEF Step
<1>2. \A arg, r : Waits(arg, r)' <=> Waits(arg, r)
  BY <1>1 DEF Waits
<1>3. job.cfg = uci
  BY <1>1 DEF Fresh, ControlTypes
<1>4. timeobj \subseteq Timed /\ Timed \subseteq RuleIds
  BY ControlAssumption DEF ControlTypes
<1>5. CASE At("unsetStop") \/ At("clearState")
  <2>1. job.op = "stop"
    BY <1>1, <1>5, Place DEF InPlace, RuleNames, LoopNames, ResetNames, At
  <2>2. timeobj' = {}
    BY <1>5, <2>1, StepFiles DEF At, Blanked, Blank
  <2>. QED  BY <2>2 DEF Registered
<1>6. CASE ~At("unsetStop") /\ ~At("clearState")
  <2>1. stopFlag' = stopFlag
    BY <1>6, StepFiles
  <2>2. timeobj' \subseteq timeobj \union {Rule}
    BY <1>1, <1>6, StepFiles DEF At
  <2>3. ASSUME NEW r \in timeobj'
        PROVE  uci[r].exists => uci[r].on \/ Waits("update", r) \/ <<"update", r>> \in Range(todo')
    <3>1. CASE r \notin timeobj \/ (At("update") /\ r = Rule)
      <4>1. ByTime(Rule) /\ r = Rule
        BY <1>1, <1>4, <1>6, <2>2, <2>3, <3>1, StepFiles DEF At
      <4>. QED  BY <1>3, <4>1 DEF ByTime
    <3>2. CASE r \in timeobj /\ ~(At("update") /\ r = Rule)
      <4>1. <<"update", r>> \in Range(todo) => <<"update", r>> \in Range(todo')
        <5>1. \A x \in Range(todo) : x[1] = "update" => x \in Range(todo') \/ x = Current
          BY Left
        <5>2. <<"update", r>> # Current
          BY <1>1, <3>2 DEF At, Rule
        <5>. QED  BY <5>1, <5>2
      <4>. QED  BY <3>2, <4>1 DEF Registered
    <3>. QED  BY <3>1, <3>2
  <2>4. ASSUME NEW r \in timeobj'
        PROVE  \/ stopFlag \/ uci[r].exists
               \/ Waits("delete", r) \/ <<"delete", r>> \in Range(todo')
               \/ <<"forget", r>> \in Range(now')
    <3>1. CASE r \notin timeobj
      <4>1. ByTime(Rule) /\ r = Rule /\ r \in RuleIds
        BY <1>1, <1>4, <1>6, <2>2, <2>4, <3>1, StepFiles DEF At, ByTime
      <4>. QED  BY <1>3, <4>1, OnExists DEF ByTime
    <3>2. CASE r \in timeobj /\ <<"delete", r>> \in Range(todo) /\ ~stopFlag
      <4>1. \A x \in Range(todo) : x[1] = "delete" => x \in Range(todo') \/ x = Current
        BY <3>2, Left
      <4>2. CASE <<"delete", r>> = Current
        <5>1. At("delete") /\ Rule = r
          BY <1>1, <4>2 DEF At, Rule
        <5>. QED  BY <3>2, <5>1, Uninstalls
      <4>3. CASE <<"delete", r>> # Current
        BY <3>2, <4>1, <4>3
      <4>. QED  BY <4>2, <4>3
    <3>3. CASE r \in timeobj /\ <<"forget", r>> \in Range(now)
      <4>1. \A x \in Range(now) : x[1] = "forget" => x \in Range(now') \/ x = Current
        BY Left
      <4>2. <<"forget", r>> # Current
        <5>1. ASSUME <<"forget", r>> = Current PROVE FALSE
          <6>1. At("forget") /\ Rule = r
            BY <1>1, <5>1 DEF At, Rule
          <6>2. r \notin timeobj'
            BY <1>4, <3>3, <6>1, StepFiles
          <6>. QED  BY <2>4, <6>2
        <5>. QED  BY <5>1
      <4>. QED  BY <3>3, <4>1, <4>2
    <3>. QED  BY <3>1, <3>2, <3>3 DEF Registered
  <2>. QED  BY <1>1, <1>2, <2>1, <2>3, <2>4 DEF Registered
<1>. QED  BY <1>5, <1>6

LEMMA NotTwiceStep ==
    ASSUME ControlTypes, Shape, OneStart, Blanked, NotTwice, Step
    PROVE  NotTwice'
<1>1. ~Done
  BY StepFlow
<1>2. SUFFICES ASSUME NEW r \in RuleIds PROVE state'[r].enable # "twice"
  BY DEF NotTwice
<1>3. CASE At("genState")
  <2>1. job.op = "start"
    BY <1>1, <1>3, Place DEF InPlace, RuleNames, LoopNames, ResetNames, StopNames, At
  <2>2. state = [q \in RuleIds |-> NoState]
    BY <1>1, <1>3, <2>1 DEF OneStart, Blanked, Blank
  <2>3. state[r].enable = ""
    BY <2>2 DEF NoState
  <2>. QED  BY <1>3, <2>3, Record
<1>4. CASE ~At("genState")
  <2>1. state[r].enable # "twice"
    BY DEF NotTwice
  <2>. QED  BY <1>1, <1>4, <2>1, Record DEF At
<1>. QED  BY <1>3, <1>4

\* What a command does to the kernel's rules.
LEMMA KnownStep ==
    ASSUME ControlTypes, TypeOK, Shape, RInv, OneStart, Step
    PROVE  /\ At("ruleAdd") => Known' = Known \union {Rule}
           /\ At("ruleDel") => Known' = Known \ {Rule}
           /\ At("setSpec") => Known' = Known
           /\ ~(Current[1] \in {"ruleAdd", "ruleDel", "flushRules"}) => Known' = Known
<1>1. ~Done
  BY StepFlow
<1>2. CASE At("ruleAdd")
  <2>1. RuleStep /\ Rule \in RuleIds
    BY <1>1, <1>2, AtRule DEF Step, Parse, RuleLoop, Reload, RuleStep, StartCommand,
            StopCommand, ResetCommand, Ifup, At, RuleNames
  <2>2. PICK par \in Params : qmark_add_rule(Rule, job.cfg[Rule].mode, par)
    BY <1>2, <2>1 DEF RuleStep, At
  <2>3. Known' = Known \union {Rule}
    BY <2>1, <2>2, SpecAssumption DEF qmark_add_rule, Known, TypeOK
  <2>. QED  BY <1>2, <2>3 DEF At
<1>3. CASE At("ruleDel")
  <2>1. RuleStep /\ Rule \in RuleIds
    BY <1>1, <1>3, AtRule DEF Step, Parse, RuleLoop, Reload, RuleStep, StartCommand,
            StopCommand, ResetCommand, Ifup, At, RuleNames
  <2>2. qmark_del_rule(Rule)
    BY <1>3, <2>1 DEF RuleStep, At
  <2>3. Known' = Known \ {Rule}
    BY <2>1, <2>2 DEF qmark_del_rule, Known, TypeOK, ZeroRule
  <2>. QED  BY <1>3, <2>3 DEF At
<1>4. CASE At("setSpec")
  <2>1. StartCommand
    BY <1>4 DEF Step, Parse, RuleLoop, Reload, RuleStep, StartCommand, StopCommand,
                ResetCommand, Ifup, At
  <2>2. qmark_set_spec(DefaultSpec)
    BY <1>4, <2>1 DEF StartCommand, At
  <2>3. Known' = {}
    BY <2>2 DEF qmark_set_spec, ZeroRule, Known
  <2>4. job.op = "start"
    BY <1>1, <1>4, Place DEF InPlace, At, RuleNames, LoopNames, StopNames, ResetNames
  <2>5. Known = {}
    BY <1>1, <1>4, <2>4 DEF OneStart, RInv, Resting, AtRest, Rest, Quiet
  <2>. QED  BY <1>4, <2>3, <2>5 DEF At
<1>5. CASE At("nfAdd") \/ At("nfDel")
  <2>1. RuleStep
    BY <1>5 DEF Step, Parse, RuleLoop, Reload, RuleStep, StartCommand,
                StopCommand, ResetCommand, Ifup, At
  <2>2. UNCHANGED table
    BY <1>5, <2>1 DEF RuleStep, At
  <2>3. Known' = Known
    BY <2>2 DEF Known, table, vars
  <2>. QED  BY <1>5, <2>3 DEF At
<1>6. CASE ~(Current[1] \in {"ruleAdd", "nfAdd", "nfDel", "ruleDel", "setSpec", "flushRules"})
  BY <1>6, RulesKept DEF At
<1>. QED  BY <1>1, <1>2, <1>3, <1>4, <1>5, <1>6 DEF At

\* state.data and the kernel change by the same rules, one after the other.
LEMMA AgreeStep ==
    ASSUME ControlTypes, TypeOK, Shape, RInv, OneStart, Loops, Agree,
           ~stopFlag => Recorded, Step
    PROVE  Agree'
<1>1. UNCHANGED job /\ ~Done /\ InPlace
  BY StepFlow, Place DEF Step
<1>2. Known \subseteq RuleIds /\ Installed \subseteq RuleIds /\ Installed' \subseteq RuleIds
  BY DEF Known, Installed
<1>3. CASE job.op = "stop"
  <2>1. Current[1] \in StopNames /\ now = <<>> /\ todo = <<>>
    BY <1>1, <1>3 DEF InPlace, LoopOps
  <2>2. ~At("forget")'
    BY <2>1, Origins DEF At, StopNames
  <2>. QED  BY <1>1, <1>3, <2>2 DEF Agree
<1>4. CASE job.op # "stop"
  <2>1. ~(Current[1] \in {"flushRules", "clearState"})
    BY <1>1, <1>4 DEF InPlace, LoopNames, RuleNames, ResetNames
  <2>2. \A r \in RuleIds :
          (r \in Installed') <=> IF At("setInstall") /\ Rule = r THEN TRUE
                                 ELSE IF (At("unsetInstall") \/ At("forget")) /\ Rule = r THEN FALSE
                                 ELSE r \in Installed
    <3>1. ASSUME NEW r \in RuleIds
          PROVE  state'[r].install = IF At("setInstall") /\ Rule = r THEN TRUE
                                     ELSE IF (At("unsetInstall") \/ At("forget")) /\ Rule = r
                                          THEN FALSE
                                     ELSE state[r].install
      BY <1>1, <2>1, Record DEF At
    <3>. QED  BY <3>1 DEF Installed
  <2>3. CASE At("ruleAdd")
    <3>1. At("nfAdd")' /\ Rule' = Rule
      BY <1>1, <2>3, TurnMoves, After DEF At
    <3>2. Known' = Known \union {Rule} /\ Installed' = Installed /\ Installed = Known
      BY <1>1, <1>2, <1>4, <2>2, <2>3, KnownStep DEF At, Agree
    <3>. QED  BY <3>1, <3>2 DEF Agree, At
  <2>4. CASE At("nfAdd")
    <3>1. At("setInstall")' /\ Rule' = Rule
      BY <1>1, <2>4, TurnMoves, After DEF At
    <3>2. Known' = Known /\ Installed' = Installed /\ Known = Installed \union {Rule}
      BY <1>1, <1>2, <1>4, <2>2, <2>4, KnownStep DEF At, Agree
    <3>. QED  BY <3>1, <3>2 DEF Agree, At
  <2>5. CASE At("setInstall")
    <3>1. Turn'
      BY <1>1, <2>5, TurnMoves, After DEF At
    <3>2. Rule \in RuleIds
      BY <1>1, <2>5, AtRule DEF At, RuleNames
    <3>3. Known' = Known /\ Installed' = Installed \union {Rule} /\ Known = Installed \union {Rule}
      BY <1>1, <1>2, <1>4, <2>2, <2>5, <3>2, KnownStep DEF At, Agree
    <3>. QED  BY <3>1, <3>3 DEF Agree, At, Turn, LoopNames
  <2>6. CASE At("unsetInstall")
    <3>1. At("ruleDel")' /\ Rule' = Rule
      BY <1>1, <2>6, TurnMoves, After DEF At
    <3>2. Known' = Known /\ Installed' = Installed \ {Rule} /\ Installed = Known
      BY <1>1, <1>2, <1>4, <2>2, <2>6, KnownStep DEF At, Agree
    <3>. QED  BY <3>1, <3>2 DEF Agree, At
  <2>7. CASE At("ruleDel")
    <3>1. Turn' \/ ((At("install")' \/ At("forget")') /\ Rule' = Rule)
      <4>1. Proceed
        BY <2>7, TurnMoves DEF At
      <4>. QED  BY <1>1, <2>7, <4>1, After
    <3>2. Known' = Known \ {Rule} /\ Installed' = Installed /\ Installed = Known \ {Rule}
      BY <1>1, <1>2, <1>4, <2>2, <2>7, KnownStep DEF At, Agree
    <3>. QED  BY <3>1, <3>2 DEF Agree, At, Turn, LoopNames
  <2>8. CASE ~(Current[1] \in {"ruleAdd", "nfAdd", "setInstall", "unsetInstall", "ruleDel"})
    <3>1. Known' = Known /\ Installed' = Installed /\ Installed = Known
      <4>1. At("forget") => Rule \notin Installed
        BY DEF Agree
      <4>2. Installed' = Installed
        BY <1>2, <2>2, <2>8, <4>1 DEF At
      <4>. QED  BY <1>4, <2>1, <2>8, <4>2, KnownStep DEF Agree, At
    <3>2. ~At("nfAdd")' /\ ~At("setInstall")' /\ ~At("ruleDel")'
      BY <1>1, <2>8, Before DEF At
    <3>3. At("forget")' => Rule' \notin Installed'
      <4>1. ASSUME At("forget")' PROVE Rule' \notin Installed
        <5>1. /\ At("delete") /\ Rule' = Rule /\ ~stopFlag
              /\ ~(state[Rule].install /\ state[Rule].enable = "on")
          BY <2>8, <4>1, Origins DEF At
        <5>3. Rule \in RuleIds
          BY <1>1, <5>1, AtRule DEF At, LoopNames
        <5>4. state[Rule].install => state[Rule].enable = "on"
          BY <5>1, <5>3 DEF Recorded, At
        <5>. QED  BY <5>1, <5>4 DEF Installed
      <4>. QED  BY <3>1, <4>1
    <3>. QED  BY <3>1, <3>2, <3>3 DEF Agree
  <2>9. \A name : Current[1] = name => At(name)
    BY <1>1 DEF At
  <2>. QED  BY <2>3, <2>4, <2>5, <2>6, <2>7, <2>8, <2>9
<1>. QED  BY <1>3, <1>4

\* While a reload runs, no other change of the configuration waits.
LEMMA Alone ==
    ASSUME OneReload, job.op = "reload"
    PROVE  \A arg, r : ~Waits(arg, r)
BY DEF OneReload, Waits

\* The turn in hand.
LEMMA TurnHere ==
    ASSUME Shape, Loops, ~Done
    PROVE  /\ At("parse") => /\ job.op \in {"start", "reload"} /\ now = <<>>
                             /\ \A x \in Range(todo) : x[1] = "parse"
           /\ At("uninstall") => job.op = "reload"
           /\ At("delete") => job.op = "reload"
           /\ At("update") => /\ job.op = "reload"
                              /\ \A x \in Range(todo) : x[1] = "update"
           /\ At("activate") => /\ job.op = "time" /\ now = <<>>
                                /\ \A x \in Range(todo) : x[1] = "activate"
                                /\ <<"activate", Rule>> \in Range(todo)
           /\ At("regroup") => /\ job.op = "ipgroup"
                               /\ \A x \in Range(todo) : x[1] = "regroup"
           /\ At("newState") => /\ job.op = "reload"
                                /\ \A x \in Range(todo) : x[1] # "uninstall"
                                /\ now = <<>> => \A x \in Range(todo) : x[1] # "delete"
<1>1. ASSUME Current[1] \in LoopNames \ {"newState"}
      PROVE  now = <<>> /\ todo # <<>> /\ Current \in Range(todo)
  <2>1. now = <<>> /\ todo # <<>>
    BY <1>1, AtLoop
  <2>2. Range(todo) = {Head(todo)} \union Range(Tail(todo))
    BY <2>1, RangeTail DEF Shape
  <2>. QED  BY <2>1, <2>2 DEF Current
<1>2. At("activate") => <<"activate", Rule>> \in Range(todo)
  BY <1>1, CurrentPair DEF At, LoopNames
<1>3. CASE At("newState") /\ now = <<>>
  <2>1. todo # <<>>
    BY <1>3, Place DEF At, InPlace, LoopNames, RuleNames, StopNames, ResetNames
  <2>. QED  BY <1>3, <2>1, Kind DEF At
<1>4. CASE At("newState") /\ now # <<>>
  <2>1. Current \in Range(now)
    BY <1>4, Behind
  <2>. QED  BY <1>4, <2>1 DEF At, Loops
<1>5. CASE Current[1] \in LoopNames \ {"newState"}
  BY <1>1, <1>2, <1>5, Kind DEF At, LoopNames
<1>6. CASE Current[1] \notin LoopNames
  BY <1>6 DEF At, LoopNames
<1>. QED  BY <1>3, <1>4, <1>5, <1>6 DEF At

\* A rule whose turn it is to be parsed is recorded.
LEMMA ParseRecorded ==
    ASSUME ControlTypes, Shape, Loops, Fresh, OneReload, RInv, Follows, Step,
           At("parse"), job.cfg[Rule].on
    PROVE  /\ state[Rule].enable = "on" /\ state' = state /\ Rule \in RuleIds
           /\ uci[Rule].on
<1>1. UNCHANGED <<uci, waiting, job>> /\ ~Done
  BY StepFlow DEF Step
<1>2. job.cfg = uci
  BY <1>1 DEF Fresh, ControlTypes
<1>3. Rule \in RuleIds
  BY <1>1, AtRule DEF At, LoopNames
<1>4. state' = state
  BY StepFiles DEF At
<1>5. /\ job.op \in {"start", "reload"} /\ Range(now) = {}
      /\ \A x \in Range(todo) : x[1] = "parse"
  BY <1>1, TurnHere, RangeEmpty
<1>6. uci[Rule].on
  BY <1>2
<1>7. CASE job.op = "start"
  <2>1. <<"genState", 0>> \notin Range(now)
    BY <1>5
  <2>. QED  BY <1>1, <1>3, <1>4, <1>6, <1>7, <2>1 DEF Follows
<1>8. CASE job.op = "reload"
  <2>1. ready
    BY <1>1, <1>8 DEF RInv, Serving
  <2>2. /\ <<"newState", Rule>> \notin Range(todo) \union Range(now)
        /\ <<"update", Rule>> \notin Range(todo)
    BY <1>5
  <2>3. ~Waits("add", Rule) /\ ~Waits("update", Rule)
    BY <1>8, Alone
  <2>. QED  BY <1>3, <1>4, <1>6, <2>1, <2>2, <2>3 DEF Follows
<1>. QED  BY <1>5, <1>7, <1>8

LEMMA RecordedStep ==
    ASSUME ControlTypes, Shape, Loops, Fresh, OneReload, Blanked, OneStart, Asks, NotTwice,
           Recorded, Enabled, Follows, Timely, RInv, Step, ~stopFlag
    PROVE  Recorded'
<1>1. UNCHANGED <<uci, waiting, job>> /\ ~Done /\ InPlace
  BY StepFlow, Place DEF Step
<1>2. job.cfg = uci
  BY <1>1 DEF Fresh, ControlTypes
<1>3. \A name : Current[1] = name <=> At(name)
  BY <1>1 DEF At
<1>4. ASSUME NEW r \in RuleIds, state'[r].install
      PROVE  state'[r].enable = "on" \/ (At("newState")' /\ Rule' = r)
  <2>1. CASE At("setInstall") /\ Rule = r
    <3>1. state'[r].enable = state[r].enable
      BY <2>1, Record
    <3>2. state[r].enable = "on" \/ <<"newState", Rule>> \in Range(now)
      BY <2>1 DEF Recorded, AtInstall
    <3>. QED  BY <2>1, <3>1, <3>2, Origins
  <2>2. CASE At("newState") /\ Rule = r
    <3>1. state[r].install
      BY <1>4, <2>2, Record
    <3>2. CASE now # <<>>
      <4>1. uci[r].on
        BY <2>2, <3>1, <3>2 DEF Enabled
      <4>. QED  BY <1>2, <2>2, <4>1, Record DEF NotTwice
    <3>3. CASE now = <<>>
      <4>1. /\ job.op = "reload"
            /\ <<"uninstall", r>> \notin Range(todo) /\ <<"delete", r>> \notin Range(todo)
        BY <1>1, <2>2, <3>3, TurnHere
      <4>2. ~Leaves(r)
        BY <4>1, Alone DEF Leaves
      <4>3. uci[r].on
        BY <2>2, <3>1, <4>1, <4>2 DEF Enabled, At
      <4>. QED  BY <1>2, <2>2, <4>3, Record DEF NotTwice
    <3>. QED  BY <3>2, <3>3
  <2>3. CASE At("genState")
    <3>1. job.op = "start"
      BY <1>1, <2>3, Place DEF InPlace, RuleNames, LoopNames, ResetNames, StopNames, At
    <3>2. state = [q \in RuleIds |-> NoState]
      BY <1>1, <2>3, <3>1 DEF OneStart, Blanked, Blank
    <3>3. ~state[r].install
      BY <3>2 DEF NoState
    <3>. QED  BY <1>4, <2>3, <3>3, Record
  <2>4. CASE /\ ~(At("setInstall") /\ Rule = r) /\ ~(At("newState") /\ Rule = r)
             /\ ~At("genState")
    <3>1. state'[r] = state[r]
      BY <1>3, <1>4, <2>4, Record
    <3>. QED  BY <1>4, <2>4, <3>1 DEF Recorded
  <2>. QED  BY <2>1, <2>2, <2>3, <2>4
<1>5. ASSUME At("ruleAdd")'
      PROVE  /\ Rule' = Rule /\ Rule \in RuleIds /\ state' = state
             /\ \/ state[Rule].enable = "on"
                \/ uci[Rule].on /\ <<"newState", Rule>> \in Range(now')
  <2>1. /\ Rule' = Rule
        /\ \/ At("parse") /\ job.cfg[Rule].on
           \/ At("activate") /\ uci[Rule].exists
           \/ At("update") /\ job.cfg[Rule].on
           \/ At("install")
    BY <1>5, Origins
  <2>2. Rule \in RuleIds
    BY <1>1, <2>1, AtRule DEF At, LoopNames, RuleNames
  <2>3. state' = state
    BY <1>3, <2>1, <2>2, Record DEF At
  <2>4. CASE At("parse") /\ job.cfg[Rule].on
    BY <2>1, <2>2, <2>3, <2>4, ParseRecorded
  <2>5. CASE At("activate") /\ uci[Rule].exists
    <3>1. /\ job.op = "time" /\ Range(now) = {}
          /\ <<"activate", Rule>> \in Range(todo)
      BY <1>1, <2>5, TurnHere, RangeEmpty
    <3>2. ready
      BY <1>1, <3>1 DEF RInv, Serving
    <3>3. RecordComes(Rule)
      BY <2>2, <2>5, <3>1, <3>2 DEF Timely, Activates
    <3>. QED  BY <2>1, <2>2, <2>3, <3>1, <3>3 DEF RecordComes
  <2>6. CASE At("update") /\ job.cfg[Rule].on
    BY <1>2, <2>1, <2>2, <2>3, <2>6, Uninstalls
  <2>7. CASE At("install")
    BY <2>1, <2>2, <2>3, <2>7 DEF Recorded
  <2>. QED  BY <2>1, <2>4, <2>5, <2>6, <2>7
<1>6. ASSUME At("nfAdd")' \/ At("setInstall")'
      PROVE  \/ state'[Rule'].enable = "on"
             \/ uci[Rule'].on /\ <<"newState", Rule'>> \in Range(now')
  <2>1. (At("ruleAdd") \/ At("nfAdd")) /\ Rule' = Rule
    BY <1>6, Before
  <2>2. Rule \in RuleIds
    BY <1>1, <2>1, AtRule DEF At, RuleNames
  <2>3. state' = state
    BY <1>3, <2>1, <2>2, Record DEF At
  <2>4. <<"newState", Rule>> \in Range(now) => <<"newState", Rule>> \in Range(now')
    <3>1. \A x \in Range(now) : x[1] = "newState" => x \in Range(now') \/ x = Current
      BY Left
    <3>2. Current # <<"newState", Rule>>
      BY <2>1 DEF At
    <3>. QED  BY <3>1, <3>2
  <2>5. state[Rule].enable = "on" \/ (uci[Rule].on /\ <<"newState", Rule>> \in Range(now))
    BY <2>1 DEF Recorded, AtInstall
  <2>. QED  BY <2>1, <2>3, <2>4, <2>5
<1>7. ASSUME At("nfDel")' PROVE state'[Rule'].enable = "on"
  <2>1. /\ Rule' = Rule /\ state[Rule].install
        /\ Current[1] \in {"expire", "regroup", "uninstall", "delete"}
    BY <1>7, Origins
  <2>2. Rule \in RuleIds
    BY <1>1, <2>1, AtRule DEF LoopNames
  <2>3. state' = state
    BY <2>1, <2>2, Record
  <2>. QED  BY <2>1, <2>2, <2>3 DEF Recorded, At
<1>8. ASSUME At("unsetInstall")' \/ At("ruleDel")' \/ At("install")'
      PROVE  state'[Rule'].enable = "on"
  <2>1. AtUninstall /\ Rule' = Rule
    BY <1>8, Before DEF AtUninstall
  <2>2. Rule \in RuleIds
    BY <1>1, <2>1, AtRule DEF AtUninstall, At, RuleNames
  <2>3. state'[Rule].enable = state[Rule].enable
    BY <1>3, <2>1, <2>2, Record DEF AtUninstall, At
  <2>. QED  BY <2>1, <2>3 DEF Recorded
<1>9. AtInstall' => \/ state'[Rule'].enable = "on"
                    \/ uci[Rule'].on /\ <<"newState", Rule'>> \in Range(now')
  BY <1>5, <1>6 DEF AtInstall
<1>10. AtUninstall' \/ At("install")' => state'[Rule'].enable = "on"
  BY <1>7, <1>8 DEF AtUninstall
<1>. QED  BY <1>1, <1>4, <1>9, <1>10 DEF Recorded

\* A command that is not a turn of a loop is in hand.
HandHolds ==
    /\ Shape /\ At("install") => <<"install", Rule>> \in Range(now)
    /\ Shape /\ At("newState") /\ now # <<>> => <<"newState", Rule>> \in Range(now)

LEMMA InHand == HandHolds
<1>1. ASSUME Shape, At("install") PROVE <<"install", Rule>> \in Range(now)
  <2>1. ~Done
    BY <1>1 DEF At
  <2>2. now # <<>>
    BY <1>1, <2>1, Place DEF InPlace, At, LoopNames, StopNames, ResetNames
  <2>. QED  BY <1>1, <2>1, <2>2, Behind, CurrentPair DEF At, RuleNames
<1>2. ASSUME Shape, At("newState"), now # <<>> PROVE <<"newState", Rule>> \in Range(now)
  <2>1. ~Done
    BY <1>2 DEF At
  <2>. QED  BY <1>2, <2>1, Behind, CurrentPair DEF At, RuleNames
<1>. QED  BY <1>1, <1>2 DEF HandHolds

LEMMA InHandNext == HandHolds'
BY InHand, PTL

LEMMA EnabledStep ==
    ASSUME ControlTypes, Shape, Loops, Fresh, OneReload, Asks, Recorded, Enabled, Step, ~stopFlag
    PROVE  Enabled'
<1>1. UNCHANGED <<uci, waiting, job>> /\ ~Done
  BY StepFlow DEF Step
<1>2. job.cfg = uci
  BY <1>1 DEF Fresh, ControlTypes
<1>3. \A name : Current[1] = name <=> At(name)
  BY <1>1 DEF At
<1>4. \A r : Leaves(r)' <=> Leaves(r)
  BY <1>1 DEF Leaves, Waits
<1>5. ASSUME NEW r \in RuleIds, state'[r].install, ~uci[r].on, ~Leaves(r)
      PROVE  \/ <<"uninstall", r>> \in Range(todo') \/ <<"delete", r>> \in Range(todo')
             \/ job.op = "reload" /\ (At("nfDel")' \/ At("unsetInstall")') /\ Rule' = r
  <2>1. CASE At("setInstall") /\ Rule = r
    BY <1>5, <2>1 DEF Enabled, AtInstall
  <2>2. CASE ~(At("setInstall") /\ Rule = r)
    <3>1. state[r].install
      BY <1>3, <1>5, <2>2, Record
    <3>2. CASE <<"uninstall", r>> \in Range(todo)
      <4>1. CASE <<"uninstall", r>> = Current
        <5>1. At("uninstall") /\ Rule = r
          BY <1>1, <4>1 DEF At, Rule
        <5>. QED  BY <1>1, <3>1, <5>1, Uninstalls, TurnHere
      <4>2. CASE <<"uninstall", r>> # Current
        <5>1. \A x \in Range(todo) : x[1] = "uninstall" => x \in Range(todo') \/ x = Current
          BY Left
        <5>. QED  BY <3>2, <4>2, <5>1
      <4>. QED  BY <4>1, <4>2
    <3>3. CASE <<"delete", r>> \in Range(todo)
      <4>1. CASE <<"delete", r>> = Current
        <5>1. At("delete") /\ Rule = r
          BY <1>1, <4>1 DEF At, Rule
        <5>2. state[r].enable = "on"
          BY <3>1, <5>1 DEF Recorded, At
        <5>. QED  BY <1>1, <3>1, <5>1, <5>2, Uninstalls, TurnHere
      <4>2. CASE <<"delete", r>> # Current
        <5>1. \A x \in Range(todo) : x[1] = "delete" => x \in Range(todo') \/ x = Current
          BY Left
        <5>. QED  BY <3>3, <4>2, <5>1
      <4>. QED  BY <4>1, <4>2
    <3>4. CASE job.op = "reload" /\ At("nfDel") /\ Rule = r
      <4>1. Proceed
        BY <3>4, TurnMoves DEF At
      <4>2. At("unsetInstall")' /\ Rule' = Rule
        BY <1>1, <3>4, <4>1, After
      <4>. QED  BY <3>4, <4>2
    <3>5. CASE At("unsetInstall") /\ Rule = r
      BY <1>5, <3>5, Record
    <3>. QED  BY <1>5, <3>1, <3>2, <3>3, <3>4, <3>5 DEF Enabled
  <2>. QED  BY <2>1, <2>2
<1>6. ASSUME At("ruleAdd")' PROVE Rule' = Rule /\ (uci[Rule].on \/ Leaves(Rule))
  <2>1. /\ Rule' = Rule
        /\ \/ At("parse") /\ job.cfg[Rule].on
           \/ At("activate") /\ uci[Rule].exists
           \/ At("update") /\ job.cfg[Rule].on
           \/ At("install")
    BY <1>6, Origins
  <2>2. CASE At("activate") /\ uci[Rule].exists
    <3>1. <<"activate", Rule>> \in Range(todo)
      BY <1>1, <2>2, TurnHere
    <3>2. Rule \in RuleIds
      BY <1>1, <2>2, AtRule DEF At, LoopNames
    <3>. QED  BY <2>1, <2>2, <3>1, <3>2 DEF Asks, Activates
  <2>3. CASE At("install")
    BY <2>1, <2>3 DEF Enabled
  <2>. QED  BY <1>2, <2>1, <2>2, <2>3
<1>7. AtInstall' => uci[Rule'].on \/ Leaves(Rule')
  <2>1. At("nfAdd")' \/ At("setInstall")' => AtInstall /\ Rule' = Rule
    BY Before DEF AtInstall
  <2>. QED  BY <1>6, <2>1 DEF Enabled, AtInstall
<1>8. ASSUME job.op = "ipgroup", At("nfDel")' PROVE uci[Rule'].on \/ Leaves(Rule')
  <2>1. /\ Rule' = Rule /\ state[Rule].install
        /\ Current[1] \in {"expire", "regroup", "uninstall", "delete"}
    BY <1>8, Origins
  <2>2. At("regroup")
    <3>1. At("expire") => job.op = "time"
      <4>1. At("expire") => now = <<>> /\ todo # <<>>
        BY <1>1, AtLoop DEF At, LoopNames
      <4>. QED  BY <1>1, <4>1, Kind
    <3>. QED  BY <1>1, <1>3, <1>8, <2>1, <3>1, TurnHere
  <2>3. \A x \in Range(todo) : x[1] = "regroup"
    BY <1>1, <2>2, TurnHere
  <2>4. <<"uninstall", Rule>> \notin Range(todo) /\ <<"delete", Rule>> \notin Range(todo)
    BY <2>3
  <2>5. Rule \in RuleIds
    BY <1>1, <2>2, AtRule DEF At, LoopNames
  <2>. QED  BY <1>8, <2>1, <2>4, <2>5 DEF Enabled
<1>9. ASSUME At("install")' \/ (job.op = "ipgroup" /\ (At("unsetInstall")' \/ At("ruleDel")'))
      PROVE  uci[Rule'].on \/ Leaves(Rule')
  <2>1. AtUninstall /\ Rule' = Rule
    BY <1>9, Before DEF AtUninstall
  <2>2. job.op = "ipgroup"
    <3>1. At("install")' => job.op = "ipgroup"
      <4>. SUFFICES ASSUME At("install")' PROVE job.op = "ipgroup"
        OBVIOUS
      <4>1. Shape' /\ Loops'
        BY StepTypes, LoopsStep
      <4>2. <<"install", Rule'>> \in Range(now')
        BY <4>1, InHandNext DEF HandHolds
      <4>. QED  BY <1>1, <4>1, <4>2 DEF Loops
    <3>. QED  BY <1>9, <3>1
  <2>. QED  BY <2>1, <2>2 DEF Enabled
<1>10. ASSUME At("newState")', now' # <<>>, state'[Rule'].install PROVE uci[Rule'].on
  <2>1. Rule' = Rule /\ (At("setInstall") \/ At("update"))
    BY <1>10, Origins
  <2>2. Rule \in RuleIds
    BY <1>1, <2>1, AtRule DEF At, LoopNames, RuleNames
  <2>3. CASE At("update")
    <3>1. state'[Rule] = state[Rule]
      BY <1>3, <2>2, <2>3, Record
    <3>2. job.op = "reload" /\ \A x \in Range(todo) : x[1] = "update"
      BY <1>1, <2>3, TurnHere
    <3>3. <<"uninstall", Rule>> \notin Range(todo) /\ <<"delete", Rule>> \notin Range(todo)
      BY <3>2
    <3>4. ~Leaves(Rule)
      BY <3>2, Alone DEF Leaves
    <3>. QED  BY <1>10, <2>1, <2>2, <2>3, <3>1, <3>3, <3>4 DEF Enabled, At
  <2>4. CASE At("setInstall")
    <3>1. uci[Rule].on \/ Leaves(Rule)
      BY <2>4 DEF Enabled, AtInstall
    <3>2. job.op = "reload"
      <4>1. Shape' /\ Loops'
        BY StepTypes, LoopsStep
      <4>2. <<"newState", Rule'>> \in Range(now')
        BY <1>10, <4>1, InHandNext DEF HandHolds
      <4>. QED  BY <1>1, <4>1, <4>2 DEF Loops
    <3>. QED  BY <2>1, <3>1, <3>2, Alone DEF Leaves
  <2>. QED  BY <2>1, <2>3, <2>4
<1>11. \A r \in RuleIds : state'[r].install =>
          \/ uci'[r].on \/ Leaves(r)'
          \/ <<"uninstall", r>> \in Range(todo') \/ <<"delete", r>> \in Range(todo')
          \/ job'.op = "reload" /\ (At("nfDel")' \/ At("unsetInstall")') /\ Rule' = r
  BY <1>1, <1>4, <1>5
<1>12. AtInstall' \/ At("install")' \/ (job'.op = "ipgroup" /\ AtUninstall')
          => uci'[Rule'].on \/ Leaves(Rule')
  BY <1>1, <1>7, <1>8, <1>9 DEF AtUninstall
<1>13. Leaves(Rule') <=> Leaves(Rule)'
  BY <1>1 DEF Leaves, Waits
<1>14. At("newState")' /\ now' # <<>> /\ state'[Rule'].install => uci'[Rule'].on
  BY <1>1, <1>10
<1>. QED  BY <1>11, <1>12, <1>13, <1>14 DEF Enabled

\* The record of an enabled rule stays, or is about to be made.
LEMMA StaysRecorded ==
    ASSUME ControlTypes, Shape, Loops, Fresh, Asks, NotTwice, Step,
           NEW r \in RuleIds, uci[r].on, ~At("genState"), ~At("clearState")
    PROVE  /\ state[r].enable = "on" => state'[r].enable = "on"
           /\ RecordComes(r) => RecordComes(r)'
<1>1. UNCHANGED <<uci, waiting, job>> /\ ~Done /\ InPlace
  BY StepFlow, Place DEF Step
<1>2. job.cfg = uci
  BY <1>1 DEF Fresh, ControlTypes
<1>3. \A name : Current[1] = name <=> At(name)
  BY <1>1 DEF At
<1>4. ~(At("forget") /\ Rule = r)
  <2>1. At("forget") => now # <<>>
    BY <1>1 DEF InPlace, At, LoopNames, StopNames, ResetNames
  <2>2. At("forget") => <<"forget", Rule>> \in Range(now)
    BY <1>1, <2>1, Behind, CurrentPair DEF At, RuleNames
  <2>. QED  BY <2>2, OnExists DEF Asks
<1>5. ASSUME At("newState"), Rule = r, state[r].enable # "twice"
      PROVE  state'[r].enable = "on"
  BY <1>2, <1>5, Record
<1>6. state[r].enable # "twice"
  BY DEF NotTwice
<1>7. ASSUME state[r].enable = "on" PROVE state'[r].enable = "on"
  <2>1. CASE At("newState") /\ Rule = r
    BY <1>5, <1>6, <2>1
  <2>2. CASE ~(At("newState") /\ Rule = r)
    BY <1>3, <1>4, <1>7, <2>2, Record
  <2>. QED  BY <2>1, <2>2
<1>8. ASSUME <<"newState", r>> \in Range(now)
      PROVE  <<"newState", r>> \in Range(now') \/ state'[r].enable = "on"
  <2>1. CASE Current = <<"newState", r>>
    <3>1. At("newState") /\ Rule = r
      BY <1>1, <2>1 DEF At, Rule
    <3>. QED  BY <1>5, <1>6, <3>1
  <2>2. CASE Current # <<"newState", r>>
    <3>1. \A x \in Range(now) : x[1] = "newState" => x \in Range(now') \/ x = Current
      BY Left
    <3>. QED  BY <1>8, <2>2, <3>1
  <2>. QED  BY <2>1, <2>2
<1>. QED  BY <1>7, <1>8 DEF RecordComes

LEMMA FollowsStep ==
    ASSUME ControlTypes, Shape, RInv, Loops, Fresh, Blanked, OneStart, Asks, NotTwice,
           Follows, Step
    PROVE  Follows'
<1>1. UNCHANGED <<uci, waiting, job>> /\ ~Done /\ InPlace
  BY StepFlow, Place DEF Step
<1>2. job.cfg = uci
  BY <1>1 DEF Fresh, ControlTypes
<1>3. \A name : Current[1] = name <=> At(name)
  BY <1>1 DEF At
<1>4. \A arg, r : Waits(arg, r)' <=> Waits(arg, r)
  BY <1>1 DEF Waits
<1>5. At("forget") => job.op = "reload"
  <2>1. At("forget") => now # <<>>
    BY <1>1 DEF InPlace, At, LoopNames, StopNames, ResetNames
  <2>2. At("forget") => Current \in Range(now)
    BY <1>1, <2>1, Behind
  <2>. QED  BY <2>2 DEF Loops, At
\* A record that is on stays on, as long as the rule is enabled.
<1>6. ASSUME NEW r \in RuleIds, uci[r].on, state[r].enable = "on",
             ~At("genState"), ~At("clearState")
      PROVE  state'[r].enable = "on"
  BY <1>6, StaysRecorded
<1>7. CASE job.op = "stop"
  <2>1. Current[1] \in StopNames
    BY <1>1, <1>7 DEF InPlace, LoopOps
  <2>2. ~ready'
    BY <1>3, <1>7, <2>1, StepFiles DEF RInv, Stopping, StopNames
  <2>. QED  BY <1>1, <1>7, <2>2 DEF Follows
<1>8. CASE job.op = "start"
  <2>1. ~ready /\ ~(Current[1] \in {"clearState", "forget", "unsetReady"})
    BY <1>1, <1>3, <1>5, <1>8
       DEF OneStart, InPlace, LoopNames, RuleNames, ResetNames
  <2>2. CASE At("genState")
    <3>1. state = [q \in RuleIds |-> NoState]
      BY <1>1, <1>8, <2>1, <2>2 DEF Blanked, Blank
    <3>2. \A r \in RuleIds : uci[r].on => state'[r].enable = "on"
      <4>1. ASSUME NEW r \in RuleIds, uci[r].on PROVE state'[r].enable = "on"
        <5>1. state[r].enable = ""
          BY <3>1 DEF NoState
        <5>. QED  BY <2>2, <4>1, <5>1, OnExists, Record
      <4>. QED  BY <4>1
    <3>3. ~ready'
      BY <2>1, <2>2, StepFiles DEF At
    <3>. QED  BY <1>1, <3>2, <3>3 DEF Follows
  <2>3. CASE ~At("genState")
    <3>1. <<"genState", 0>> \in Range(now) => <<"genState", 0>> \in Range(now') \/ Done'
      <4>1. \A x \in Range(now) : x[1] = "genState" => x \in Range(now') \/ x = Current \/ Done'
        BY Left
      <4>2. Current # <<"genState", 0>>
        BY <1>1, <2>3 DEF At
      <4>. QED  BY <4>1, <4>2
    <3>2. (\A r \in RuleIds : uci[r].on => state[r].enable = "on")
             => (\A r \in RuleIds : uci[r].on => state'[r].enable = "on")
      BY <1>3, <1>6, <2>1, <2>3
    <3>3. ASSUME ready' PROVE \A r \in RuleIds : uci[r].on => state[r].enable = "on"
      <4>1. At("setReady")
        BY <1>3, <2>1, <3>3, StepFiles
      <4>2. now = <<>>
        BY <1>1, <4>1 DEF InPlace, At, RuleNames
      <4>3. <<"genState", 0>> \notin Range(now)
        BY <4>2, RangeEmpty
      <4>. QED  BY <1>1, <1>8, <4>3 DEF Follows
    <3>4. job.op = "start" /\ ~Done =>
            \/ <<"genState", 0>> \in Range(now)
            \/ \A r \in RuleIds : uci[r].on => state[r].enable = "on"
      BY DEF Follows
    <3>5. ~Done' => \/ <<"genState", 0>> \in Range(now')
                    \/ \A r \in RuleIds : uci[r].on => state'[r].enable = "on"
      BY <1>1, <1>8, <3>1, <3>2, <3>4
    <3>6. ready' => \A r \in RuleIds : uci[r].on => state'[r].enable = "on"
      BY <3>2, <3>3
    <3>. QED  BY <1>1, <3>5, <3>6 DEF Follows
  <2>. QED  BY <2>2, <2>3
<1>9. CASE job.op \notin {"stop", "start"}
  <2>1. ~(Current[1] \in {"clearState", "genState", "setReady", "unsetReady"})
    BY <1>1, <1>9 DEF InPlace, LoopNames, RuleNames, ResetNames
  <2>2. ready' = ready
    BY <2>1, StepFiles
  <2>3. ASSUME NEW r \in RuleIds, ready, uci[r].on
        PROVE  \/ state'[r].enable = "on" \/ Waits("add", r) \/ Waits("update", r)
               \/ <<"newState", r>> \in Range(todo') \union Range(now')
               \/ <<"update", r>> \in Range(todo')
    <3>1. CASE state[r].enable = "on"
      BY <1>3, <1>6, <2>1, <2>3, <3>1
    <3>2. CASE <<"newState", r>> \in Range(todo) \union Range(now)
      <4>1. CASE Current = <<"newState", r>>
        <5>1. At("newState") /\ Rule = r
          BY <1>1, <4>1 DEF At, Rule
        <5>. QED  BY <1>2, <2>3, <5>1, Record DEF NotTwice
      <4>2. CASE Current # <<"newState", r>>
        <5>1. /\ \A x \in Range(todo) : x[1] = "newState" => x \in Range(todo') \/ x = Current
              /\ \A x \in Range(now) : x[1] = "newState" => x \in Range(now') \/ x = Current
          BY Left
        <5>. QED  BY <3>2, <4>2, <5>1
      <4>. QED  BY <4>1, <4>2
    <3>3. CASE <<"update", r>> \in Range(todo)
      <4>1. CASE Current = <<"update", r>>
        <5>1. At("update") /\ Rule = r
          BY <1>1, <4>1 DEF At, Rule
        <5>. QED  BY <5>1, Uninstalls
      <4>2. CASE Current # <<"update", r>>
        <5>1. \A x \in Range(todo) : x[1] = "update" => x \in Range(todo') \/ x = Current
          BY Left
        <5>. QED  BY <3>3, <4>2, <5>1
      <4>. QED  BY <4>1, <4>2
    <3>. QED  BY <2>3, <3>1, <3>2, <3>3 DEF Follows
  <2>. QED  BY <1>1, <1>4, <1>9, <2>2, <2>3 DEF Follows
<1>. QED  BY <1>7, <1>8, <1>9

LEMMA TimelyStep ==
    ASSUME ControlTypes, Shape, RInv, Loops, Fresh, OneReload, Blanked, OneStart, Asks,
           Registered, NotTwice, Follows, Timely, Step, ~stopFlag
    PROVE  Timely'
<1>1. UNCHANGED <<uci, waiting, job>> /\ ~Done /\ InPlace
  BY StepFlow, Place DEF Step
<1>2. job.cfg = uci
  BY <1>1 DEF Fresh, ControlTypes
<1>3. \A name : Current[1] = name <=> At(name)
  BY <1>1 DEF At
<1>4. /\ timeobj' \subseteq RuleIds /\ timeobj \subseteq Timed
      /\ timeobj \subseteq RuleIds
  BY StepTypes, ControlAssumption DEF ControlTypes
<1>5. At("genState") => /\ ~ready /\ job.op = "start" /\ timeobj = {}
  <2>1. At("genState") => job.op = "start"
    BY <1>1, Place DEF InPlace, RuleNames, LoopNames, ResetNames, StopNames, At
  <2>. QED  BY <1>1, <2>1 DEF OneStart, Blanked, Blank
<1>6. At("clearState") => ~ready /\ timeobj' = {}
  <2>1. At("clearState") => job.op = "stop"
    BY <1>1 DEF InPlace, RuleNames, LoopNames, ResetNames, At
  <2>. QED  BY <1>1, <2>1, StepFiles DEF RInv, Stopping, At
\* A rule that is registered now.
<1>7. ASSUME NEW r \in timeobj', r \notin timeobj
      PROVE  RecordComes(r)' /\ uci[r].on
  <2>1. /\ Rule = r /\ ByTime(Rule)
        /\ At("parse") \/ At("update")
    BY <1>3, <1>7, StepFiles
  <2>2. job.cfg[Rule].on
    BY <2>1 DEF ByTime
  <2>3. CASE At("parse")
    BY <2>1, <2>2, <2>3, ParseRecorded DEF RecordComes
  <2>4. CASE At("update")
    BY <1>2, <2>1, <2>2, <2>4, Uninstalls DEF RecordComes
  <2>. QED  BY <2>1, <2>3, <2>4
\* A rule that stays registered while it is not enabled, or not there.
<1>8. ASSUME NEW r \in timeobj, r \in timeobj', ~uci[r].on
      PROVE  state'[r].enable = "on" /\ <<"newState", r>> \notin Range(now')
  <2>1. r \in RuleIds /\ r \in Timed
    BY <1>4
  <2>2. state[r].enable = "on" /\ <<"newState", r>> \notin Range(now)
    BY <1>8 DEF Timely, RecordComes
  <2>3. ~(At("forget") /\ Rule = r)
    BY <1>8, <2>1, StepFiles
  <2>4. ~(At("newState") /\ Rule = r)
    <3>. SUFFICES ASSUME At("newState"), Rule = r PROVE FALSE
      OBVIOUS
    <3>1. now = <<>>
      BY <2>2, InHand DEF HandHolds
    <3>2. todo # <<>>
      BY <1>1, <3>1 DEF At, InPlace, LoopNames, RuleNames, StopNames, ResetNames
    <3>3. job.op = "reload" /\ \A x \in Range(todo) : x[1] \in {"newState", "parse"}
      BY <1>1, <3>1, <3>2, Kind
    <3>4. /\ \A arg : ~Waits(arg, r)
          /\ <<"update", r>> \notin Range(todo) /\ <<"delete", r>> \notin Range(todo)
          /\ <<"forget", r>> \notin Range(now)
      BY <3>1, <3>3, Alone, RangeEmpty
    <3>. QED  BY <1>8, <3>4 DEF Registered
  <2>5. ~(At("update") /\ Rule = r)
    BY <1>2, <1>8, <2>1, StepFiles DEF ByTime
  <2>6. state'[r].enable = "on"
    BY <1>3, <1>5, <1>6, <1>8, <2>1, <2>2, <2>3, <2>4, Record
  <2>7. <<"newState", r>> \notin Range(now')
    <3>1. \A x \in Range(now') : x \notin Range(now) =>
             x = <<x[1], Rule>> /\ (x[1] = "newState" => At("update"))
      BY Left
    <3>. QED  BY <2>2, <2>5, <3>1
  <2>. QED  BY <2>6, <2>7
<1>9. ASSUME NEW r \in timeobj'
      PROVE  RecordComes(r)' /\ (<<"newState", r>> \in Range(now') => uci'[r].on)
  <2>1. r \in RuleIds
    BY <1>4
  <2>2. CASE r \notin timeobj
    BY <1>1, <1>7, <1>9, <2>2
  <2>3. CASE r \in timeobj /\ ~uci[r].on
    BY <1>8, <1>9, <2>3 DEF RecordComes
  <2>4. CASE r \in timeobj /\ uci[r].on
    <3>1. RecordComes(r)
      BY <2>4 DEF Timely
    <3>2. ~At("genState") /\ ~At("clearState")
      BY <1>5, <1>6, <1>9, <2>4
    <3>. QED  BY <1>1, <2>1, <2>4, <3>1, <3>2, StaysRecorded
  <2>. QED  BY <2>2, <2>3, <2>4
<1>10. ASSUME NEW r \in RuleIds, ready', Activates(r)', uci'[r].exists
       PROVE  RecordComes(r)'
  <2>1. Activates(r) /\ uci[r].exists
    BY <1>1, <1>10, Walk DEF Activates, ActiveWaits
  <2>2. uci[r].on
    BY <2>1 DEF Asks
  <2>3. CASE ready
    <3>1. RecordComes(r) /\ ~At("genState") /\ ~At("clearState")
      BY <1>5, <1>6, <2>1, <2>3 DEF Timely
    <3>. QED  BY <2>2, <3>1, StaysRecorded
  <2>4. CASE ~ready
    <3>1. At("setReady")
      BY <1>3, <1>10, <2>4, StepFiles
    <3>2. now = <<>> /\ job.op = "start"
      BY <1>1, <3>1 DEF InPlace, At, RuleNames, LoopNames, ResetNames, StopNames
    <3>3. <<"genState", 0>> \notin Range(now)
      BY <3>2, RangeEmpty
    <3>4. state[r].enable = "on"
      BY <1>1, <2>2, <3>2, <3>3 DEF Follows
    <3>5. state' = state
      BY <3>1, StepFiles DEF At
    <3>. QED  BY <3>4, <3>5 DEF RecordComes
  <2>. QED  BY <2>3, <2>4
<1>. QED  BY <1>9, <1>10 DEF Timely

\* Where nothing is recorded nothing is owed.
LEMMA Afresh == Blank /\ Done /\ ~ready => Recorded /\ Enabled /\ Follows /\ Timely
<1>. SUFFICES ASSUME Blank, Done, ~ready PROVE Recorded /\ Enabled /\ Follows /\ Timely
  OBVIOUS
<1>1. \A r \in RuleIds : ~state[r].install
  BY DEF Blank, NoState
<1>2. \A name : ~At(name)
  BY DEF At
<1>3. Recorded
  BY <1>1, <1>2 DEF Recorded, AtInstall, AtUninstall
<1>4. Enabled
  BY <1>1, <1>2 DEF Enabled, AtInstall, AtUninstall
<1>5. Follows /\ Timely
  BY DEF Follows, Timely, Blank
<1>. QED  BY <1>3, <1>4, <1>5

LEMMA AfreshNext ==
    Blank' /\ Done' /\ ~ready' => Recorded' /\ Enabled' /\ Follows' /\ Timely'
BY Afresh, PTL

LEMMA CommandStep ==
    ASSUME CInv, TypeOK, RInv, KInv, DInv, Step
    PROVE  DInv'
<1>0. ControlTypes /\ Shape /\ OneStart
  BY DEF CInv, KInv
<1>1. /\ Fresh /\ OneReload /\ StopAsked /\ Loops /\ Blanked /\ Asks
      /\ Registered /\ Agree /\ NotTwice
      /\ ~stopFlag => Recorded /\ Enabled /\ Follows /\ Timely
  BY DEF DInv
<1>2. /\ Fresh' /\ OneReload' /\ StopAsked' /\ Loops' /\ Blanked' /\ Asks'
      /\ Registered' /\ Agree' /\ NotTwice'
  BY <1>0, <1>1, FlagStep, LoopsStep, BlankedStep, AsksStep, RegisteredStep, AgreeStep,
     NotTwiceStep
<1>3. CASE ~stopFlag
  <2>1. Recorded' /\ Enabled' /\ Follows' /\ Timely'
    BY <1>0, <1>1, <1>3, RecordedStep, EnabledStep, FollowsStep, TimelyStep
  <2>. QED  BY <1>2, <2>1 DEF DInv
<1>4. CASE stopFlag /\ ~stopFlag'
  <2>1. At("unsetStop") /\ UNCHANGED job /\ ~Done
    BY <1>0, <1>4, StepFlow, StepFiles DEF Step
  <2>2. job.op = "stop"
    BY <1>0, <2>1, Place DEF InPlace, At, RuleNames, LoopNames, ResetNames
  <2>3. Done'
    BY <1>0, <2>1, TurnMoves, After DEF At
  <2>4. Blank /\ ~ready
    BY <1>1, <2>1, <2>2 DEF Blanked, RInv, Stopping, At
  <2>5. UNCHANGED <<state, timeobj, ready>>
    BY <2>1, StepFiles DEF At
  <2>6. Blank' /\ ~ready'
    BY <2>4, <2>5 DEF Blank
  <2>. QED  BY <1>2, <2>3, <2>6, AfreshNext DEF DInv
<1>5. CASE stopFlag'
  BY <1>2, <1>5 DEF DInv
<1>. QED  BY <1>3, <1>4, <1>5

-----------------------------------------------------------------------------
(* The invariant over the other steps.                                     *)

\* What is requested, as long as UCI is written only while no other request
\* is under way and no disabled rule is reported as active.
Requested(q) ==
    \/ q.op = "stop" /\ stopFlag' /\ uci' = uci
    \/ q.op \in {"start", "ifup", "ipgroup"} /\ UNCHANGED <<stopFlag, uci>>
    \/ /\ q.op = "time" /\ UNCHANGED <<stopFlag, uci>>
       /\ Range(q.list) \subseteq timeobj
       /\ q.arg = "ACTIVE" => \A r \in Range(q.list) : uci[r].exists => uci[r].on
    \/ /\ q.op = "reload" /\ stopFlag' = stopFlag
       /\ Free /\ waiting = {}
       /\ \A r \in RuleIds :
            IF r \notin Range(q.list) THEN uci'[r] = uci[r]
            ELSE \/ q.arg = "add" /\ ~uci[r].exists
                 \/ q.arg = "delete" /\ ~uci'[r].exists
                 \/ q.arg = "update" /\ uci'[r].exists

LEMMA SubmitKinds ==
    ASSUME Submit, ~Overlap, ~LateReports
    PROVE  /\ UNCHANGED <<table, outside, ready, state, job, prog, killed>>
           /\ \E q : waiting' = waiting \union {q} /\ q.cfg = uci' /\ Requested(q)
<1>. DEFINE q(op, arg, list) == [op |-> op, arg |-> arg, list |-> list, cfg |-> uci']
<1>1. UNCHANGED <<table, outside, ready, state, job, prog, killed>>
  BY DEF Submit
<1>2. ASSUME NEW op, NEW arg, NEW list, Request(op, arg, list), Requested(q(op, arg, list))
      PROVE  \E p : waiting' = waiting \union {p} /\ p.cfg = uci' /\ Requested(p)
  <2>1. waiting' = waiting \union {q(op, arg, list)} /\ q(op, arg, list).cfg = uci'
    BY <1>2 DEF Request
  <2>. QED  BY <1>2, <2>1
<1>3. CASE RequestStart
  <2>1. Request("start", "", <<>>) /\ UNCHANGED <<stopFlag, uci>>
    BY <1>3 DEF RequestStart
  <2>2. Requested(q("start", "", <<>>))
    BY <2>1 DEF Requested
  <2>. QED  BY <1>1, <1>2, <2>1, <2>2
<1>4. CASE RequestStop
  <2>1. Request("stop", "", <<>>) /\ uci' = uci /\ stopFlag'
    BY <1>4 DEF RequestStop
  <2>2. Requested(q("stop", "", <<>>))
    BY <2>1 DEF Requested
  <2>. QED  BY <1>1, <1>2, <2>1, <2>2
<1>5. CASE RequestIfup
  <2>1. Request("ifup", "", <<>>) /\ UNCHANGED <<stopFlag, uci>>
    BY <1>5 DEF RequestIfup
  <2>2. Requested(q("ifup", "", <<>>))
    BY <2>1 DEF Requested
  <2>. QED  BY <1>1, <1>2, <2>1, <2>2
<1>6. ASSUME NEW list \in Lists, RequestIpgroup(list)
      PROVE  \E p : waiting' = waiting \union {p} /\ p.cfg = uci' /\ Requested(p)
  <2>1. Request("ipgroup", "update", list) /\ UNCHANGED <<stopFlag, uci>>
    BY <1>6 DEF RequestIpgroup
  <2>2. Requested(q("ipgroup", "update", list))
    BY <2>1 DEF Requested
  <2>. QED  BY <1>2, <2>1, <2>2
<1>7. ASSUME NEW list \in Lists, NEW mode \in {"ACTIVE", "EXPIRE"}, RequestTime(mode, list)
      PROVE  \E p : waiting' = waiting \union {p} /\ p.cfg = uci' /\ Requested(p)
  <2>1. /\ Request("time", mode, list) /\ UNCHANGED <<stopFlag, uci>>
        /\ Range(list) \subseteq timeobj
        /\ mode = "ACTIVE" => \A r \in Range(list) : uci[r].exists => uci[r].on
    BY <1>7 DEF RequestTime
  <2>2. Requested(q("time", mode, list))
    BY <2>1 DEF Requested
  <2>. QED  BY <1>2, <2>1, <2>2
<1>8. ASSUME NEW list \in Lists, NEW cfg \in Configs \union {Absent}, RequestReload(list, cfg)
      PROVE  \E p : waiting' = waiting \union {p} /\ p.cfg = uci' /\ Requested(p)
  <2>1. /\ Free /\ waiting = {} /\ stopFlag' = stopFlag
        /\ uci' = [r \in RuleIds |-> IF r \in Range(list) THEN cfg ELSE uci[r]]
    BY <1>8 DEF RequestReload
  <2>2. PICK op \in {"add", "delete", "update"} :
          /\ op = "add"    => cfg.exists /\ \A r \in Range(list) : ~uci[r].exists
          /\ op = "delete" => ~cfg.exists /\ \A r \in Range(list) : uci[r].exists
          /\ op = "update" => cfg.exists /\ \A r \in Range(list) : uci[r].exists
          /\ Request("reload", op, list)
    BY <1>8 DEF RequestReload
  <2>3. ASSUME NEW r \in RuleIds
        PROVE  IF r \notin Range(list) THEN uci'[r] = uci[r]
               ELSE \/ op = "add" /\ ~uci[r].exists
                    \/ op = "delete" /\ ~uci'[r].exists
                    \/ op = "update" /\ uci'[r].exists
    <3>1. uci'[r] = IF r \in Range(list) THEN cfg ELSE uci[r]
      BY <2>1
    <3>. QED  BY <2>2, <3>1
  <2>4. Requested(q("reload", op, list))
    BY <2>1, <2>3 DEF Requested
  <2>. QED  BY <1>2, <2>2, <2>4
<1>. QED  BY <1>1, <1>3, <1>4, <1>5, <1>6, <1>7, <1>8 DEF Submit

LEMMA SubmitStep ==
    ASSUME ~Overlap, ~LateReports, CInv, DInv, Submit
    PROVE  DInv'
<1>0. ControlTypes /\ Shape
  BY DEF CInv
<1>1. /\ Fresh /\ OneReload /\ StopAsked /\ Loops /\ Blanked /\ Asks
      /\ Registered /\ Agree /\ NotTwice
      /\ ~stopFlag => Recorded /\ Enabled /\ Follows /\ Timely
  BY DEF DInv
<1>2. UNCHANGED <<table, outside, ready, state, job, prog, killed, nf, tree, timeobj,
                  now, todo, last>>
  BY SubmitKinds DEF outside, prog
<1>3. PICK q : waiting' = waiting \union {q} /\ q.cfg = uci' /\ Requested(q)
  BY SubmitKinds
<1>4. Done' = Done /\ Current' = Current /\ Rule' = Rule /\ Free' = Free
  BY <1>2, SameProgram DEF Rule, Free
<1>5. \A name : At(name)' <=> At(name)
  BY <1>4 DEF At
<1>6. Known' = Known /\ Installed' = Installed
  BY <1>2 DEF Known, Installed, table, vars
<1>7. Loops' /\ Blanked' /\ Agree' /\ NotTwice'
  <2>1. Loops'
    BY <1>1, <1>2 DEF Loops
  <2>2. Blanked'
    BY <1>1, <1>2, <1>4, <1>5 DEF Blanked, Blank, AtRest
  <2>3. Agree'
    BY <1>1, <1>2, <1>4, <1>5, <1>6 DEF Agree
  <2>4. NotTwice'
    BY <1>1, <1>2 DEF NotTwice
  <2>. QED  BY <2>1, <2>2, <2>3, <2>4
<1>8. \A arg, r : Waits(arg, r)' <=>
          Waits(arg, r) \/ (q.op = "reload" /\ q.arg = arg /\ r \in Range(q.list))
  BY <1>3 DEF Waits
<1>9. Free => Done /\ job.op = "none"
  BY <1>0, FreeOp DEF ControlTypes
<1>10. CASE q.op = "reload"
  <2>1. /\ Free /\ Done /\ job.op = "none" /\ waiting = {} /\ stopFlag' = stopFlag
        /\ \A r \in RuleIds :
             IF r \notin Range(q.list) THEN uci'[r] = uci[r]
             ELSE \/ q.arg = "add" /\ ~uci[r].exists
                  \/ q.arg = "delete" /\ ~uci'[r].exists
                  \/ q.arg = "update" /\ uci'[r].exists
    BY <1>3, <1>9, <1>10 DEF Requested
  <2>2. ~stopFlag /\ waiting' = {q}
    BY <1>1, <1>3, <2>1 DEF StopAsked
  <2>3. /\ \A arg, r : ~Waits(arg, r)
        /\ Range(now) = {} /\ Range(todo) = {}
        /\ \A name : ~At(name)
    BY <2>1, RangeEmpty DEF Waits, Done, At
  <2>4. Fresh'
    BY <1>3, <1>4, <2>1, <2>2 DEF Fresh
  <2>5. OneReload' /\ StopAsked'
    BY <1>2, <2>1, <2>2 DEF OneReload, StopAsked
  <2>6. uci' \in Cfgs
    BY <1>0, SubmitTypes
  <2>7. Asks' /\ (\A r : ~Activates(r)')
    <3>1. \A r \in RuleIds : Waits("delete", r)' => ~uci'[r].exists
      BY <1>8, <2>1, <2>3
    <3>2. \A r : ~Activates(r)'
      BY <1>2, <1>10, <2>2, <2>3 DEF Activates, ActiveWaits
    <3>. QED  BY <1>2, <2>3, <3>1, <3>2 DEF Asks
  <2>8. timeobj \subseteq RuleIds
    BY <1>0, ControlAssumption DEF ControlTypes
  <2>9. Registered'
    <3>1. ASSUME NEW r \in timeobj
          PROVE  /\ uci'[r].exists => uci'[r].on \/ Waits("update", r)'
                 /\ uci'[r].exists \/ Waits("delete", r)'
      <4>1. uci[r].exists /\ uci[r].on
        BY <1>1, <2>2, <2>3 DEF Registered
      <4>. QED  BY <1>8, <1>10, <2>1, <2>8, <4>1
    <3>. QED  BY <1>2, <3>1 DEF Registered
  <2>10. Recorded'
    BY <1>1, <1>2, <1>5, <2>2, <2>3 DEF Recorded, AtInstall, AtUninstall
  <2>11. Enabled'
    <3>1. ASSUME NEW r \in RuleIds, state[r].install PROVE uci'[r].on \/ Leaves(r)'
      <4>1. uci[r].on
        BY <1>1, <2>2, <2>3, <3>1 DEF Enabled, Leaves
      <4>2. uci[r].exists
        BY <1>0, <4>1, OnExists
      <4>. QED  BY <1>8, <1>10, <2>1, <4>1, <4>2 DEF Leaves
    <3>. QED  BY <1>2, <1>5, <2>3, <3>1 DEF Enabled, AtInstall, AtUninstall
  <2>12. Follows'
    <3>1. ASSUME NEW r \in RuleIds, ready, uci'[r].on
          PROVE  state[r].enable = "on" \/ Waits("add", r)' \/ Waits("update", r)'
      <4>1. uci'[r].exists
        BY <2>6, <3>1, OnIsThere
      <4>2. CASE r \in Range(q.list)
        BY <1>8, <1>10, <2>1, <4>1, <4>2
      <4>3. CASE r \notin Range(q.list)
        BY <1>1, <2>1, <2>2, <2>3, <3>1, <4>3 DEF Follows
      <4>. QED  BY <4>2, <4>3
    <3>. QED  BY <1>2, <2>1, <3>1 DEF Follows
  <2>13. Timely'
    <3>1. \A r \in timeobj : state[r].enable = "on"
      BY <1>1, <2>2, <2>3 DEF Timely, RecordComes
    <3>. QED  BY <1>2, <2>3, <2>7, <3>1 DEF Timely, RecordComes
  <2>. QED  BY <1>7, <2>4, <2>5, <2>7, <2>9, <2>10, <2>11, <2>12, <2>13 DEF DInv
<1>11. CASE q.op # "reload"
  <2>1. uci' = uci /\ (\A arg, r : Waits(arg, r)' <=> Waits(arg, r))
    BY <1>3, <1>8, <1>11 DEF Requested
  <2>2. Fresh'
    BY <1>1, <1>2, <1>3, <1>4, <2>1 DEF Fresh
  <2>3. /\ q.op = "time" => Range(q.list) \subseteq timeobj
        /\ q.op = "time" /\ q.arg = "ACTIVE" =>
              \A r \in Range(q.list) : uci[r].exists => uci[r].on
    BY <1>3 DEF Requested
  <2>4. OneReload'
    BY <1>1, <1>2, <1>3, <1>11 DEF OneReload
  <2>5. StopAsked'
    <3>1. stopFlag' => stopFlag \/ q.op = "stop"
      BY <1>3, <1>11 DEF Requested
    <3>. QED  BY <1>1, <1>2, <1>3, <1>4, <3>1 DEF StopAsked
  <2>6. /\ Asks'
        /\ \A r : Activates(r)' => Activates(r) \/ r \in timeobj
    <3>1. \A r : ActiveWaits(r)' =>
             ActiveWaits(r) \/ (q.op = "time" /\ q.arg = "ACTIVE" /\ r \in Range(q.list))
      BY <1>3 DEF ActiveWaits
    <3>2. \A r : Activates(r)' => Activates(r) \/ r \in timeobj
      BY <1>2, <2>3, <3>1 DEF Activates
    <3>3. \A r \in RuleIds : Activates(r)' /\ uci[r].exists => uci[r].on
      BY <1>1, <1>2, <2>3, <3>1 DEF Asks, Activates
    <3>. QED  BY <1>1, <1>2, <2>1, <3>2, <3>3 DEF Asks
  <2>7. Registered'
    <3>1. stopFlag => stopFlag'
      BY <1>3, <1>11 DEF Requested
    <3>. QED  BY <1>1, <1>2, <2>1, <3>1 DEF Registered
  <2>8. ~stopFlag' => ~stopFlag
    BY <1>3, <1>11 DEF Requested
  <2>9. Recorded => Recorded'
    BY <1>2, <1>4, <1>5, <2>1 DEF Recorded, AtInstall, AtUninstall
  <2>10. Enabled => Enabled'
    <3>1. \A r : Leaves(r)' <=> Leaves(r)
      BY <2>1 DEF Leaves
    <3>2. Leaves(Rule)' <=> Leaves(Rule)
      BY <1>4, <2>1 DEF Leaves
    <3>. QED  BY <1>2, <1>4, <1>5, <2>1, <3>1, <3>2 DEF Enabled, AtInstall, AtUninstall
  <2>11. Follows => Follows'
    BY <1>2, <1>4, <2>1 DEF Follows
  <2>12. Timely => Timely'
    BY <1>2, <2>1, <2>6 DEF Timely, RecordComes
  <2>. QED
    BY <1>1, <1>7, <2>2, <2>4, <2>5, <2>6, <2>7, <2>8, <2>9, <2>10, <2>11, <2>12 DEF DInv
<1>. QED  BY <1>10, <1>11

\* The turns of a loop over a list of rules, and of two such loops in a row.
LEMMA EachRange ==
    ASSUME NEW list \in Seq(RuleIds), NEW name
    PROVE  /\ Len(Each(name, list)) = Len(list) /\ Each(name, list) \in Seq({name} \X RuleIds)
           /\ \A i \in 1..Len(list) : Each(name, list)[i] = <<name, list[i]>>
           /\ Range(Each(name, list)) = {<<name, r>> : r \in Range(list)}
<1>1. Len(list) \in Nat /\ DOMAIN list = 1..Len(list) /\ \A i \in 1..Len(list) : list[i] \in RuleIds
  BY LenProperties, ElementOfSeq
<1>2. /\ Each(name, list) \in [1..Len(list) -> {name} \X RuleIds]
      /\ \A i \in 1..Len(list) : Each(name, list)[i] = <<name, list[i]>>
      /\ DOMAIN Each(name, list) = 1..Len(list)
  BY <1>1 DEF Each
<1>3. Each(name, list) \in Seq({name} \X RuleIds)
  BY <1>1, <1>2, SeqDef
<1>4. Len(Each(name, list)) = Len(list)
  BY <1>1, <1>2, <1>3, LenProperties
<1>5. Range(Each(name, list)) = {<<name, r>> : r \in Range(list)}
  BY <1>1, <1>2 DEF Range
<1>. QED  BY <1>2, <1>3, <1>4, <1>5

LEMMA OneLoop ==
    ASSUME NEW list \in Seq(RuleIds), NEW a, NEW b
    PROVE  Sorted(Each(b, list), a, b)
<1>1. /\ Len(Each(b, list)) = Len(list) /\ Len(list) \in Nat
      /\ \A i \in 1..Len(list) : Each(b, list)[i] = <<b, list[i]>>
  BY EachRange, LenProperties
<1>2. \A i \in 1..Len(list) : Each(b, list)[i][1] = b
  BY <1>1
<1>. QED  BY <1>1, <1>2 DEF Sorted

LEMMA TwoLoops ==
    ASSUME NEW list \in Seq(RuleIds), NEW a, NEW b, a # b
    PROVE  /\ Sorted(Each(a, list) \o Each(b, list), a, b)
           /\ Range(Each(a, list) \o Each(b, list)) =
                {<<a, r>> : r \in Range(list)} \union {<<b, r>> : r \in Range(list)}
<1>. DEFINE s == Each(a, list)
            t == Each(b, list)
            n == Len(list)
            S == ({a} \X RuleIds) \union ({b} \X RuleIds)
<1>1. n \in Nat
  BY LenProperties
<1>2. /\ Len(s) = n /\ \A i \in 1..n : s[i] = <<a, list[i]>>
      /\ Len(t) = n /\ \A i \in 1..n : t[i] = <<b, list[i]>>
      /\ Range(s) = {<<a, r>> : r \in Range(list)}
      /\ Range(t) = {<<b, r>> : r \in Range(list)}
      /\ s \in Seq(S)
      /\ t \in Seq(S)
  <2>1. /\ s \in Seq({a} \X RuleIds) /\ t \in Seq({b} \X RuleIds)
    BY EachRange
  <2>2. /\ s \in Seq(S)
        /\ t \in Seq(S)
    BY <2>1, SeqDef
  <2>. QED  BY <2>2, EachRange
<1>. HIDE DEF s, t, n, S
<1>3. /\ Len(s \o t) = n + n
      /\ \A i \in 1..(n + n) : (s \o t)[i] = IF i <= n THEN s[i] ELSE t[i - n]
      /\ s \o t \in Seq(S)
  <2>1. /\ Len(s \o t) = Len(s) + Len(t)
        /\ \A i \in 1..(Len(s) + Len(t)) :
              (s \o t)[i] = IF i <= Len(s) THEN s[i] ELSE t[i - Len(s)]
        /\ s \o t \in Seq(S)
    BY <1>2, ConcatProperties
  <2>. QED  BY <1>2, <2>1
<1>4. ASSUME NEW i \in 1..(n + n)
      PROVE  IF i <= n THEN (s \o t)[i] = s[i] /\ i \in 1..n
                       ELSE (s \o t)[i] = t[i - n] /\ i - n \in 1..n
  BY <1>1, <1>3
<1>5. ASSUME NEW i \in 1..(n + n) PROVE (s \o t)[i][1] = IF i <= n THEN a ELSE b
  <2>1. \A j \in 1..n : s[j][1] = a /\ t[j][1] = b
    BY <1>2
  <2>. QED  BY <1>4, <2>1
<1>6. Sorted(s \o t, a, b)
  <2>1. \A i, j \in 1..(n + n) : i < j /\ j <= n => i <= n
    BY <1>1
  <2>. QED  BY <1>3, <1>5, <2>1 DEF Sorted
<1>7. Range(s \o t) = Range(s) \union Range(t)
  BY <1>2, RangeConcatenation
<1>. QED  BY <1>2, <1>6, <1>7 DEF s, t, S

\* The loops a handler begins with.
LEMMA Loaded ==
    ASSUME ControlTypes, NEW req \in waiting, Acquire(req)
    PROVE  /\ todo' # <<>> => \E k \in Kinds : req.op = k[1] /\ Sorted(todo', k[2], k[3])
           /\ \A x \in Range(now') : x[1] \in {"setSpec", "checkEnable", "genState", "checkRoot"}
           /\ req.op = "start" => \/ <<"genState", 0>> \in Range(now')
                                  \/ \A r \in RuleIds : ~req.cfg[r].exists
           /\ req.op = "reload" /\ ready =>
                \A r \in Range(req.list) :
                  /\ req.arg = "add" => <<"newState", r>> \in Range(todo')
                  /\ req.arg = "delete" => <<"delete", r>> \in Range(todo')
                  /\ req.arg = "update" => /\ <<"uninstall", r>> \in Range(todo')
                                           /\ <<"update", r>> \in Range(todo')
           /\ \A r : <<"delete", r>> \in Range(todo') =>
                req.op = "reload" /\ req.arg = "delete" /\ r \in Range(req.list)
           /\ \A r : <<"activate", r>> \in Range(todo') =>
                req.op = "time" /\ req.arg = "ACTIVE" /\ r \in Range(req.list)
<1>. DEFINE list == req.list
<1>1. req \in Requests /\ Handler(req)
  BY DEF ControlTypes, Acquire
<1>2. /\ req.op \in Ops /\ list \in Seq(RuleIds)
      /\ req.op = "reload" => req.arg \in {"add", "delete", "update"}
  <2>1. <<>> \in Seq(RuleIds) /\ Lists \subseteq Seq(RuleIds)
    BY ControlAssumption, EmptySeq
  <2>. QED  BY <1>1, <2>1 DEF Requests, ControlTypes, Asked
<1>. HIDE DEF list
<1>3. \A name : Range(Each(name, list)) = {<<name, r>> : r \in Range(list)}
  BY <1>2, EachRange
<1>4. CASE req.op = "start"
  <2>1. qos_start(req.cfg)
    BY <1>1, <1>4 DEF Handler
  <2>2. CASE \A r \in RuleIds : ~req.cfg[r].exists
    <3>1. now' = <<Cmd("setSpec"), Cmd("checkEnable")>> /\ todo' = <<>>
      BY <2>1, <2>2 DEF qos_start, Load
    <3>2. Range(now') = {Cmd("setSpec"), Cmd("checkEnable")}
      <4>1. DOMAIN now' = {1, 2} /\ now'[1] = Cmd("setSpec") /\ now'[2] = Cmd("checkEnable")
        BY <3>1
      <4>. QED  BY <4>1 DEF Range
    <3>. QED  BY <1>4, <2>2, <3>1, <3>2, RangeEmpty DEF Cmd
  <2>3. CASE ~(\A r \in RuleIds : ~req.cfg[r].exists)
    <3>1. /\ now' = Append(<<Cmd("setSpec"), Cmd("checkEnable")>>, Cmd("genState"))
          /\ todo' = Each("parse", AllRules)
      BY <2>1, <2>3 DEF qos_start, Load
    <3>2. now' = <<Cmd("setSpec"), Cmd("checkEnable"), Cmd("genState")>>
      BY <3>1, Append2
    <3>3. Range(now') = {Cmd("setSpec"), Cmd("checkEnable"), Cmd("genState")}
      <4>1. /\ DOMAIN now' = {1, 2, 3} /\ now'[1] = Cmd("setSpec")
            /\ now'[2] = Cmd("checkEnable") /\ now'[3] = Cmd("genState")
        BY <3>2
      <4>. QED  BY <4>1 DEF Range
    <3>4. Sorted(todo', "parse", "parse")
      BY <3>1, AllRulesType, OneLoop
    <3>5. Range(todo') = {<<"parse", r>> : r \in Range(AllRules)}
      BY <3>1, AllRulesType, EachRange
    <3>6. \E k \in Kinds : req.op = k[1] /\ Sorted(todo', k[2], k[3])
      <4>1. <<"start", "parse", "parse">> \in Kinds
        BY DEF Kinds
      <4>. QED  BY <1>4, <3>4, <4>1
    <3>. QED  BY <1>4, <3>3, <3>5, <3>6 DEF Cmd
  <2>. QED  BY <2>2, <2>3
<1>5. CASE req.op = "stop"
  <2>1. now' = <<>> /\ todo' = <<>>
    BY <1>1, <1>5 DEF Handler, qos_destroy, Load
  <2>. QED  BY <1>5, <2>1, RangeEmpty
<1>6. CASE req.op = "ifup"
  <2>1. now' = <<Cmd("checkRoot")>> /\ todo' = <<>>
    BY <1>1, <1>6 DEF Handler, qos_ifup_handle, Load
  <2>2. Range(now') = {Cmd("checkRoot")}
    <3>1. DOMAIN now' = {1} /\ now'[1] = Cmd("checkRoot")
      BY <2>1
    <3>. QED  BY <3>1 DEF Range
  <2>. QED  BY <1>6, <2>1, <2>2, RangeEmpty DEF Cmd
<1>7. CASE req.op \in {"reload", "time", "ipgroup"} /\ ~ready
  <2>1. now' = <<>> /\ todo' = <<>>
    BY <1>1, <1>7 DEF Handler, Finish, Load
  <2>. QED  BY <1>7, <2>1, RangeEmpty
<1>8. CASE req.op = "ipgroup" /\ ready
  <2>1. Finish \/ Load(<<>>, Each("regroup", list), qos_reset)
    BY <1>1, <1>8 DEF Handler, qos_ipgroup_handle, list
  <2>2. now' = <<>> /\ (todo' = <<>> \/ todo' = Each("regroup", list))
    BY <2>1 DEF Finish, Load
  <2>3. todo' # <<>> => Sorted(todo', "regroup", "regroup")
    BY <1>2, <2>2, OneLoop
  <2>4. <<"ipgroup", "regroup", "regroup">> \in Kinds
    BY DEF Kinds
  <2>5. todo' # <<>> => \E k \in Kinds : req.op = k[1] /\ Sorted(todo', k[2], k[3])
    BY <1>8, <2>3, <2>4
  <2>6. Range(now') = {} /\ \A x \in Range(todo') : x[1] = "regroup"
    BY <1>3, <2>2, RangeEmpty
  <2>. QED  BY <1>8, <2>5, <2>6
<1>9. CASE req.op = "time" /\ ready
  <2>1. PICK name \in {"activate", "expire"} :
          /\ Load(<<>>, Each(name, list), qos_reset)
          /\ name = "activate" => req.arg = "ACTIVE"
    BY <1>1, <1>9 DEF Handler, qos_time_handle, list
  <2>2. now' = <<>> /\ todo' = Each(name, list)
    BY <2>1 DEF Load
  <2>3. Sorted(todo', name, name)
    BY <1>2, <2>2, OneLoop
  <2>4. <<"time", name, name>> \in Kinds
    BY DEF Kinds
  <2>5. \E k \in Kinds : req.op = k[1] /\ Sorted(todo', k[2], k[3])
    BY <1>9, <2>3, <2>4
  <2>6. Range(now') = {} /\ Range(todo') = {<<name, r>> : r \in Range(list)}
    BY <1>3, <2>2, RangeEmpty
  <2>7. \A r : /\ <<"activate", r>> \in Range(todo') => r \in Range(list) /\ req.arg = "ACTIVE"
               /\ <<"delete", r>> \notin Range(todo')
    BY <2>1, <2>6
  <2>. QED  BY <1>9, <2>5, <2>6, <2>7 DEF list
<1>10. CASE req.op = "reload" /\ ready
  <2>1. qos_reload(req.arg, list)
    BY <1>1, <1>10 DEF Handler, list
  <2>2. now' = <<>> /\ Range(now') = {}
    BY <2>1, RangeEmpty DEF qos_reload, Load
  <2>3. CASE req.arg = "delete"
    <3>1. todo' = Each("delete", list)
      BY <2>1, <2>3 DEF qos_reload, Load
    <3>2. Sorted(todo', "delete", "delete")
      BY <1>2, <3>1, OneLoop
    <3>3. <<"reload", "delete", "delete">> \in Kinds
      BY DEF Kinds
    <3>4. \E k \in Kinds : req.op = k[1] /\ Sorted(todo', k[2], k[3])
      BY <1>10, <3>2, <3>3
    <3>5. Range(todo') = {<<"delete", r>> : r \in Range(list)}
      BY <1>3, <3>1
    <3>6. \A r : /\ <<"delete", r>> \in Range(todo') <=> r \in Range(list)
                 /\ <<"activate", r>> \notin Range(todo')
      BY <3>5
    <3>. QED  BY <1>10, <2>2, <2>3, <3>4, <3>6 DEF list
  <2>4. CASE req.arg = "add"
    <3>1. todo' = Each("newState", list) \o Each("parse", list)
      BY <2>1, <2>4 DEF qos_reload, Load
    <3>2. /\ Sorted(todo', "newState", "parse")
          /\ Range(todo') = {<<"newState", r>> : r \in Range(list)}
                               \union {<<"parse", r>> : r \in Range(list)}
      BY <1>2, <3>1, TwoLoops
    <3>3. <<"reload", "newState", "parse">> \in Kinds
      BY DEF Kinds
    <3>4. \E k \in Kinds : req.op = k[1] /\ Sorted(todo', k[2], k[3])
      BY <1>10, <3>2, <3>3
    <3>6. \A r : /\ r \in Range(list) => <<"newState", r>> \in Range(todo')
                 /\ <<"activate", r>> \notin Range(todo')
                 /\ <<"delete", r>> \notin Range(todo')
      BY <3>2
    <3>. QED  BY <1>10, <2>2, <2>4, <3>4, <3>6 DEF list
  <2>5. CASE req.arg = "update"
    <3>1. todo' = Each("uninstall", list) \o Each("update", list)
      BY <2>1, <2>5 DEF qos_reload, Load
    <3>2. /\ Sorted(todo', "uninstall", "update")
          /\ Range(todo') = {<<"uninstall", r>> : r \in Range(list)}
                               \union {<<"update", r>> : r \in Range(list)}
      BY <1>2, <3>1, TwoLoops
    <3>3. <<"reload", "uninstall", "update">> \in Kinds
      BY DEF Kinds
    <3>4. \E k \in Kinds : req.op = k[1] /\ Sorted(todo', k[2], k[3])
      BY <1>10, <3>2, <3>3
    <3>6. \A r : /\ r \in Range(list) => /\ <<"uninstall", r>> \in Range(todo')
                                         /\ <<"update", r>> \in Range(todo')
                 /\ <<"activate", r>> \notin Range(todo')
                 /\ <<"delete", r>> \notin Range(todo')
      BY <3>2
    <3>. QED  BY <1>10, <2>2, <2>5, <3>4, <3>6 DEF list
  <2>. QED  BY <1>2, <1>10, <2>3, <2>4, <2>5
<1>. QED  BY <1>2, <1>4, <1>5, <1>6, <1>7, <1>8, <1>9, <1>10 DEF Ops

\* The lock is taken: what waited for the handler is in its program.
LEMMA AcquireStep ==
    ASSUME CInv, DInv, NEW req \in waiting, Acquire(req)
    PROVE  DInv'
<1>0. ControlTypes /\ Shape
  BY DEF CInv
<1>1. /\ Fresh /\ OneReload /\ StopAsked /\ Loops /\ Blanked /\ Asks
      /\ Registered /\ Agree /\ NotTwice
      /\ ~stopFlag => Recorded /\ Enabled /\ Follows /\ Timely
  BY DEF DInv
<1>2. /\ Free /\ waiting' = waiting \ {req} /\ job' = [op |-> req.op, cfg |-> req.cfg]
      /\ UNCHANGED <<table, ready, stopFlag, state, nf, tree, timeobj, uci, killed>>
  BY DEF Acquire, files, outside
<1>3. /\ Done /\ job.op = "none" /\ now = <<>> /\ todo = <<>>
      /\ Range(now) = {} /\ Range(todo) = {}
      /\ \A name : ~At(name)
  BY <1>0, <1>2, FreeOp, RangeEmpty DEF ControlTypes, Done, At
<1>4. /\ Shape' /\ job'.op = req.op /\ job'.cfg = req.cfg /\ ~Free' /\ req.op \in Ops
      /\ req.op = "start" => At("setSpec")'
      /\ req.op = "stop" => At("unsetReady")'
      /\ req.op = "ifup" => At("checkRoot")'
      /\ req.op \in {"reload", "time", "ipgroup"} => Done' \/ (ready /\ Turn')
  <2>1. job' \in [op : Ops, cfg : Cfgs] /\ job'.op = req.op
    BY <1>0, AcquireFlow
  <2>2. req.op \in Ops
    BY <2>1
  <2>. QED  BY <1>0, <1>2, <2>1, <2>2, AcquireFlow
<1>5. /\ todo' # <<>> => \E k \in Kinds : req.op = k[1] /\ Sorted(todo', k[2], k[3])
      /\ \A x \in Range(now') : x[1] \in {"setSpec", "checkEnable", "genState", "checkRoot"}
      /\ req.op = "start" => \/ <<"genState", 0>> \in Range(now')
                             \/ \A r \in RuleIds : ~req.cfg[r].exists
      /\ req.op = "reload" /\ ready =>
           \A r \in Range(req.list) :
             /\ req.arg = "add" => <<"newState", r>> \in Range(todo')
             /\ req.arg = "delete" => <<"delete", r>> \in Range(todo')
             /\ req.arg = "update" => /\ <<"uninstall", r>> \in Range(todo')
                                      /\ <<"update", r>> \in Range(todo')
      /\ \A r : <<"delete", r>> \in Range(todo') =>
           req.op = "reload" /\ req.arg = "delete" /\ r \in Range(req.list)
      /\ \A r : <<"activate", r>> \in Range(todo') =>
           req.op = "time" /\ req.arg = "ACTIVE" /\ r \in Range(req.list)
  BY <1>0, Loaded
<1>6. \A name : name \in RuleNames \ {"newState"} => ~At(name)'
  BY <1>4 DEF At, Turn, RuleNames, LoopNames, Ops
<1>7. At("newState")' => now' = <<>>
  <2>1. ASSUME now' # <<>> PROVE Current' \in Range(now')
    <3>1. \E S : now' \in Seq(S)
      BY <1>4, <2>1 DEF Shape, NowShape, Chain
    <3>. QED  BY <2>1, <3>1, RangeTail DEF Current
  <2>. QED  BY <1>5, <2>1 DEF At
<1>8. /\ \A arg, r : Waits(arg, r)' => Waits(arg, r)
      /\ \A arg, r : Waits(arg, r) =>
           \/ Waits(arg, r)'
           \/ req.op = "reload" /\ req.arg = arg /\ r \in Range(req.list)
      /\ \A arg, r : req.op = "reload" /\ req.arg = arg /\ r \in Range(req.list) => Waits(arg, r)
  BY <1>2 DEF Waits
<1>9. ~ready => Blank
  BY <1>1, <1>3 DEF Blanked, AtRest
<1>10. Known' = Known /\ Installed' = Installed
  BY <1>2 DEF Known, Installed, table, vars
<1>11. Fresh'
  BY <1>1, <1>2, <1>4 DEF Fresh
<1>12. OneReload'
  BY <1>1, <1>2, <1>4 DEF OneReload
<1>13. StopAsked'
  BY <1>1, <1>2, <1>3, <1>4 DEF StopAsked, At
<1>14. Loops'
  BY <1>4, <1>5 DEF Loops
<1>15. Blanked'
  BY <1>2, <1>4, <1>9 DEF Blanked, Blank
<1>16. Asks'
  <2>1. \A r : <<"forget", r>> \notin Range(now')
    BY <1>5
  <2>2. \A r : Activates(r)' => Activates(r)
    BY <1>2, <1>3, <1>5 DEF Activates, ActiveWaits
  <2>. QED  BY <1>1, <1>2, <1>5, <1>8, <2>1, <2>2 DEF Asks
<1>17. Registered'
  <2>1. timeobj \subseteq RuleIds
    BY <1>0, ControlAssumption DEF ControlTypes
  <2>2. ASSUME NEW r \in timeobj
        PROVE  /\ ready
               /\ uci[r].exists => uci[r].on \/ Waits("update", r)
               /\ stopFlag \/ uci[r].exists \/ Waits("delete", r)
    BY <1>1, <1>3, <1>9, <2>2 DEF Registered, Blank
  <2>. QED  BY <1>2, <1>5, <1>8, <2>2 DEF Registered
<1>18. Agree'
  <2>1. Installed = Known
    BY <1>1, <1>3 DEF Agree
  <2>2. ~At("nfAdd")' /\ ~At("setInstall")' /\ ~At("ruleDel")' /\ ~At("forget")'
    BY <1>6 DEF RuleNames
  <2>. QED  BY <1>10, <2>1, <2>2 DEF Agree
<1>19. NotTwice'
  BY <1>1, <1>2 DEF NotTwice
<1>20. ASSUME ~stopFlag PROVE Recorded' /\ Enabled' /\ Follows' /\ Timely'
  <2>1. Recorded /\ Enabled /\ Follows /\ Timely
    BY <1>1, <1>20
  <2>2. ~AtInstall' /\ ~AtUninstall' /\ ~At("install")' /\ ~At("nfDel")' /\ ~At("unsetInstall")'
    BY <1>6 DEF AtInstall, AtUninstall, RuleNames
  <2>3. \A r \in RuleIds : state[r].install => ready /\ state[r].enable = "on"
    <3>1. \A r \in RuleIds : state[r].install => state[r].enable = "on"
      BY <1>3, <2>1 DEF Recorded
    <3>2. ASSUME ~ready, NEW r \in RuleIds PROVE ~state[r].install
      <4>1. state = [q \in RuleIds |-> NoState]
        BY <1>9, <3>2 DEF Blank
      <4>. QED  BY <4>1 DEF NoState
    <3>. QED  BY <3>1, <3>2
  <2>4. Recorded'
    BY <1>2, <2>2, <2>3 DEF Recorded
  <2>5. Enabled'
    <3>1. ASSUME NEW r \in RuleIds, state[r].install
          PROVE  uci[r].on \/ Leaves(r)' \/ <<"uninstall", r>> \in Range(todo')
                    \/ <<"delete", r>> \in Range(todo')
      <4>1. uci[r].on \/ Leaves(r)
        BY <1>3, <2>1, <3>1 DEF Enabled
      <4>2. ready
        BY <2>3, <3>1
      <4>. QED  BY <1>5, <1>8, <4>1, <4>2 DEF Leaves
    <3>. QED  BY <1>2, <1>7, <2>2, <3>1 DEF Enabled
  <2>6. Follows'
    <3>1. ASSUME NEW r \in RuleIds, ready, uci[r].on
          PROVE  \/ state[r].enable = "on" \/ Waits("add", r)' \/ Waits("update", r)'
                 \/ <<"newState", r>> \in Range(todo')
                 \/ <<"update", r>> \in Range(todo')
      <4>1. state[r].enable = "on" \/ Waits("add", r) \/ Waits("update", r)
        BY <1>3, <2>1, <3>1 DEF Follows
      <4>. QED  BY <1>5, <1>8, <3>1, <4>1
    <3>2. req.op = "start" => \/ <<"genState", 0>> \in Range(now')
                              \/ \A r \in RuleIds : ~uci[r].on
      <4>1. req.cfg = uci
        BY <1>1 DEF Fresh
      <4>. QED  BY <1>0, <1>5, <4>1, OnExists
    <3>. QED  BY <1>2, <1>4, <3>1, <3>2 DEF Follows
  <2>7. Timely'
    <3>1. \A r : Activates(r)' => Activates(r)
      BY <1>2, <1>3, <1>5 DEF Activates, ActiveWaits
    <3>2. \A r : <<"newState", r>> \notin Range(now')
      BY <1>5
    <3>3. /\ \A r \in timeobj : state[r].enable = "on"
          /\ \A r \in RuleIds : ready /\ Activates(r) /\ uci[r].exists => state[r].enable = "on"
      BY <1>3, <2>1 DEF Timely, RecordComes
    <3>. QED  BY <1>2, <3>1, <3>2, <3>3 DEF Timely, RecordComes
  <2>. QED  BY <2>4, <2>5, <2>6, <2>7
<1>. QED
  BY <1>2, <1>11, <1>12, <1>13, <1>14, <1>15, <1>16, <1>17, <1>18, <1>19, <1>20 DEF DInv

\* The lock is released: the program is run.
LEMMA UnlockStep ==
    ASSUME CInv, RInv, DInv, Unlock
    PROVE  DInv'
<1>0. ControlTypes
  BY DEF CInv
<1>1. /\ Fresh /\ OneReload /\ StopAsked /\ Loops /\ Blanked /\ Asks
      /\ Registered /\ Agree /\ NotTwice
      /\ ~stopFlag => Recorded /\ Enabled /\ Follows /\ Timely
  BY DEF DInv
<1>2. /\ Done /\ job' = NoJob /\ job'.op = "none" /\ Free'
      /\ UNCHANGED <<table, ready, stopFlag, state, nf, tree, timeobj, uci, waiting,
                     now, todo, last>>
  BY CfgTypes DEF Unlock, files, outside, prog, Free
<1>3. /\ Done' /\ now = <<>> /\ todo = <<>>
      /\ Range(now) = {} /\ Range(todo) = {}
      /\ \A name : ~At(name) /\ ~At(name)'
  BY <1>2, RangeEmpty DEF Done, At
<1>4. \A arg, r : Waits(arg, r)' <=> Waits(arg, r)
  BY <1>2 DEF Waits
<1>5. Installed' = Known'
  <2>1. Installed = Known
    <3>1. CASE job.op = "stop"
      BY <1>2, <1>3, <3>1 DEF RInv, Stopping
    <3>2. CASE job.op # "stop"
      BY <1>1, <1>3, <3>2 DEF Agree
    <3>. QED  BY <3>1, <3>2
  <2>. QED  BY <1>2, <2>1 DEF Known, Installed, table, vars
<1>6. Fresh' /\ OneReload' /\ StopAsked' /\ Loops'
  <2>1. Fresh'
    BY <1>1, <1>2 DEF Fresh
  <2>2. OneReload'
    BY <1>1, <1>2 DEF OneReload
  <2>3. StopAsked'
    BY <1>1, <1>2 DEF StopAsked
  <2>4. Loops'
    BY <1>2, <1>3 DEF Loops
  <2>. QED  BY <2>1, <2>2, <2>3, <2>4
<1>7. Blanked'
  BY <1>1, <1>2, <1>3 DEF Blanked, Blank, AtRest
<1>8. Asks' /\ Registered'
  <2>1. Asks'
    BY <1>1, <1>2, <1>4 DEF Asks, Activates, ActiveWaits
  <2>2. Registered'
    BY <1>1, <1>2, <1>3, <1>4 DEF Registered
  <2>. QED  BY <2>1, <2>2
<1>9. Agree' /\ NotTwice'
  BY <1>1, <1>2, <1>3, <1>5 DEF Agree, NotTwice
<1>10. ASSUME ~stopFlag PROVE Recorded' /\ Enabled' /\ Follows' /\ Timely'
  <2>1. Recorded /\ Enabled /\ Follows /\ Timely
    BY <1>1, <1>10
  <2>2. Recorded'
    BY <1>2, <1>3, <2>1 DEF Recorded, AtInstall, AtUninstall
  <2>3. Enabled'
    BY <1>2, <1>3, <1>4, <2>1 DEF Enabled, Leaves, AtInstall, AtUninstall
  <2>4. Follows'
    BY <1>2, <1>3, <1>4, <2>1 DEF Follows
  <2>5. Timely'
    BY <1>2, <2>1 DEF Timely, RecordComes, Activates, ActiveWaits
  <2>. QED  BY <2>2, <2>3, <2>4, <2>5
<1>. QED  BY <1>2, <1>6, <1>7, <1>8, <1>9, <1>10 DEF DInv

\* Packets and connections leave the rules alone.
LEMMA QuietStep ==
    ASSUME DInv, UNCHANGED <<files, outside, uci, waiting, job, prog>>, Known' = Known
    PROVE  DInv'
<1>1. UNCHANGED <<ready, stopFlag, state, timeobj, uci, waiting, job, now, todo, last>>
  BY DEF files, outside, prog
<1>2. Done' = Done /\ Current' = Current /\ Rule' = Rule /\ Free' = Free /\ Installed' = Installed
  BY <1>1, SameProgram DEF Rule, Free, prog, Installed
<1>3. \A name : At(name)' <=> At(name)
  BY <1>2 DEF At
<1>4. /\ \A arg, r : Waits(arg, r)' <=> Waits(arg, r)
      /\ Leaves(Rule)' <=> Leaves(Rule)
  BY <1>1, <1>2 DEF Waits, Leaves
<1>5. /\ Fresh => Fresh'
      /\ OneReload => OneReload'
      /\ StopAsked => StopAsked'
      /\ Loops => Loops'
      /\ NotTwice => NotTwice'
  BY <1>1, <1>2, <1>3 DEF Fresh, OneReload, StopAsked, Loops, NotTwice
<1>6. Blanked => Blanked'
  BY <1>1, <1>2, <1>3 DEF Blanked, Blank, AtRest
<1>7. /\ Asks => Asks'
      /\ Timely => Timely'
  BY <1>1, <1>4 DEF Asks, Timely, RecordComes, Activates, ActiveWaits
<1>8. Registered => Registered'
  BY <1>1, <1>4 DEF Registered
<1>9. Agree => Agree'
  BY <1>1, <1>2, <1>3 DEF Agree
<1>10. Recorded => Recorded'
  BY <1>1, <1>2, <1>3 DEF Recorded, AtInstall, AtUninstall
<1>11. Enabled => Enabled'
  BY <1>1, <1>2, <1>3, <1>4 DEF Enabled, Leaves, AtInstall, AtUninstall
<1>12. Follows => Follows'
  BY <1>1, <1>2, <1>4 DEF Follows
<1>. QED  BY <1>1, <1>5, <1>6, <1>7, <1>8, <1>9, <1>10, <1>11, <1>12 DEF DInv

LEMMA DInvStep ==
    ASSUME ~Overlap, ~LateReports, ~MayKill, CInv, TypeOK, RInv, KInv, DInv, [ControlNext]_controlVars
    PROVE  DInv'
<1>1. CASE Submit
  BY <1>1, SubmitStep
<1>2. ASSUME NEW req \in waiting, Acquire(req) PROVE DInv'
  BY <1>2, AcquireStep
<1>3. CASE Step
  BY <1>3, CommandStep
<1>4. CASE Unlock
  BY <1>4, UnlockStep
<1>5. CASE Traffic
  BY <1>5, TrafficKeeps, QuietStep DEF CInv
<1>6. CASE UNCHANGED controlVars
  <2>1. UNCHANGED <<table, files, outside, uci, waiting, job, prog>>
    BY <1>6 DEF controlVars
  <2>2. Known' = Known
    BY <2>1 DEF Known, table, vars
  <2>. QED  BY <2>1, <2>2, QuietStep
<1>. QED
  BY <1>1, <1>2, <1>3, <1>4, <1>5, <1>6 DEF ControlNext, ControlHalted, KillPolling

LEMMA DInvInit == ControlInit => DInv
<1>. SUFFICES ASSUME ControlInit PROVE DInv
  OBVIOUS
<1>1. /\ Done /\ ~ready /\ ~stopFlag /\ waiting = {} /\ Free /\ job.op = "none"
      /\ state = [r \in RuleIds |-> NoState] /\ timeobj = {}
  BY CfgTypes DEF ControlInit, Free
<1>2. /\ Range(now) = {} /\ Range(todo) = {} /\ todo = <<>>
      /\ \A name : ~At(name)
      /\ \A arg, r : ~Waits(arg, r)
  BY <1>1, RangeEmpty DEF Done, At, Waits
<1>3. Blank
  BY <1>1 DEF Blank
<1>4. \A r \in RuleIds : state[r].install = FALSE /\ state[r].enable = ""
  BY <1>1 DEF NoState
<1>5. Installed = {} /\ Known = {}
  BY <1>4 DEF Installed, Known, ControlInit, Init, ZeroRule
<1>6. Fresh /\ OneReload /\ StopAsked /\ Loops
  BY <1>1, <1>2 DEF Fresh, OneReload, StopAsked, Loops
<1>7. Blanked /\ Asks /\ Registered
  BY <1>1, <1>2, <1>3 DEF Blanked, Asks, Registered, Activates, ActiveWaits
<1>8. Agree /\ NotTwice
  BY <1>2, <1>4, <1>5 DEF Agree, NotTwice
<1>. QED  BY <1>1, <1>3, <1>6, <1>7, <1>8, Afresh DEF DInv

\* Under these conditions DInv holds beside the invariants it is carried by:
\* what a start, a stop, a reload, a regrouping or a report of the time manager
\* has still to do accounts for every difference between UCI, state.data and
\* the kernel.
THEOREM AgreementHolds ==
    StartsOnce /\ ~Overlap /\ ~LateReports /\ ~MayKill => (ControlSpec => [](CInv /\ KInv /\ DInv))
<1>. SUFFICES ASSUME StartsOnce, ~Overlap, ~LateReports, ~MayKill
              PROVE  ControlSpec => [](CInv /\ KInv /\ DInv)
  OBVIOUS
<1>1. CInv /\ TypeOK /\ RInv /\ KInv /\ [ControlNext]_controlVars => KInv'
  BY KInvStep
<1>2. CInv /\ TypeOK /\ RInv /\ KInv /\ DInv /\ [ControlNext]_controlVars => DInv'
  BY DInvStep
<1>. QED
  BY <1>1, <1>2, KInvInit, DInvInit, RestHolds, ControlImplementsTable, TypeCorrect, PTL
     DEF ControlSpec

\* As long as QoS is started only while it is not running, UCI is written
\* only while no other request is under way, no rule just disabled is reported
\* as active and no handler is killed: when
\* flock -u releases the lock of QoS that is ready, state.data and the kernel
\* have the same rules, and iptables has no other, whatever was started,
\* stopped, reloaded, regrouped or reported by the time manager before, and
\* whichever turns of its loops a handler left out.
THEOREM RulesAgreeHolds ==
    StartsOnce /\ ~Overlap /\ ~LateReports /\ ~MayKill => (ControlSpec => []RulesAgree)
<1>. SUFFICES ASSUME StartsOnce, ~Overlap, ~LateReports, ~MayKill
              PROVE  ControlSpec => []RulesAgree
  OBVIOUS
<1>1. ASSUME CInv, KInv, DInv PROVE RulesAgree
  <2>1. Free => Done /\ job.op = "none"
    BY <1>1, FreeOp DEF CInv, ControlTypes
  <2>2. Free => Installed = Known
    BY <1>1, <2>1 DEF DInv, Agree, At
  <2>3. InChain \subseteq Known
    BY <1>1 DEF KInv, ChainKnown
  <2>. QED  BY <2>2, <2>3 DEF RulesAgree
<1>2. CInv /\ KInv /\ DInv => RulesAgree
  BY <1>1
<1>. QED  BY <1>2, AgreementHolds, PTL

\* Under the same conditions main.sh's `rule should be to install - if rule
\* is enable' holds: once all requests are served, every installed rule is
\* enabled in UCI, whenever the time manager reported its rules: before a
\* reload, while one waits or while it runs.  With UCI written under way (the
\* run control_overlap) or with a rule reported as active that was disabled
\* before (control_late_report) a rule stays installed that is not.
THEOREM InstalledAreEnabledHolds ==
    StartsOnce /\ ~Overlap /\ ~LateReports /\ ~MayKill => (ControlSpec => []InstalledAreEnabled)
<1>. SUFFICES ASSUME StartsOnce, ~Overlap, ~LateReports, ~MayKill
              PROVE  ControlSpec => []InstalledAreEnabled
  OBVIOUS
<1>1. ASSUME CInv, DInv, Free, waiting = {}, NEW r \in Installed PROVE uci[r].on
  <2>1. Done /\ job.op = "none" /\ r \in RuleIds /\ state[r].install
    BY <1>1, FreeOp DEF CInv, ControlTypes, Installed
  <2>2. Range(todo) = {} /\ \A arg, q : ~Waits(arg, q)
    BY <1>1, <2>1, RangeEmpty DEF Done, Waits
  <2>3. ~stopFlag
    BY <1>1, <2>1 DEF DInv, StopAsked
  <2>. QED  BY <1>1, <2>1, <2>2, <2>3 DEF DInv, Enabled, Leaves
<1>2. CInv /\ KInv /\ DInv => InstalledAreEnabled
  BY <1>1 DEF InstalledAreEnabled
<1>. QED  BY <1>2, AgreementHolds, PTL

=============================================================================
