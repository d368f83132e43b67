-------------------------- MODULE QosControlProofs --------------------------
(***************************************************************************)
(* Theorems about QosControl, for every number of rules, addresses and     *)
(* waiting requests, whatever the traffic between the commands.            *)
(***************************************************************************)
EXTENDS QosControl, QMarkTableProofs, SequenceTheorems

-----------------------------------------------------------------------------
(* The control flow.  A slot of the handler's program is a chain of        *)
(* commands, each followed by one of its successors, on the same rule;     *)
(* "end" stands for the end of the chain.                                  *)

LoopOps == {"start", "reload", "time", "ipgroup"}
LoopNames == {"parse", "activate", "expire", "regroup", "uninstall", "delete",
              "update", "newState"}

PreludeFlow == {<<"setSpec", "checkEnable">>, <<"checkEnable", "genState">>,
                <<"checkEnable", "end">>, <<"genState", "end">>}
CheckFlow == {<<"checkRoot", "end">>}
RuleFlow == {<<"ruleAdd", "nfAdd">>, <<"nfAdd", "setInstall">>,
             <<"setInstall", "end">>, <<"setInstall", "newState">>,
             <<"newState", "end">>,
             <<"nfDel", "unsetInstall">>, <<"unsetInstall", "ruleDel">>,
             <<"ruleDel", "end">>, <<"ruleDel", "install">>,
             <<"ruleDel", "forget">>, <<"install", "end">>,
             <<"forget", "end">>}
HandlerFlow == {<<"resetBegin", "resetFlush">>, <<"resetFlush", "tcDestroy">>,
                <<"tcDestroy", "tcInit">>, <<"tcInit", "resetEnd">>,
                <<"resetEnd", "end">>}
StartFlow == {<<"resetBegin", "resetFlush">>, <<"resetFlush", "tcDestroy">>,
              <<"tcDestroy", "tcInit">>, <<"tcInit", "resetEnd">>,
              <<"resetEnd", "setReady">>, <<"setReady", "end">>}
StopFlow == {<<"unsetReady", "clearState">>, <<"clearState", "nfDestroy">>,
             <<"nfDestroy", "resetBegin">>, <<"resetBegin", "resetFlush">>,
             <<"resetFlush", "tcDestroy">>, <<"tcDestroy", "flushRules">>,
             <<"flushRules", "unsetStop">>, <<"unsetStop", "end">>}
LastFlow == CASE job.op = "stop"  -> StopFlow
              [] job.op = "start" -> StartFlow
              [] OTHER            -> HandlerFlow

Chain(s, flow, rules) ==
    /\ s \in Seq(Names \X rules)
    /\ \A i \in 1..Len(s) :
        /\ i = Len(s) => <<s[i][1], "end">> \in flow
        /\ i < Len(s) => <<s[i][1], s[i + 1][1]>> \in flow /\ s[i + 1][2] = s[i][2]

NowShape ==
    \/ now = <<>>
    \/ job.op = "start" /\ Chain(now, PreludeFlow, {0})
    \/ job.op = "ifup" /\ Chain(now, CheckFlow, {0})
    \/ job.op \in LoopOps /\ Chain(now, RuleFlow, RuleIds)

Shape ==
    /\ NowShape
    /\ todo \in Seq(LoopNames \X RuleIds)
    /\ todo # <<>> => job.op \in LoopOps
    /\ Chain(last, LastFlow, {0})
    /\ now # <<>> \/ todo # <<>> => last # <<>> /\ Head(last)[1] = "resetBegin"
    /\ ~Done => job.op \in Ops

\* The handler is between two turns of its loop, or at the end of the loop.
Turn == ~Done /\ Current[1] \in LoopNames \union {"resetBegin"}

\* A chain that is run by one command is a chain.
LEMMA ChainTail ==
    ASSUME NEW s, NEW flow, NEW rules, Chain(s, flow, rules), s # <<>>
    PROVE  /\ Chain(Tail(s), flow, rules)
           /\ Head(s)[1] \in Names /\ Head(s)[2] \in rules
           /\ Tail(s) = <<>> => <<Head(s)[1], "end">> \in flow
           /\ Tail(s) # <<>> => /\ <<Head(s)[1], Head(Tail(s))[1]>> \in flow
                                /\ Head(Tail(s))[2] = Head(s)[2]
<1>. DEFINE t == Tail(s)
<1>1. /\ s \in Seq(Names \X rules)
      /\ t \in Seq(Names \X rules)
      /\ Head(s) \in Names \X rules
      /\ Head(s) = s[1]
      /\ Len(s) \in Nat \ {0}
      /\ Len(t) = Len(s) - 1
      /\ \A i \in 1..Len(t) : t[i] = s[i + 1]
  BY HeadTailProperties, EmptySeq DEF Chain
<1>2. t = <<>> => Len(t) = 0
  BY EmptySeq
<1>3. t # <<>> => Len(t) \in Nat \ {0} /\ Head(t) = t[1]
  BY <1>1, EmptySeq
<1>. HIDE DEF t
<1>4. \A i \in 1..Len(t) :
        /\ i = Len(t) => <<t[i][1], "end">> \in flow
        /\ i < Len(t) => <<t[i][1], t[i + 1][1]>> \in flow /\ t[i + 1][2] = t[i][2]
  <2>. SUFFICES ASSUME NEW i \in 1..Len(t)
                PROVE  /\ i = Len(t) => <<t[i][1], "end">> \in flow
                       /\ i < Len(t) => /\ <<t[i][1], t[i + 1][1]>> \in flow
                                        /\ t[i + 1][2] = t[i][2]
    OBVIOUS
  <2>1. i \in Nat /\ i + 1 \in 1..Len(s) /\ t[i] = s[i + 1]
    BY <1>1
  <2>2. i < Len(t) => i + 1 \in 1..Len(t) /\ t[i + 1] = s[i + 2]
    BY <1>1, <2>1
  <2>3. /\ i + 1 = Len(s) => <<s[i + 1][1], "end">> \in flow
        /\ i + 1 < Len(s) => /\ <<s[i + 1][1], s[(i + 1) + 1][1]>> \in flow
                             /\ s[(i + 1) + 1][2] = s[i + 1][2]
    BY <2>1 DEF Chain
  <2>4. (i + 1) + 1 = i + 2
    BY <2>1
  <2>5. (i = Len(t) => i + 1 = Len(s)) /\ (i < Len(t) => i + 1 < Len(s))
    BY <1>1, <2>1
  <2>6. ASSUME i < Len(t) PROVE <<t[i][1], t[i + 1][1]>> \in flow /\ t[i + 1][2] = t[i][2]
    BY <2>1, <2>2, <2>3, <2>4, <2>5, <2>6
  <2>7. ASSUME i = Len(t) PROVE <<t[i][1], "end">> \in flow
    BY <2>1, <2>3, <2>5, <2>7
  <2>. QED  BY <2>6, <2>7
<1>5. 1 \in 1..Len(s)
  BY <1>1
<1>6. /\ 1 = Len(s) => <<s[1][1], "end">> \in flow
      /\ 1 < Len(s) => <<s[1][1], s[1 + 1][1]>> \in flow /\ s[1 + 1][2] = s[1][2]
  BY <1>5 DEF Chain
<1>7. t = <<>> => <<Head(s)[1], "end">> \in flow
  BY <1>1, <1>2, <1>6
<1>8. t # <<>> => Head(t) = s[1 + 1] /\ 1 < Len(s)
  BY <1>1, <1>3
<1>9. Head(s)[1] \in Names /\ Head(s)[2] \in rules
  BY <1>1
<1>. QED  BY <1>1, <1>4, <1>6, <1>7, <1>8, <1>9 DEF t, Chain

\* Where Proceed leads: on along the chain, to the next turn of the loop, or
\* to the end of the program.
LEMMA ProceedFlow ==
    ASSUME Shape, ~Done, Proceed, UNCHANGED job
    PROVE  /\ Shape'
           /\ \/ /\ now # <<>> /\ ~Done'
                 /\ Rule' = Rule
                 /\ \E flow \in {PreludeFlow, CheckFlow, RuleFlow} :
                       <<Current[1], Current'[1]>> \in flow
              \/ /\ now # <<>> /\ Turn'
                 /\ \E flow \in {PreludeFlow, CheckFlow, RuleFlow} :
                       <<Current[1], "end">> \in flow
              \/ /\ now = <<>> /\ todo # <<>> /\ Turn'
                 /\ Current[1] \in LoopNames
              \/ /\ now = <<>> /\ todo = <<>> /\ now' = <<>> /\ todo' = <<>>
                 /\ ~Done' => <<Current[1], Current'[1]>> \in LastFlow
                 /\ Done' => <<Current[1], "end">> \in LastFlow
<1>1. CASE now # <<>>
  <2>1. now' = Tail(now) /\ todo' = todo /\ last' = last
    BY <1>1 DEF Proceed, Load
  <2>2. PICK flow \in {PreludeFlow, CheckFlow, RuleFlow}, rules \in {{0}, RuleIds} :
            /\ Chain(now, flow, rules)
            /\ \/ flow = PreludeFlow /\ job.op = "start" /\ rules = {0}
               \/ flow = CheckFlow /\ job.op = "ifup" /\ rules = {0}
               \/ flow = RuleFlow /\ job.op \in LoopOps /\ rules = RuleIds
    BY <1>1 DEF Shape, NowShape
  <2>3. /\ Chain(now', flow, rules)
        /\ now' = <<>> => <<Head(now)[1], "end">> \in flow
        /\ now' # <<>> => <<Head(now)[1], Head(now')[1]>> \in flow
                          /\ Head(now')[2] = Head(now)[2]
    BY <1>1, <2>1, <2>2, ChainTail
  <2>4. NowShape'
    BY <2>2, <2>3 DEF NowShape
  <2>5. LastFlow' = LastFlow
    BY DEF LastFlow
  <2>6. Shape'
    BY <1>1, <2>1, <2>4, <2>5 DEF Shape, Done
  <2>7. CASE now' # <<>>
    BY <1>1, <2>3, <2>6, <2>7 DEF Current, Rule, Done
  <2>8. CASE now' = <<>>
    <3>1. Turn'
      <4>1. CASE todo # <<>>
        <5>1. Head(todo) \in LoopNames \X RuleIds
          BY <4>1, HeadTailProperties DEF Shape
        <5>. QED  BY <2>1, <2>8, <4>1, <5>1 DEF Turn, Current, Done
      <4>2. CASE todo = <<>>
        BY <1>1, <2>1, <2>8, <4>2 DEF Turn, Current, Done, Shape
      <4>. QED  BY <4>1, <4>2
    <3>. QED  BY <1>1, <2>3, <2>6, <2>8, <3>1 DEF Current
  <2>. QED  BY <2>7, <2>8
<1>2. CASE now = <<>> /\ todo # <<>>
  <2>1. now' = now /\ todo' = Tail(todo) /\ last' = last
    BY <1>2 DEF Proceed, Load
  <2>2. Head(todo) \in LoopNames \X RuleIds /\ todo' \in Seq(LoopNames \X RuleIds)
    BY <1>2, <2>1, HeadTailProperties DEF Shape
  <2>3. LastFlow' = LastFlow
    BY DEF LastFlow
  <2>4. Shape'
    BY <1>2, <2>1, <2>2, <2>3 DEF Shape, NowShape, Done
  <2>5. Turn'
    <3>1. CASE todo' # <<>>
      <4>1. Head(todo') \in LoopNames \X RuleIds
        BY <2>2, <3>1, HeadTailProperties
      <4>. QED  BY <1>2, <2>1, <3>1, <4>1 DEF Turn, Current, Done
    <3>2. CASE todo' = <<>>
      BY <1>2, <2>1, <3>2 DEF Turn, Current, Done, Shape
    <3>. QED  BY <3>1, <3>2
  <2>. QED  BY <1>2, <2>2, <2>4, <2>5 DEF Current
<1>3. CASE now = <<>> /\ todo = <<>>
  <2>1. now' = now /\ todo' = todo /\ last' = Tail(last) /\ last # <<>>
    BY <1>3 DEF Proceed, Load, Done
  <2>2. /\ Chain(last', LastFlow, {0})
        /\ last' = <<>> => <<Head(last)[1], "end">> \in LastFlow
        /\ last' # <<>> => <<Head(last)[1], Head(last')[1]>> \in LastFlow
    BY <2>1, ChainTail DEF Shape
  <2>3. LastFlow' = LastFlow
    BY DEF LastFlow
  <2>4. Shape'
    BY <1>3, <2>1, <2>2, <2>3 DEF Shape, NowShape, Done
  <2>. QED  BY <1>3, <2>1, <2>2, <2>4 DEF Current, Done
<1>. QED  BY <1>1, <1>2, <1>3

RuleNames == {"ruleAdd", "nfAdd", "setInstall", "newState", "nfDel", "unsetInstall",
              "ruleDel", "install", "forget"}
ResetNames == {"resetBegin", "resetFlush", "tcDestroy", "tcInit", "resetEnd"}
StopNames == {"unsetReady", "clearState", "nfDestroy", "resetBegin", "resetFlush",
              "tcDestroy", "flushRules", "unsetStop"}

\* Which handler runs a command, from which slot and on what.
InPlace ==
    \/ /\ now # <<>> /\ job.op = "start"
       /\ Current[1] \in {"setSpec", "checkEnable", "genState"}
    \/ /\ now # <<>> /\ job.op = "ifup"
       /\ Current[1] = "checkRoot"
    \/ /\ now # <<>> /\ job.op \in LoopOps
       /\ Current[1] \in RuleNames /\ Rule \in RuleIds
    \/ /\ now = <<>> /\ todo # <<>> /\ job.op \in LoopOps
       /\ Current[1] \in LoopNames /\ Rule \in RuleIds
    \/ /\ now = <<>> /\ todo = <<>> /\ job.op = "stop"
       /\ Current[1] \in StopNames
    \/ /\ now = <<>> /\ todo = <<>> /\ job.op = "start"
       /\ Current[1] \in ResetNames \union {"setReady"}
    \/ /\ now = <<>> /\ todo = <<>> /\ job.op \in Ops \ {"start", "stop"}
       /\ Current[1] \in ResetNames

LEMMA Place == Shape /\ ~Done => InPlace
<1>. SUFFICES ASSUME Shape, ~Done PROVE InPlace
  OBVIOUS
<1>. USE DEF InPlace
<1>1. CASE now # <<>>
  <2>1. PICK flow \in {PreludeFlow, CheckFlow, RuleFlow}, rules \in {{0}, RuleIds} :
            /\ Chain(now, flow, rules)
            /\ \/ flow = PreludeFlow /\ job.op = "start" /\ rules = {0}
               \/ flow = CheckFlow /\ job.op = "ifup" /\ rules = {0}
               \/ flow = RuleFlow /\ job.op \in LoopOps /\ rules = RuleIds
    BY <1>1 DEF Shape, NowShape
  <2>2. /\ Head(now)[2] \in rules
        /\ \E x : <<Head(now)[1], x>> \in flow
    BY <1>1, <2>1, ChainTail
  <2>3. CASE flow = PreludeFlow
    BY <1>1, <2>1, <2>2, <2>3 DEF PreludeFlow, CheckFlow, RuleFlow, Current
  <2>4. CASE flow = CheckFlow
    BY <1>1, <2>1, <2>2, <2>4 DEF PreludeFlow, CheckFlow, RuleFlow, Current
  <2>5. CASE flow = RuleFlow
    BY <1>1, <2>1, <2>2, <2>5
       DEF PreludeFlow, CheckFlow, RuleFlow, Current, Rule, RuleNames
  <2>. QED  BY <2>3, <2>4, <2>5
<1>2. CASE now = <<>> /\ todo # <<>>
  <2>1. Head(todo) \in LoopNames \X RuleIds
    BY <1>2, HeadTailProperties DEF Shape
  <2>. QED  BY <1>2, <2>1 DEF Shape, Current, Rule
<1>3. CASE now = <<>> /\ todo = <<>>
  <2>1. last # <<>> /\ Current = Head(last)
    BY <1>3 DEF Done, Current
  <2>2. \E x : <<Current[1], x>> \in LastFlow
    BY <2>1, ChainTail DEF Shape
  <2>3. CASE job.op = "stop"
    BY <1>3, <2>2, <2>3 DEF LastFlow, StopFlow, StopNames
  <2>4. CASE job.op = "start"
    BY <1>3, <2>2, <2>4 DEF LastFlow, StartFlow, ResetNames
  <2>5. CASE job.op \notin {"start", "stop"}
    BY <1>3, <2>2, <2>5 DEF LastFlow, HandlerFlow, ResetNames, Shape
  <2>. QED  BY <2>3, <2>4, <2>5
<1>. QED  BY <1>1, <1>2, <1>3

LEMMA PlaceNext == Shape' /\ ~Done' => InPlace'
BY Place, PTL

\* The successors of the commands.
LEMMA After ==
    ASSUME Shape, ~Done, Proceed, UNCHANGED job
    PROVE  /\ Shape'
           /\ At("setSpec") => At("checkEnable")'
           /\ At("checkEnable") => At("genState")' \/ Turn'
           /\ At("genState") => Turn'
           /\ At("checkRoot") => Turn' 
           /\ At("ruleAdd") => At("nfAdd")' /\ Rule' = Rule
           /\ At("nfAdd") => At("setInstall")' /\ Rule' = Rule
           /\ At("setInstall") => Turn'
           /\ At("newState") => Turn'
           /\ At("nfDel") => At("unsetInstall")' /\ Rule' = Rule
           /\ At("unsetInstall") => At("ruleDel")' /\ Rule' = Rule
           /\ At("ruleDel") => \/ Turn'
                               \/ (At("install")' \/ At("forget")') /\ Rule' = Rule
           /\ At("install") => Turn'
           /\ At("forget") => Turn'
           /\ Current[1] \in LoopNames => Turn'
           /\ At("unsetReady") => At("clearState")'
           /\ At("clearState") => At("nfDestroy")'
           /\ At("nfDestroy") => At("resetBegin")'
           /\ At("resetBegin") => At("resetFlush")'
           /\ At("resetFlush") => At("tcDestroy")'
           /\ At("tcDestroy") => IF job.op = "stop" THEN At("flushRules")'
                                                    ELSE At("tcInit")'
           /\ At("flushRules") => At("unsetStop")'
           /\ At("unsetStop") => Done'
           /\ At("tcInit") => At("resetEnd")'
           /\ At("resetEnd") => IF job.op = "start" THEN At("setReady")' ELSE Done'
           /\ At("setReady") => Done'
<1>1. CASE now # <<>>
  <2>1. /\ Shape'
        /\ Current[1] \in {"setSpec", "checkEnable", "genState", "checkRoot"} \union RuleNames
        /\ \/ /\ ~Done' /\ Rule' = Rule
              /\ <<Current[1], Current'[1]>> \in PreludeFlow \union CheckFlow \union RuleFlow
           \/ Turn' /\ <<Current[1], "end">> \in PreludeFlow \union CheckFlow \union RuleFlow
    BY <1>1, ProceedFlow, Place DEF InPlace
  <2>2. CASE ~Done' /\ Rule' = Rule
             /\ <<Current[1], Current'[1]>> \in PreludeFlow \union CheckFlow \union RuleFlow
    <3>1. \/ Current[1] = "setSpec" /\ Current'[1] = "checkEnable"
          \/ Current[1] = "checkEnable" /\ Current'[1] \in {"genState", "end"}
          \/ Current[1] = "genState" /\ Current'[1] = "end"
          \/ Current[1] = "checkRoot" /\ Current'[1] = "end"
          \/ Current[1] = "ruleAdd" /\ Current'[1] = "nfAdd"
          \/ Current[1] = "nfAdd" /\ Current'[1] = "setInstall"
          \/ Current[1] = "setInstall" /\ Current'[1] \in {"newState", "end"}
          \/ Current[1] \in {"newState", "install", "forget"} /\ Current'[1] = "end"
          \/ Current[1] = "nfDel" /\ Current'[1] = "unsetInstall"
          \/ Current[1] = "unsetInstall" /\ Current'[1] = "ruleDel"
          \/ Current[1] = "ruleDel" /\ Current'[1] \in {"install", "forget", "end"}
      BY <2>2 DEF PreludeFlow, CheckFlow, RuleFlow
    <3>2. Current'[1] # "end"
      BY <2>1, <2>2, PlaceNext DEF InPlace, RuleNames, LoopNames, StopNames, ResetNames
    <3>4. Current'[1] = "newState" => Turn'
      BY <2>2 DEF Turn, LoopNames
    <3>5. Current[1] \in RuleNames \union {"setSpec", "checkEnable", "genState", "checkRoot"}
          /\ (Current[1] \in LoopNames => Current[1] = "newState")
      BY <2>1 DEF RuleNames, LoopNames
    <3>. QED  BY <2>1, <2>2, <3>1, <3>2, <3>4, <3>5 DEF At
  <2>3. CASE Turn' /\ <<Current[1], "end">> \in PreludeFlow \union CheckFlow \union RuleFlow
    <3>1. Current[1] \in {"checkEnable", "genState", "checkRoot", "setInstall", "newState",
                 "ruleDel", "install", "forget"}
      BY <2>3 DEF PreludeFlow, CheckFlow, RuleFlow
    <3>. QED  BY <2>1, <2>3, <3>1 DEF At
  <2>. QED  BY <2>1, <2>2, <2>3
<1>2. CASE now = <<>> /\ todo # <<>>
  <2>1. Shape' /\ Turn' /\ Current[1] \in LoopNames
    BY <1>2, ProceedFlow, Place
  <2>. QED  BY <2>1 DEF At, LoopNames
<1>3. CASE now = <<>> /\ todo = <<>>
  <2>1. /\ Shape'
        /\ ~Done' => <<Current[1], Current'[1]>> \in LastFlow
        /\ Done' => <<Current[1], "end">> \in LastFlow
        /\ job.op \in Ops
    BY <1>3, ProceedFlow DEF Shape
  <2>3. ~Done' => Current'[1] # "end"
    BY <2>1, PlaceNext DEF InPlace, RuleNames, LoopNames, StopNames, ResetNames
  <2>4. CASE job.op = "stop"
    <3>1. LastFlow = StopFlow
      BY <2>4 DEF LastFlow
    <3>. QED  BY <2>1, <2>3, <2>4, <3>1 DEF At, StopFlow, LoopNames
  <2>5. CASE job.op = "start"
    <3>1. LastFlow = StartFlow
      BY <2>5 DEF LastFlow
    <3>. QED  BY <2>1, <2>3, <2>5, <3>1 DEF At, StartFlow, LoopNames
  <2>6. CASE job.op \notin {"start", "stop"}
    <3>1. LastFlow = HandlerFlow
      BY <2>6 DEF LastFlow
    <3>. QED  BY <2>1, <2>3, <2>6, <3>1 DEF At, HandlerFlow, LoopNames
  <2>. QED  BY <2>4, <2>5, <2>6
<1>. QED  BY <1>1, <1>2, <1>3

-----------------------------------------------------------------------------
(* The programs the handlers load are of that shape.                       *)

LEMMA Append2 ==
    ASSUME NEW a, NEW b, NEW x
    PROVE  Append(<<a, b>>, x) = <<a, b, x>>
<1>. DEFINE S == {a, b, x}
<1>1. Append(<<a, b>>, x) \in Seq(S) /\ Len(Append(<<a, b>>, x)) = 3
  BY AppendProperties
<1>2. <<a, b, x>> \in Seq(S) /\ Len(<<a, b, x>>) = 3
  OBVIOUS
<1>3. \A i \in 1..3 : Append(<<a, b>>, x)[i] = <<a, b, x>>[i]
  OBVIOUS
<1>. QED  BY <1>1, <1>2, <1>3, SeqEqual

LEMMA Append3 ==
    ASSUME NEW a, NEW b, NEW c, NEW x
    PROVE  Append(<<a, b, c>>, x) = <<a, b, c, x>>
<1>. DEFINE S == {a, b, c, x}
<1>1. Append(<<a, b, c>>, x) \in Seq(S) /\ Len(Append(<<a, b, c>>, x)) = 4
  BY AppendProperties
<1>2. <<a, b, c, x>> \in Seq(S) /\ Len(<<a, b, c, x>>) = 4
  OBVIOUS
<1>3. \A i \in 1..4 : Append(<<a, b, c>>, x)[i] = <<a, b, c, x>>[i]
  OBVIOUS
<1>. QED  BY <1>1, <1>2, <1>3, SeqEqual

LEMMA Append5 ==
    ASSUME NEW a, NEW b, NEW c, NEW d, NEW e, NEW x
    PROVE  Append(<<a, b, c, d, e>>, x) = <<a, b, c, d, e, x>>
<1>. DEFINE S == {a, b, c, d, e, x}
<1>1. Append(<<a, b, c, d, e>>, x) \in Seq(S) /\ Len(Append(<<a, b, c, d, e>>, x)) = 6
  BY AppendProperties
<1>2. <<a, b, c, d, e, x>> \in Seq(S) /\ Len(<<a, b, c, d, e, x>>) = 6
  OBVIOUS
<1>3. \A i \in 1..6 : Append(<<a, b, c, d, e>>, x)[i] = <<a, b, c, d, e, x>>[i]
  OBVIOUS
<1>. QED  BY <1>1, <1>2, <1>3, SeqEqual

LEMMA RuleChains ==
    ASSUME NEW r \in RuleIds
    PROVE  /\ Chain(qos_rule_install(r), RuleFlow, RuleIds)
           /\ Chain(qos_rule_uninstall(r), RuleFlow, RuleIds)
           /\ Chain(Append(qos_rule_install(r), <<"newState", r>>), RuleFlow, RuleIds)
           /\ Chain(Append(qos_rule_uninstall(r), <<"install", r>>), RuleFlow, RuleIds)
           /\ Chain(Append(qos_rule_uninstall(r), <<"forget", r>>), RuleFlow, RuleIds)
           /\ Chain(<<<<"forget", r>>>>, RuleFlow, RuleIds)
           /\ Chain(<<<<"newState", r>>>>, RuleFlow, RuleIds)
<1>1. Chain(qos_rule_install(r), RuleFlow, RuleIds)
  BY DEF Chain, Names, qos_rule_install, RuleFlow
<1>2. Chain(qos_rule_uninstall(r), RuleFlow, RuleIds)
  BY DEF Chain, Names, qos_rule_uninstall, RuleFlow
<1>3. Append(qos_rule_install(r), <<"newState", r>>) =
        <<<<"ruleAdd", r>>, <<"nfAdd", r>>, <<"setInstall", r>>, <<"newState", r>>>>
  BY Append3 DEF qos_rule_install
<1>4. Append(qos_rule_uninstall(r), <<"install", r>>) =
        <<<<"nfDel", r>>, <<"unsetInstall", r>>, <<"ruleDel", r>>, <<"install", r>>>>
  BY Append3 DEF qos_rule_uninstall
<1>5. Append(qos_rule_uninstall(r), <<"forget", r>>) =
        <<<<"nfDel", r>>, <<"unsetInstall", r>>, <<"ruleDel", r>>, <<"forget", r>>>>
  BY Append3 DEF qos_rule_uninstall
<1>6. Chain(<<<<"ruleAdd", r>>, <<"nfAdd", r>>, <<"setInstall", r>>, <<"newState", r>>>>,
            RuleFlow, RuleIds)
  BY DEF Chain, Names, RuleFlow
<1>7. Chain(<<<<"nfDel", r>>, <<"unsetInstall", r>>, <<"ruleDel", r>>, <<"install", r>>>>,
            RuleFlow, RuleIds)
  BY DEF Chain, Names, RuleFlow
<1>8. Chain(<<<<"nfDel", r>>, <<"unsetInstall", r>>, <<"ruleDel", r>>, <<"forget", r>>>>,
            RuleFlow, RuleIds)
  BY DEF Chain, Names, RuleFlow
<1>9. Chain(<<<<"forget", r>>>>, RuleFlow, RuleIds) /\ Chain(<<<<"newState", r>>>>, RuleFlow, RuleIds)
  BY DEF Chain, Names, RuleFlow
<1>. QED  BY <1>1, <1>2, <1>3, <1>4, <1>5, <1>6, <1>7, <1>8, <1>9

LEMMA ResetChains ==
    /\ Chain(qos_reset, HandlerFlow, {0}) /\ Head(qos_reset)[1] = "resetBegin"
    /\ qos_reset # <<>>
    /\ Chain(Append(qos_reset, Cmd("setReady")), StartFlow, {0})
    /\ Head(Append(qos_reset, Cmd("setReady")))[1] = "resetBegin"
    /\ Append(qos_reset, Cmd("setReady")) # <<>>
<1>1. Append(qos_reset, Cmd("setReady")) =
        <<<<"resetBegin", 0>>, <<"resetFlush", 0>>, <<"tcDestroy", 0>>,
          <<"tcInit", 0>>, <<"resetEnd", 0>>, <<"setReady", 0>>>>
  BY Append5 DEF qos_reset, Cmd
<1>2. Chain(<<<<"resetBegin", 0>>, <<"resetFlush", 0>>, <<"tcDestroy", 0>>,
              <<"tcInit", 0>>, <<"resetEnd", 0>>, <<"setReady", 0>>>>, StartFlow, {0})
  BY DEF Chain, Names, StartFlow
<1>3. Chain(qos_reset, HandlerFlow, {0})
  BY DEF Chain, Names, HandlerFlow, qos_reset, Cmd
<1>4. Head(qos_reset)[1] = "resetBegin" /\ qos_reset # <<>>
  BY DEF qos_reset, Cmd
<1>5. ASSUME NEW s, s = <<<<"resetBegin", 0>>, <<"resetFlush", 0>>, <<"tcDestroy", 0>>,
                          <<"tcInit", 0>>, <<"resetEnd", 0>>, <<"setReady", 0>>>>
      PROVE  Head(s)[1] = "resetBegin" /\ s # <<>>
  BY <1>5
<1>. QED  BY <1>1, <1>2, <1>3, <1>4, <1>5

LEMMA PreludeChains ==
    /\ Chain(<<Cmd("setSpec"), Cmd("checkEnable")>>, PreludeFlow, {0})
    /\ Chain(Append(<<Cmd("setSpec"), Cmd("checkEnable")>>, Cmd("genState")),
             PreludeFlow, {0})
    /\ Chain(<<Cmd("checkRoot")>>, CheckFlow, {0})
    /\ Chain(<<Cmd("unsetReady"), Cmd("clearState"), Cmd("nfDestroy"),
               Cmd("resetBegin"), Cmd("resetFlush"), Cmd("tcDestroy"),
               Cmd("flushRules"), Cmd("unsetStop")>>, StopFlow, {0})
<1>1. Append(<<Cmd("setSpec"), Cmd("checkEnable")>>, Cmd("genState")) =
        <<<<"setSpec", 0>>, <<"checkEnable", 0>>, <<"genState", 0>>>>
  BY Append2 DEF Cmd
<1>2. Chain(<<<<"setSpec", 0>>, <<"checkEnable", 0>>, <<"genState", 0>>>>, PreludeFlow, {0})
  BY DEF Chain, Names, PreludeFlow
<1>3. Chain(<<Cmd("setSpec"), Cmd("checkEnable")>>, PreludeFlow, {0})
  BY DEF Chain, Names, PreludeFlow, Cmd
<1>4. Chain(<<Cmd("checkRoot")>>, CheckFlow, {0})
  BY DEF Chain, Names, CheckFlow, Cmd
<1>5. Chain(<<Cmd("unsetReady"), Cmd("clearState"), Cmd("nfDestroy"),
              Cmd("resetBegin"), Cmd("resetFlush"), Cmd("tcDestroy"),
              Cmd("flushRules"), Cmd("unsetStop")>>, StopFlow, {0})
  BY DEF Chain, Names, StopFlow, Cmd
<1>. QED  BY <1>1, <1>2, <1>3, <1>4, <1>5

\* A loop over a list of rules.
LEMMA EachType ==
    ASSUME NEW list \in Seq(RuleIds), NEW name \in LoopNames
    PROVE  Each(name, list) \in Seq(LoopNames \X RuleIds)
<1>1. Len(list) \in Nat /\ DOMAIN list = 1..Len(list) /\ \A i \in 1..Len(list) : list[i] \in RuleIds
  BY LenProperties, ElementOfSeq
<1>2. Each(name, list) \in [1..Len(list) -> LoopNames \X RuleIds]
  BY <1>1 DEF Each
<1>. QED  BY <1>1, <1>2, SeqDef

LEMMA AllRulesType == AllRules \in Seq(RuleIds)
<1>1. AllRules \in [1..RuleCnt -> RuleIds] /\ RuleCnt \in Nat
  BY SpecAssumption DEF AllRules, RuleIds
<1>. QED  BY <1>1, SeqDef

\* What the turns of the loops enter.
LEMMA RuleHeads ==
    ASSUME NEW r \in RuleIds
    PROVE  /\ qos_rule_install(r) # <<>>
           /\ Head(qos_rule_install(r)) = <<"ruleAdd", r>>
           /\ qos_rule_uninstall(r) # <<>>
           /\ Head(qos_rule_uninstall(r)) = <<"nfDel", r>>
           /\ Append(qos_rule_install(r), <<"newState", r>>) # <<>>
           /\ Head(Append(qos_rule_install(r), <<"newState", r>>)) = <<"ruleAdd", r>>
           /\ Append(qos_rule_uninstall(r), <<"install", r>>) # <<>>
           /\ Head(Append(qos_rule_uninstall(r), <<"install", r>>)) = <<"nfDel", r>>
           /\ Append(qos_rule_uninstall(r), <<"forget", r>>) # <<>>
           /\ Head(Append(qos_rule_uninstall(r), <<"forget", r>>)) = <<"nfDel", r>>
<1>1. /\ qos_rule_install(r) # <<>>
      /\ Head(qos_rule_install(r)) = <<"ruleAdd", r>>
      /\ qos_rule_uninstall(r) # <<>>
      /\ Head(qos_rule_uninstall(r)) = <<"nfDel", r>>
  BY DEF qos_rule_install, qos_rule_uninstall
<1>2. Append(qos_rule_install(r), <<"newState", r>>) =
        <<<<"ruleAdd", r>>, <<"nfAdd", r>>, <<"setInstall", r>>, <<"newState", r>>>>
  BY Append3 DEF qos_rule_install
<1>3. Append(qos_rule_uninstall(r), <<"install", r>>) =
        <<<<"nfDel", r>>, <<"unsetInstall", r>>, <<"ruleDel", r>>, <<"install", r>>>>
  BY Append3 DEF qos_rule_uninstall
<1>4. Append(qos_rule_uninstall(r), <<"forget", r>>) =
        <<<<"nfDel", r>>, <<"unsetInstall", r>>, <<"ruleDel", r>>, <<"forget", r>>>>
  BY Append3 DEF qos_rule_uninstall
<1>. QED  BY <1>1, <1>2, <1>3, <1>4

LEMMA EmptyChain ==
    ASSUME NEW flow, NEW rules
    PROVE  Chain(<<>>, flow, rules)
BY DEF Chain

\* A turn of the loop that goes on with commands on its rule.
LEMMA EnterFlow ==
    ASSUME Shape, now = <<>>, todo # <<>>, UNCHANGED job,
           NEW cmds, Chain(cmds, RuleFlow, RuleIds), cmds # <<>>, Enter(cmds)
    PROVE  Shape' /\ ~Done' /\ Current' = Head(cmds)
<1>1. now' = cmds /\ todo' = Tail(todo) /\ last' = last
  BY DEF Enter, Load
<1>2. todo' \in Seq(LoopNames \X RuleIds)
  BY <1>1, HeadTailProperties DEF Shape
<1>3. LastFlow' = LastFlow
  BY DEF LastFlow
<1>4. Shape'
  BY <1>1, <1>2, <1>3 DEF Shape, NowShape, Done
<1>. QED  BY <1>1, <1>4 DEF Done, Current

LEMMA BreakFlow ==
    ASSUME Shape, now = <<>>, todo # <<>>, UNCHANGED job, Break
    PROVE  Shape' /\ At("resetBegin")'
<1>1. now' = <<>> /\ todo' = <<>> /\ last' = last
  BY DEF Break, Load
<1>2. LastFlow' = LastFlow
  BY DEF LastFlow
<1>3. Shape'
  BY <1>1, <1>2 DEF Shape, NowShape, Done
<1>. QED  BY <1>1, <1>3 DEF Shape, At, Done, Current

LEMMA FinishFlow == Finish => Shape' /\ Done'
<1>. SUFFICES ASSUME Finish PROVE Shape' /\ Done'
  OBVIOUS
<1>1. now' = <<>> /\ todo' = <<>> /\ last' = <<>>
  BY DEF Finish, Load
<1>. QED  BY <1>1, EmptyChain DEF Shape, NowShape, Done

\* qos_rule_install after qos_rule_uninstall, in one turn of the loop.
LEMMA ReinstallFlow ==
    ASSUME Shape, ~Done, At("install"), UNCHANGED job,
           Load(qos_rule_install(Rule), todo, last)
    PROVE  Shape' /\ At("ruleAdd")' /\ Rule' = Rule
<1>1. now # <<>> /\ job.op \in LoopOps /\ Rule \in RuleIds
  BY Place DEF InPlace, At, LoopNames, StopNames, ResetNames
<1>2. now' = qos_rule_install(Rule) /\ todo' = todo /\ last' = last
  BY DEF Load
<1>3. Chain(now', RuleFlow, RuleIds) /\ now' # <<>> /\ Head(now') = <<"ruleAdd", Rule>>
  BY <1>1, <1>2, RuleChains, RuleHeads
<1>4. LastFlow' = LastFlow
  BY DEF LastFlow
<1>5. Shape'
  BY <1>1, <1>2, <1>3, <1>4 DEF Shape, NowShape, Done
<1>. QED  BY <1>3, <1>5 DEF At, Done, Current, Rule

-----------------------------------------------------------------------------
(* Types.                                                                  *)

Asked == \A q \in waiting : q.op = "reload" => q.arg \in {"add", "delete", "update"}

\* Beside the types: while nobody holds the lock no program is loaded, and a
\* handler that was killed leaves room for the request that follows.
ControlTypes ==
    /\ ready \in BOOLEAN /\ stopFlag \in BOOLEAN
    /\ tree \in BOOLEAN /\ killed \in BOOLEAN
    /\ state \in [RuleIds -> [enable : {"", "on", "off", "twice"},
                              install : BOOLEAN]]
    /\ uci \in Cfgs
    /\ timeobj \subseteq Timed
    /\ nf \subseteq RuleIds \X {0, 1}
    /\ waiting \subseteq Requests
    /\ Asked
    /\ job = NoJob \/ job \in [op : Ops, cfg : Cfgs]
    /\ Free => Done

Queued ==
    /\ IsFiniteSet(waiting)
    /\ Cardinality(waiting) <= IF Free THEN MaxWaiting + 1 ELSE MaxWaiting

CInv == ControlTypes /\ Shape /\ Queued

LEMMA CfgTypes ==
    /\ \A cfg \in Cfgs, r \in RuleIds : /\ cfg[r].exists \in BOOLEAN
                                        /\ cfg[r].on \in BOOLEAN
                                        /\ cfg[r].mode \in {PRIV_MODE, SHARE_MODE}
    /\ NoJob.cfg \in Cfgs
    /\ NoJob.op = "none"
<1>1. \A c \in Configs \union {Absent} : /\ c.exists \in BOOLEAN
                                         /\ c.on \in BOOLEAN
                                         /\ c.mode \in {PRIV_MODE, SHARE_MODE}
  <2>1. Absent \in [exists : BOOLEAN, on : BOOLEAN, mode : {PRIV_MODE, SHARE_MODE}]
    BY DEF Absent
  <2>2. \A c \in Configs :
          c \in [exists : {TRUE}, on : BOOLEAN, mode : {PRIV_MODE, SHARE_MODE}]
    BY ControlAssumption
  <2>. QED  BY <2>1, <2>2
<1>2. NoJob.cfg = [r \in RuleIds |-> Absent] /\ NoJob.op = "none"
  BY DEF NoJob
<1>. QED  BY <1>1, <1>2 DEF Cfgs

LEMMA FreeOp ==
    ASSUME ControlTypes
    PROVE  /\ Free <=> job.op = "none"
           /\ job.op \in Ops \union {"none"}
           /\ job.cfg \in Cfgs
BY CfgTypes DEF ControlTypes, Free, Ops

\* The lock is taken: where the handler begins.
LEMMA AcquireFlow ==
    ASSUME ControlTypes, NEW req \in waiting, Acquire(req)
    PROVE  /\ Shape' /\ job'.op = req.op /\ job' \in [op : Ops, cfg : Cfgs] /\ ~Free'
           /\ req.op = "start" => At("setSpec")'
           /\ req.op = "stop" => At("unsetReady")'
           /\ req.op = "ifup" => At("checkRoot")'
           /\ req.op \in {"reload", "time", "ipgroup"} => Done' \/ (ready /\ Turn')
<1>0. /\ req \in Requests
      /\ job' = [op |-> req.op, cfg |-> req.cfg]
      /\ Handler(req)
  BY DEF ControlTypes, Acquire
<1>1. /\ req.op \in Ops /\ req.cfg \in Cfgs
      /\ req.list \in Seq(RuleIds)
      /\ job' = [op |-> req.op, cfg |-> req.cfg]
      /\ Handler(req)
  <2>1. <<>> \in Seq(RuleIds) /\ Lists \subseteq Seq(RuleIds)
    BY ControlAssumption, EmptySeq
  <2>. QED  BY <1>0, <2>1 DEF Requests
<1>2. job' \in [op : Ops, cfg : Cfgs] /\ ~Free' /\ job'.op = req.op
  BY <1>1 DEF Free, NoJob, Ops
<1>3. CASE req.op = "start"
  <2>1. qos_start(req.cfg)
    BY <1>1, <1>3 DEF Handler
  <2>2. /\ now' = <<Cmd("setSpec"), Cmd("checkEnable")>>
           \/ now' = Append(<<Cmd("setSpec"), Cmd("checkEnable")>>, Cmd("genState"))
        /\ todo' = <<>> \/ todo' = Each("parse", AllRules)
        /\ last' = Append(qos_reset, Cmd("setReady"))
    <3>1. CASE \A r \in RuleIds : ~req.cfg[r].exists
      BY <2>1, <3>1 DEF qos_start, Load
    <3>2. CASE ~(\A r \in RuleIds : ~req.cfg[r].exists)
      BY <2>1, <3>2 DEF qos_start, Load
    <3>. QED  BY <3>1, <3>2
  <2>3. todo' \in Seq(LoopNames \X RuleIds)
    <3>1. "parse" \in LoopNames
      BY DEF LoopNames
    <3>2. Each("parse", AllRules) \in Seq(LoopNames \X RuleIds)
      BY <3>1, EachType, AllRulesType
    <3>. QED  BY <2>2, <3>2, EmptySeq
  <2>4. Chain(now', PreludeFlow, {0})
    BY <2>2, PreludeChains
  <2>5. now' # <<>> /\ Head(now') = <<"setSpec", 0>>
    <3>1. Append(<<Cmd("setSpec"), Cmd("checkEnable")>>, Cmd("genState")) =
            <<<<"setSpec", 0>>, <<"checkEnable", 0>>, <<"genState", 0>>>>
      BY Append2 DEF Cmd
    <3>2. CASE now' = <<Cmd("setSpec"), Cmd("checkEnable")>>
      BY <3>2 DEF Cmd
    <3>3. CASE now' = <<<<"setSpec", 0>>, <<"checkEnable", 0>>, <<"genState", 0>>>>
      BY <3>3
    <3>. QED  BY <2>2, <3>1, <3>2, <3>3
  <2>6. LastFlow' = StartFlow
    BY <1>2, <1>3 DEF LastFlow
  <2>7. Shape'
    BY <1>1, <1>2, <1>3, <2>2, <2>3, <2>4, <2>6, ResetChains DEF Shape, NowShape, LoopOps
  <2>. QED  BY <1>2, <1>3, <2>5, <2>7 DEF At, Done, Current
<1>4. CASE req.op = "stop"
  <2>1. /\ now' = <<>> /\ todo' = <<>>
        /\ last' = <<Cmd("unsetReady"), Cmd("clearState"), Cmd("nfDestroy"),
                     Cmd("resetBegin"), Cmd("resetFlush"), Cmd("tcDestroy"),
                     Cmd("flushRules"), Cmd("unsetStop")>>
    BY <1>1, <1>4 DEF Handler, qos_destroy, Load
  <2>2. LastFlow' = StopFlow
    BY <1>2, <1>4 DEF LastFlow
  <2>3. Shape'
    BY <1>1, <1>2, <1>4, <2>1, <2>2, PreludeChains DEF Shape, NowShape
  <2>4. last' # <<>> /\ Head(last') = <<"unsetReady", 0>>
    BY <2>1 DEF Cmd
  <2>. QED  BY <1>2, <1>4, <2>1, <2>3, <2>4 DEF At, Done, Current
<1>5. CASE req.op = "ifup"
  <2>1. now' = <<Cmd("checkRoot")>> /\ todo' = <<>> /\ last' = qos_reset
    BY <1>1, <1>5 DEF Handler, qos_ifup_handle, Load
  <2>2. LastFlow' = HandlerFlow
    BY <1>2, <1>5 DEF LastFlow
  <2>3. Shape'
    BY <1>1, <1>2, <1>5, <2>1, <2>2, PreludeChains, ResetChains DEF Shape, NowShape
  <2>4. now' # <<>> /\ Head(now') = <<"checkRoot", 0>>
    BY <2>1 DEF Cmd
  <2>. QED  BY <1>2, <1>5, <2>1, <2>3, <2>4 DEF At, Done, Current
<1>6. CASE req.op \in {"reload", "time", "ipgroup"}
  <2>1. CASE Finish
    BY <1>2, <1>6, <2>1, FinishFlow
  <2>2. CASE ~Finish
    <3>1. /\ ready
          /\ now' = <<>> /\ last' = qos_reset
          /\ \/ /\ req.op = "reload"
                /\ todo' = CASE req.arg = "delete" -> Each("delete", req.list)
                             [] req.arg = "add"    -> Each("newState", req.list)
                                                        \o Each("parse", req.list)
                             [] req.arg = "update" -> Each("uninstall", req.list)
                                                        \o Each("update", req.list)
             \/ todo' = Each("activate", req.list)
             \/ todo' = Each("expire", req.list)
             \/ todo' = Each("regroup", req.list)
      BY <1>1, <1>6, <2>2 DEF Handler, qos_reload, qos_time_handle, qos_ipgroup_handle, Load
    <3>2. \A name \in LoopNames : Each(name, req.list) \in Seq(LoopNames \X RuleIds)
      BY <1>1, EachType
    <3>3. /\ Each("newState", req.list) \o Each("parse", req.list) \in Seq(LoopNames \X RuleIds)
          /\ Each("uninstall", req.list) \o Each("update", req.list) \in Seq(LoopNames \X RuleIds)
      BY <3>2, ConcatProperties DEF LoopNames
    <3>4. req.op = "reload" => req.arg \in {"add", "delete", "update"}
      BY DEF ControlTypes, Asked
    <3>5. todo' \in Seq(LoopNames \X RuleIds)
      BY <3>1, <3>2, <3>3, <3>4 DEF LoopNames
    <3>6. LastFlow' = HandlerFlow
      BY <1>2, <1>6 DEF LastFlow
    <3>7. Shape'
      BY <1>1, <1>2, <1>6, <3>1, <3>5, <3>6, ResetChains DEF Shape, NowShape, LoopOps
    <3>8. Turn'
      <4>1. CASE todo' # <<>>
        <5>1. Head(todo') \in LoopNames \X RuleIds
          BY <3>5, <4>1, HeadTailProperties
        <5>. QED  BY <3>1, <4>1, <5>1 DEF Turn, Done, Current
      <4>2. CASE todo' = <<>>
        BY <3>1, <4>2, ResetChains DEF Turn, Done, Current
      <4>. QED  BY <4>1, <4>2
    <3>. QED  BY <1>2, <1>6, <3>1, <3>7, <3>8
  <2>. QED  BY <2>1, <2>2
<1>. QED  BY <1>1, <1>3, <1>4, <1>5, <1>6 DEF Ops

\* Commands on a rule; and those that begin a turn of the loop.
LEMMA AtRule ==
    ASSUME Shape, ~Done, Current[1] \in RuleNames \union LoopNames
    PROVE  Rule \in RuleIds /\ job.op \in LoopOps
BY Place DEF InPlace, RuleNames, LoopNames, StopNames, ResetNames

LEMMA AtLoop ==
    ASSUME Shape, ~Done, Current[1] \in LoopNames \ {"newState"}
    PROVE  now = <<>> /\ todo # <<>>
BY Place DEF InPlace, RuleNames, LoopNames, StopNames, ResetNames

\* What a turn of a loop may do, and where the handler is then.
LEMMA TurnFlow ==
    ASSUME Shape, ~Done, Current[1] \in LoopNames \ {"newState"}, UNCHANGED job
    PROVE  /\ Proceed => Shape' /\ Turn'
           /\ Break => Shape' /\ Turn'
           /\ Enter(qos_rule_install(Rule)) =>
                Shape' /\ At("ruleAdd")' /\ Rule' = Rule
           /\ Enter(Append(qos_rule_install(Rule), <<"newState", Rule>>)) =>
                Shape' /\ At("ruleAdd")' /\ Rule' = Rule
           /\ Enter(qos_rule_uninstall(Rule)) =>
                Shape' /\ At("nfDel")' /\ Rule' = Rule
           /\ Enter(Append(qos_rule_uninstall(Rule), <<"install", Rule>>)) =>
                Shape' /\ At("nfDel")' /\ Rule' = Rule
           /\ Enter(Append(qos_rule_uninstall(Rule), <<"forget", Rule>>)) =>
                Shape' /\ At("nfDel")' /\ Rule' = Rule
           /\ Enter(<<<<"forget", Rule>>>>) => Shape' /\ At("forget")' /\ Rule' = Rule
           /\ Enter(<<<<"newState", Rule>>>>) => Shape' /\ At("newState")' /\ Rule' = Rule
<1>1. now = <<>> /\ todo # <<>> /\ Rule \in RuleIds
  BY AtLoop, AtRule
<1>2. Proceed => Shape' /\ Turn'
  BY After
<1>3. Break => Shape' /\ Turn'
  BY <1>1, BreakFlow DEF Turn, At
<1>4. ASSUME NEW cmds, NEW name, Chain(cmds, RuleFlow, RuleIds), cmds # <<>>,
             Head(cmds) = <<name, Rule>>, Enter(cmds)
      PROVE  Shape' /\ At(name)' /\ Rule' = Rule
  <2>1. Shape' /\ ~Done' /\ Current' = <<name, Rule>>
    BY <1>1, <1>4, EnterFlow
  <2>. QED  BY <2>1 DEF At, Rule
<1>5. <<<<"forget", Rule>>>> # <<>> /\ Head(<<<<"forget", Rule>>>>) = <<"forget", Rule>>
  OBVIOUS
<1>6. <<<<"newState", Rule>>>> # <<>> /\ Head(<<<<"newState", Rule>>>>) = <<"newState", Rule>>
  OBVIOUS
<1>7. Enter(qos_rule_install(Rule)) => Shape' /\ At("ruleAdd")' /\ Rule' = Rule
  BY <1>1, <1>4, RuleChains, RuleHeads
<1>8. Enter(qos_rule_uninstall(Rule)) => Shape' /\ At("nfDel")' /\ Rule' = Rule
  BY <1>1, <1>4, RuleChains, RuleHeads
<1>9. Enter(<<<<"forget", Rule>>>>) => Shape' /\ At("forget")' /\ Rule' = Rule
  BY <1>1, <1>4, <1>5, RuleChains
<1>10. Enter(<<<<"newState", Rule>>>>) => Shape' /\ At("newState")' /\ Rule' = Rule
  BY <1>1, <1>4, <1>6, RuleChains
<1>11. Enter(Append(qos_rule_install(Rule), <<"newState", Rule>>)) =>
         Shape' /\ At("ruleAdd")' /\ Rule' = Rule
  BY <1>1, <1>4, RuleChains, RuleHeads
<1>12. Enter(Append(qos_rule_uninstall(Rule), <<"install", Rule>>)) =>
         Shape' /\ At("nfDel")' /\ Rule' = Rule
  BY <1>1, <1>4, RuleChains, RuleHeads
<1>13. Enter(Append(qos_rule_uninstall(Rule), <<"forget", Rule>>)) =>
         Shape' /\ At("nfDel")' /\ Rule' = Rule
  BY <1>1, <1>4, RuleChains, RuleHeads
<1>. QED  BY <1>2, <1>3, <1>7, <1>8, <1>9, <1>10, <1>11, <1>12, <1>13

\* A command keeps the types and the shape of the program.
LEMMA StepTypes ==
    ASSUME ControlTypes, Shape, Step
    PROVE  ControlTypes' /\ Shape'
<1>. DEFINE States == [enable : {"", "on", "off", "twice"}, install : BOOLEAN]
<1>0. /\ UNCHANGED <<uci, waiting, job, killed>>
      /\ job.cfg \in Cfgs
      /\ NoState \in States
      /\ state \in [RuleIds -> States]
  BY FreeOp DEF Step, ControlTypes, NoState
<1>1. ~Done
  BY DEF Step, Parse, RuleLoop, Reload, RuleStep, StartCommand, StopCommand, ResetCommand,
         Ifup, At
<1>. SUFFICES /\ ready' \in BOOLEAN /\ stopFlag' \in BOOLEAN /\ tree' \in BOOLEAN
              /\ state' \in [RuleIds -> States]
              /\ timeobj' \subseteq Timed
              /\ nf' \subseteq RuleIds \X {0, 1}
              /\ Shape'
  <2>1. ~Free
    BY <1>1 DEF ControlTypes
  <2>. QED  BY <1>0, <2>1 DEF ControlTypes, Asked, Free
<1>2. CASE Parse
  <2>1. Current[1] \in LoopNames \ {"newState"}
    BY <1>2 DEF Parse, At, LoopNames
  <2>2. Shape'
    BY <1>0, <1>1, <1>2, <2>1, TurnFlow DEF Parse
  <2>. QED  BY <1>0, <1>2, <2>2 DEF Parse, ControlTypes, files, ByTime
<1>3. CASE RuleLoop
  <2>1. CASE At("install")
    BY <1>0, <1>1, <1>3, <2>1, After, ReinstallFlow DEF RuleLoop, ControlTypes, files, outside, At
  <2>2. CASE ~At("install")
    <3>1. Current[1] \in LoopNames \ {"newState"}
      BY <1>3, <2>2 DEF RuleLoop, At, LoopNames
    <3>2. Shape'
      BY <1>0, <1>1, <1>3, <2>2, <3>1, TurnFlow DEF RuleLoop
    <3>. QED  BY <1>0, <1>3, <3>2 DEF RuleLoop, ControlTypes, files, outside
  <2>. QED  BY <2>1, <2>2
<1>4. CASE Reload
  <2>1. CASE At("update")
    <3>1. Current[1] \in LoopNames \ {"newState"}
      BY <2>1 DEF At, LoopNames
    <3>2. Shape'
      BY <1>0, <1>1, <1>4, <2>1, <3>1, TurnFlow DEF Reload, At
    <3>. QED  BY <1>0, <1>4, <2>1, <3>2 DEF Reload, ControlTypes, files, ByTime, At
  <2>2. CASE At("newState")
    <3>1. Rule \in RuleIds
      BY <1>1, <2>2, AtRule DEF At, LoopNames
    <3>2. job.cfg[Rule].on \in BOOLEAN
      BY <1>0, <3>1, CfgTypes
    <3>3. state' = [state EXCEPT ![Rule].enable =
                       IF @ = "twice" THEN @
                       ELSE IF job.cfg[Rule].on THEN "on" ELSE "off"]
      BY <1>4, <2>2 DEF Reload, At
    <3>4. state' \in [RuleIds -> States]
      BY <1>0, <3>1, <3>3
    <3>. QED  BY <1>0, <1>1, <1>4, <2>2, <3>4, After DEF Reload, ControlTypes, outside, At
  <2>3. CASE At("forget")
    <3>1. Rule \in RuleIds
      BY <1>1, <2>3, AtRule DEF At, RuleNames
    <3>. QED  BY <1>0, <1>1, <1>4, <2>3, <3>1, After DEF Reload, ControlTypes, At
  <2>. QED  BY <1>4, <2>1, <2>2, <2>3 DEF Reload
<1>5. CASE RuleStep
  <2>1. Shape' /\ Rule \in RuleIds
    BY <1>0, <1>1, <1>5, After, AtRule DEF RuleStep, At, RuleNames
  <2>2. CASE At("ruleAdd") \/ At("ruleDel")
    BY <1>5, <2>1, <2>2 DEF RuleStep, ControlTypes, files, outside, At
  <2>3. CASE At("nfAdd") \/ At("nfDel")
    <3>1. \A S, dir : ChainWith(S, Rule, dir) \subseteq S \union {<<Rule, dir>>}
      BY DEF ChainWith
    <3>2. nf' \subseteq nf \union {<<Rule, 0>>, <<Rule, 1>>}
      <4>1. CASE At("nfAdd")
        <5>1. nf' = ChainWith(ChainWith(nf, Rule, 0), Rule, 1)
          BY <1>5, <4>1 DEF RuleStep, At
        <5>. QED  BY <3>1, <5>1
      <4>2. CASE At("nfDel")
        BY <1>5, <4>2 DEF RuleStep, At
      <4>. QED  BY <2>3, <4>1, <4>2
    <3>3. UNCHANGED <<ready, stopFlag, state, tree, timeobj>>
      BY <1>5, <2>3 DEF RuleStep, files, At
    <3>4. <<Rule, 0>> \in RuleIds \X {0, 1} /\ <<Rule, 1>> \in RuleIds \X {0, 1}
      BY <2>1
    <3>5. nf' \subseteq RuleIds \X {0, 1}
      BY <3>2, <3>4 DEF ControlTypes
    <3>. QED  BY <2>1, <3>3, <3>5 DEF ControlTypes
  <2>4. CASE At("setInstall") \/ At("unsetInstall")
    <3>1. /\ \/ state' = [state EXCEPT ![Rule].install = TRUE]
             \/ state' = [state EXCEPT ![Rule].install = FALSE]
          /\ UNCHANGED <<ready, stopFlag, nf, tree, timeobj>>
      BY <1>5, <2>4 DEF RuleStep, outside, At
    <3>2. state' \in [RuleIds -> States]
      BY <1>0, <2>1, <3>1
    <3>. QED  BY <2>1, <3>1, <3>2 DEF ControlTypes
  <2>. QED  BY <1>5, <2>2, <2>3, <2>4 DEF RuleStep
<1>6. CASE StartCommand
  <2>1. Shape'
    BY <1>0, <1>1, <1>6, After, FinishFlow DEF StartCommand
  <2>2. CASE At("genState")
    <3>1. \A r \in RuleIds : uci[r].exists \in BOOLEAN /\ uci[r].on \in BOOLEAN
      BY CfgTypes DEF ControlTypes
    <3>2. state' = [r \in RuleIds |-> [state[r] EXCEPT !.enable =
                       IF ~uci[r].exists THEN @
                       ELSE IF @ # "" THEN "twice"
                       ELSE IF uci[r].on THEN "on" ELSE "off"]]
      BY <1>6, <2>2 DEF StartCommand, At
    <3>3. state' \in [RuleIds -> States]
      BY <1>0, <3>1, <3>2
    <3>. QED  BY <1>6, <2>1, <2>2, <3>3 DEF StartCommand, ControlTypes, outside, At
  <2>3. CASE ~At("genState")
    BY <1>0, <1>6, <2>1, <2>3 DEF StartCommand, ControlTypes, files, outside
  <2>. QED  BY <2>2, <2>3
<1>7. CASE StopCommand
  <2>1. Shape'
    BY <1>0, <1>1, <1>7, After DEF StopCommand
  <2>2. state' = state \/ state' = [r \in RuleIds |-> NoState]
    BY <1>7 DEF StopCommand, files
  <2>3. state' \in [RuleIds -> States]
    BY <1>0, <2>2
  <2>. QED  BY <1>7, <2>1, <2>3 DEF StopCommand, ControlTypes, files, outside
<1>8. CASE ResetCommand
  <2>1. Shape'
    BY <1>0, <1>1, <1>8, After DEF ResetCommand
  <2>. QED  BY <1>0, <1>8, <2>1 DEF ResetCommand, ControlTypes, files, outside
<1>9. CASE Ifup
  <2>1. Shape'
    BY <1>0, <1>1, <1>9, After, FinishFlow DEF Ifup
  <2>. QED  BY <1>0, <1>9, <2>1 DEF Ifup, ControlTypes, files, outside
<1>. QED  BY <1>2, <1>3, <1>4, <1>5, <1>6, <1>7, <1>8, <1>9 DEF Step

\* A request that is submitted is well formed.
LEMMA SubmitTypes ==
    ASSUME ControlTypes, Submit
    PROVE  /\ uci' \in Cfgs /\ stopFlag' \in BOOLEAN
           /\ \E q \in Requests : /\ waiting' = waiting \union {q}
                                  /\ q.op = "reload" => q.arg \in {"add", "delete", "update"}
<1>0. Absent \in Configs \union {Absent} /\ uci \in Cfgs /\ stopFlag \in BOOLEAN
  BY DEF ControlTypes
<1>1. ASSUME NEW op \in Ops, NEW list \in Lists \union {<<>>},
             NEW arg \in {"", "add", "delete", "update", "ACTIVE", "EXPIRE"},
             op = "reload" => arg \in {"add", "delete", "update"},
             uci' \in Cfgs, Request(op, arg, list)
      PROVE  \E q \in Requests : /\ waiting' = waiting \union {q}
                                 /\ q.op = "reload" => q.arg \in {"add", "delete", "update"}
  <2>. DEFINE q == [op |-> op, arg |-> arg, list |-> list, cfg |-> uci']
  <2>1. q \in Requests
    BY <1>1 DEF Requests
  <2>2. waiting' = waiting \union {q} /\ q.op = op /\ q.arg = arg
    BY <1>1 DEF Request
  <2>. QED  BY <1>1, <2>1, <2>2
<1>2. CASE RequestStart \/ RequestStop \/ RequestIfup
  BY <1>0, <1>1, <1>2 DEF RequestStart, RequestStop, RequestIfup, Ops
<1>3. ASSUME NEW list \in Lists, NEW cfg \in Configs \union {Absent},
             RequestReload(list, cfg)
      PROVE  /\ uci' \in Cfgs /\ stopFlag' \in BOOLEAN
             /\ \E q \in Requests : /\ waiting' = waiting \union {q}
                                    /\ q.op = "reload" => q.arg \in {"add", "delete", "update"}
  <2>1. uci' = [r \in RuleIds |-> IF r \in Range(list) THEN cfg ELSE uci[r]]
    BY <1>3 DEF RequestReload
  <2>2. uci' \in Cfgs
    BY <1>0, <2>1 DEF Cfgs
  <2>3. PICK op \in {"add", "delete", "update"} : Request("reload", op, list)
    BY <1>3 DEF RequestReload
  <2>4. "reload" \in Ops /\ list \in Lists \union {<<>>}
    BY DEF Ops
  <2>5. op \in {"", "add", "delete", "update", "ACTIVE", "EXPIRE"}
    BY <2>3
  <2>6. stopFlag' = stopFlag
    BY <1>3 DEF RequestReload
  <2>. QED  BY <1>0, <1>1, <2>2, <2>3, <2>4, <2>5, <2>6
<1>4. ASSUME NEW list \in Lists, NEW mode \in {"ACTIVE", "EXPIRE"}, RequestTime(mode, list)
      PROVE  /\ uci' \in Cfgs /\ stopFlag' \in BOOLEAN
             /\ \E q \in Requests : /\ waiting' = waiting \union {q}
                                    /\ q.op = "reload" => q.arg \in {"add", "delete", "update"}
  BY <1>0, <1>1, <1>4 DEF RequestTime, Ops
<1>5. ASSUME NEW list \in Lists, RequestIpgroup(list)
      PROVE  /\ uci' \in Cfgs /\ stopFlag' \in BOOLEAN
             /\ \E q \in Requests : /\ waiting' = waiting \union {q}
                                    /\ q.op = "reload" => q.arg \in {"add", "delete", "update"}
  BY <1>0, <1>1, <1>5 DEF RequestIpgroup, Ops
<1>. QED  BY <1>2, <1>3, <1>4, <1>5 DEF Submit

LEMMA QueueGrows ==
    ASSUME IsFiniteSet(waiting), NEW q, waiting' = waiting \union {q}
    PROVE  /\ IsFiniteSet(waiting') /\ Cardinality(waiting) \in Nat
           /\ Cardinality(waiting') \in Nat
           /\ Cardinality(waiting') <= Cardinality(waiting) + 1
<1>1. IsFiniteSet(waiting') /\ Cardinality(waiting) \in Nat /\ Cardinality(waiting') \in Nat
  BY FS_AddElement, FS_CardinalityType
<1>2. CASE q \in waiting
  <2>1. waiting' = waiting
    BY <1>2
  <2>2. Cardinality(waiting') = Cardinality(waiting)
    BY <2>1
  <2>. QED  BY <1>1, <2>2
<1>3. CASE q \notin waiting
  BY <1>1, <1>3, FS_AddElement
<1>. QED  BY <1>2, <1>3

\* Every step keeps types, shape and bound of the queue.
LEMMA ControlTypeStep == CInv /\ [ControlNext]_controlVars => CInv'
<1>. SUFFICES ASSUME CInv, [ControlNext]_controlVars PROVE CInv'
  OBVIOUS
<1>0. /\ ControlTypes /\ Shape /\ Queued
      /\ IsFiniteSet(waiting) /\ Cardinality(waiting) \in Nat /\ MaxWaiting \in Nat
  BY FS_CardinalityType, ControlAssumption DEF CInv, Queued
<1>1. CASE Submit
  <2>1. /\ Cardinality(waiting) < MaxWaiting
        /\ UNCHANGED <<outside, ready, state, job, prog, killed>>
    BY <1>1 DEF Submit
  <2>2. PICK q \in Requests : /\ waiting' = waiting \union {q}
                              /\ q.op = "reload" => q.arg \in {"add", "delete", "update"}
    BY <1>0, <1>1, SubmitTypes
  <2>3. Queued'
    BY <1>0, <2>1, <2>2, QueueGrows DEF Queued, Free
  <2>4. ControlTypes'
    <3>1. uci' \in Cfgs /\ stopFlag' \in BOOLEAN
      BY <1>0, <1>1, SubmitTypes
    <3>2. waiting' \subseteq Requests /\ Asked'
      BY <1>0, <2>2 DEF ControlTypes, Asked
    <3>. QED  BY <1>0, <2>1, <3>1, <3>2 DEF ControlTypes, outside, prog, Free, Done
  <2>5. Shape'
    BY <1>0, <2>1 DEF Shape, NowShape, LastFlow, Done, prog
  <2>. QED  BY <2>3, <2>4, <2>5 DEF CInv
<1>2. ASSUME NEW req \in waiting, Acquire(req) PROVE CInv'
  <2>1. Shape' /\ ~Free' /\ job' \in [op : Ops, cfg : Cfgs]
    BY <1>0, <1>2, AcquireFlow
  <2>2. /\ Free /\ waiting' = waiting \ {req}
        /\ UNCHANGED <<files, outside, uci, killed>>
    BY <1>2 DEF Acquire
  <2>3. Queued'
    <3>1. IsFiniteSet(waiting') /\ Cardinality(waiting') = Cardinality(waiting) - 1
      BY <1>0, <2>2, FS_RemoveElement
    <3>. QED  BY <1>0, <2>1, <2>2, <3>1 DEF Queued
  <2>4. ControlTypes'
    BY <1>0, <2>1, <2>2 DEF ControlTypes, Asked, files, outside
  <2>. QED  BY <2>1, <2>3, <2>4 DEF CInv
<1>3. CASE Step
  <2>1. ControlTypes' /\ Shape'
    BY <1>0, <1>3, StepTypes
  <2>2. UNCHANGED <<waiting, job>>
    BY <1>3 DEF Step
  <2>. QED  BY <1>0, <2>1, <2>2 DEF CInv, Queued, Free
<1>4. CASE Unlock
  <2>1. /\ ~Free /\ Done /\ job' = NoJob /\ killed' = (killed /\ job.op # "stop")
        /\ UNCHANGED <<files, outside, uci, waiting, prog>>
    BY <1>4 DEF Unlock
  <2>2. killed' \in BOOLEAN
    BY <1>0, <2>1 DEF ControlTypes
  <2>3. Done'
    BY <2>1 DEF Done, prog
  <2>4. ControlTypes'
    BY <1>0, <2>1, <2>2, <2>3 DEF ControlTypes, Asked, files, outside
  <2>5. Shape'
    BY <2>3, EmptyChain DEF Shape, NowShape, Done
  <2>6. Queued'
    BY <1>0, <2>1 DEF Queued, Free
  <2>. QED  BY <2>4, <2>5, <2>6 DEF CInv
<1>5. CASE KillPolling
  <2>1. /\ ~Free /\ job' = NoJob /\ killed' = TRUE
        /\ Shape' /\ Done'
        /\ UNCHANGED <<outside, ready, state, uci>>
    BY <1>0, <1>5, FinishFlow DEF KillPolling, ControlTypes
  <2>2. stopFlag' \in BOOLEAN
    BY <1>0, <1>5 DEF KillPolling, ControlTypes
  <2>3. \/ waiting' = waiting
        \/ \E q \in Requests : waiting' = waiting \union {q} /\ q.op # "reload"
    <3>1. CASE Request("stop", "", <<>>)
      <4>. DEFINE q == [op |-> "stop", arg |-> "", list |-> <<>>, cfg |-> uci']
      <4>1. q \in Requests
        BY <1>0, <2>1 DEF Requests, ControlTypes, Ops
      <4>2. waiting' = waiting \union {q} /\ q.op = "stop"
        BY <3>1 DEF Request
      <4>. QED  BY <4>1, <4>2
    <3>2. CASE Request("start", "", <<>>)
      <4>. DEFINE q == [op |-> "start", arg |-> "", list |-> <<>>, cfg |-> uci']
      <4>1. q \in Requests
        BY <1>0, <2>1 DEF Requests, ControlTypes, Ops
      <4>2. waiting' = waiting \union {q} /\ q.op = "start"
        BY <3>2 DEF Request
      <4>. QED  BY <4>1, <4>2
    <3>. QED  BY <1>5, <3>1, <3>2 DEF KillPolling
  <2>4. ControlTypes'
    BY <1>0, <2>1, <2>2, <2>3 DEF ControlTypes, Asked, outside
  <2>5. Queued'
    <3>1. Free' /\ Cardinality(waiting) <= MaxWaiting
      BY <1>0, <2>1 DEF Queued, Free
    <3>. QED  BY <1>0, <2>3, <3>1, QueueGrows DEF Queued
  <2>. QED  BY <2>1, <2>4, <2>5 DEF CInv
<1>6. CASE UNCHANGED <<files, outside, uci, waiting, job, prog, killed>>
  BY <1>0, <1>6 DEF CInv, ControlTypes, Asked, Shape, NowShape, LastFlow, Queued, Free, Done,
                    files, outside, prog
<1>. QED
  BY <1>1, <1>2, <1>3, <1>4, <1>5, <1>6
     DEF ControlNext, ControlHalted, Traffic, controlVars

LEMMA ControlTypeInit == ControlInit => CInv
<1>. SUFFICES ASSUME ControlInit PROVE CInv
  OBVIOUS
<1>1. ControlTypes
  BY DEF ControlInit, ControlTypes, Asked, Cfgs, Free, NoState
<1>2. Shape
  BY EmptyChain DEF ControlInit, Shape, NowShape, Done
<1>3. Queued
  BY FS_EmptySet, ControlAssumption DEF ControlInit, Queued
<1>. QED  BY <1>1, <1>2, <1>3 DEF CInv

\* What a step does to the table is one of the table's own steps.
LEMMA ControlStepIsTableStep == CInv /\ [ControlNext]_controlVars => [Next]_vars
<1>. SUFFICES ASSUME CInv, [ControlNext]_controlVars PROVE [Next]_vars
  OBVIOUS
<1>0. ControlTypes /\ Shape /\ job.cfg \in Cfgs
  BY FreeOp DEF CInv
<1>1. CASE UNCHANGED table
  BY <1>1 DEF table
<1>2. CASE ~panic /\ Step
  <2>1. CASE Parse \/ RuleLoop \/ Reload \/ Ifup
    BY <1>1, <2>1 DEF Parse, RuleLoop, Reload, Ifup
  <2>2. CASE RuleStep /\ (At("ruleAdd") \/ At("ruleDel"))
    <3>1. Rule \in RuleIds /\ job.cfg[Rule].mode \in {PRIV_MODE, SHARE_MODE}
      BY <1>0, <2>2, AtRule, CfgTypes DEF At, RuleNames
    <3>. QED
      BY <1>2, <2>2, <3>1 DEF RuleStep, At, Next, RuleCommand
  <2>6. CASE RuleStep /\ ~(At("ruleAdd") \/ At("ruleDel"))
    BY <1>1, <2>6 DEF RuleStep
  <2>3. CASE StartCommand
    <3>1. DefaultSpec \in IpSpecs
      BY SpecAssumption
    <3>. QED  BY <1>1, <1>2, <2>3, <3>1 DEF StartCommand, Next, TableCommand
  <2>4. CASE StopCommand
    BY <1>1, <1>2, <2>4 DEF StopCommand, Next, RuleCommand
  <2>5. CASE ResetCommand
    BY <1>1, <1>2, <2>5 DEF ResetCommand, Next, TableCommand
  <2>. QED  BY <1>2, <2>1, <2>2, <2>3, <2>4, <2>5, <2>6 DEF Step
<1>3. CASE ~panic /\ Traffic
  <2>1. InChain \subseteq RuleIds
    <3>1. ASSUME NEW e \in RuleIds \X {0, 1} PROVE e[1] \in RuleIds
      OBVIOUS
    <3>. QED  BY <1>0, <3>1 DEF InChain, ControlTypes
  <2>. QED  BY <1>3, <2>1 DEF Traffic, Next, Packet
<1>. QED
  BY <1>1, <1>2, <1>3
     DEF ControlNext, ControlHalted, controlVars, Submit, Acquire, Unlock, KillPolling

\* The scripts use the table as its other clients do.
THEOREM ControlImplementsTable == ControlSpec => Spec
<1>1. ControlInit => Init
  BY DEF ControlInit
<1>. QED
  BY <1>1, ControlTypeInit, ControlTypeStep, ControlStepIsTableStep, PTL DEF ControlSpec, Spec

\* The handlers and what they leave in the files, in iptables and in the time
\* manager are well typed; in particular only rules with a time object are
\* ever registered, and dispatch.sh never queues more than one request beside
\* those it is allowed.
THEOREM ControlTypeCorrect == ControlSpec => []ControlTypeOK
<1>1. CInv /\ TypeOK => ControlTypeOK
  <2>. SUFFICES ASSUME CInv, TypeOK PROVE ControlTypeOK
    OBVIOUS
  <2>0. ControlTypes /\ Shape /\ Queued
    BY DEF CInv
  <2>1. \A r \in {{0}, RuleIds} : Names \X r \subseteq Commands
    BY SpecAssumption DEF Commands, RuleIds
  <2>2. LoopNames \X RuleIds \subseteq Commands
    BY SpecAssumption DEF Commands, RuleIds, LoopNames, Names
  <2>3. now \in Seq(Commands)
    BY <2>0, <2>1, SeqMonotonic, EmptySeq DEF Shape, NowShape, Chain
  <2>4. todo \in Seq(Commands)
    BY <2>0, <2>2, SeqMonotonic DEF Shape
  <2>5. last \in Seq(Commands)
    BY <2>0, <2>1, SeqMonotonic DEF Shape, Chain
  <2>6. job \in [op : Ops \union {"none"}, cfg : Cfgs]
    BY <2>0, CfgTypes DEF ControlTypes, NoJob
  <2>7. Cardinality(waiting) <= MaxWaiting + 1
    BY <2>0, FS_CardinalityType, ControlAssumption DEF Queued
  <2>. QED
    BY <2>0, <2>3, <2>4, <2>5, <2>6, <2>7 DEF ControlTypes, ControlTypeOK
<1>. QED
  BY <1>1, ControlTypeInit, ControlTypeStep, ControlImplementsTable, TypeCorrect, PTL
     DEF ControlSpec

-----------------------------------------------------------------------------
(* What the handlers leave behind.  The invariants of the released lock    *)
(* are stated at rest (no handler, or one that has done nothing yet or     *)
(* everything) and carried to the next rest by what holds from command to  *)
(* command.                                                                *)

Quiet ==
    /\ nf = {} /\ Installed = {} /\ Known = {}
    /\ Bound = {} /\ mark_bitmap = {}

Rest ==
    /\ clean
    /\ ready => ~reset_flag
    /\ tree <=> (ready /\ Installed # {})
    /\ ~ready => Quiet

AtRest == Done \/ At("setSpec") \/ At("checkEnable") \/ At("checkRoot")

Resting == AtRest /\ (~killed \/ job.op = "stop") => Rest

\* The end of a reset.
Finishing ==
    /\ At("tcDestroy") \/ At("tcInit") \/ At("resetEnd") \/ At("setReady") => clean
    /\ At("resetEnd") \/ At("setReady") => (tree <=> Installed # {})
    /\ At("setReady") => ~reset_flag

\* The handlers that neither start nor stop QoS find it as they leave it.
Serving ==
    /\ job.op \in {"reload", "time", "ipgroup"} /\ ~Done => ready
    /\ job.op = "ifup" /\ ~ready /\ ~killed => Quiet

\* The commands of qos_destroy one after the other.
Stopping ==
    job.op = "stop" =>
        /\ At("unsetReady") \/ ~ready
        /\ At("unsetReady") \/ At("clearState") \/ Installed = {}
        /\ At("unsetReady") \/ At("clearState") \/ At("nfDestroy") \/ nf = {}
        /\ At("tcDestroy") \/ At("flushRules") \/ At("unsetStop") \/ Done
              => clean /\ Bound = {} /\ mark_bitmap = {}
        /\ At("flushRules") \/ At("unsetStop") \/ Done => ~tree
        /\ At("unsetStop") \/ Done => Known = {}

RInv == Resting /\ Finishing /\ Serving /\ Stopping

LEMMA SameProgram == UNCHANGED prog => Done' = Done /\ Current' = Current
BY DEF prog, Done, Current

\* Packets and connections: no rule, no file and no flag changes, and where
\* iptables has no rule and nothing is bound, nothing happens.
LEMMA TrafficKeeps ==
    ASSUME ControlTypes, TypeOK, Traffic
    PROVE  /\ UNCHANGED <<files, outside, uci, waiting, job, prog, killed, clean, reset_flag>>
           /\ Known' = Known
           /\ nf = {} /\ Bound = {} => Bound' = {} /\ mark_bitmap' = mark_bitmap
<1>1. UNCHANGED <<files, outside, uci, waiting, job, prog, killed>>
  BY DEF Traffic
<1>2. InChain \subseteq RuleIds /\ (nf = {} => InChain = {})
  <2>1. ASSUME NEW e \in RuleIds \X {0, 1} PROVE e[1] \in RuleIds
    OBVIOUS
  <2>. QED  BY <2>1 DEF InChain, ControlTypes
<1>3. ASSUME NEW ip \in IPs, NEW id \in InChain,
             \/ qmark_alloc_mark_auto(ip, id)
             \/ AllocMarkAutoFails(ip, id)
             \/ AllocMarkAutoOops(ip, id)
      PROVE  UNCHANGED <<clean, reset_flag>> /\ Known' = Known /\ nf # {}
  <2>1. nf # {} /\ id \in RuleIds
    BY <1>2
  <2>2. UNCHANGED <<clean, reset_flag>>
    BY <1>3 DEF qmark_alloc_mark_auto, AllocMarkAutoFails, AllocMarkAutoOops
  <2>3. \A r \in RuleIds : g_ruletbl'[r].par = g_ruletbl[r].par
    <3>1. CASE qmark_alloc_mark_auto(ip, id)
      BY <2>1, <3>1 DEF qmark_alloc_mark_auto, TypeOK
    <3>2. CASE AllocMarkAutoFails(ip, id)
      BY <2>1, <3>2 DEF AllocMarkAutoFails, TypeOK
    <3>3. CASE AllocMarkAutoOops(ip, id)
      BY <2>1, <3>3 DEF AllocMarkAutoOops, TypeOK
    <3>. QED  BY <1>3, <3>1, <3>2, <3>3
  <2>. QED  BY <2>1, <2>2, <2>3 DEF Known
<1>4. ASSUME NEW ip \in IPs, ConntrackMark(ip) \/ ConntrackDestroy(ip)
      PROVE  UNCHANGED <<clean, reset_flag>> /\ Known' = Known /\ Bound # {}
  <2>1. ip \in Bound
    BY <1>4 DEF ConntrackMark, ConntrackDestroy
  <2>2. UNCHANGED <<clean, reset_flag>>
    BY <1>4 DEF ConntrackMark, ConntrackDestroy, PutEntry
  <2>3. \A r \in RuleIds : g_ruletbl'[r].par = g_ruletbl[r].par
    <3>1. CASE ConntrackMark(ip)
      BY <3>1 DEF ConntrackMark
    <3>2. CASE ConntrackDestroy(ip)
      <4>1. marktbl[ip].id \in RuleIds
        BY <2>1 DEF Bound, TypeOK, NoEntry
      <4>2. \/ g_ruletbl' = g_ruletbl
            \/ g_ruletbl' = [g_ruletbl EXCEPT ![marktbl[ip].id].count = @ - 1,
                                              ![marktbl[ip].id].mark = 0]
            \/ g_ruletbl' = [g_ruletbl EXCEPT ![marktbl[ip].id].count = @ - 1]
        BY <3>2 DEF ConntrackDestroy, PutEntry
      <4>. QED  BY <4>1, <4>2 DEF TypeOK
    <3>. QED  BY <1>4, <3>1, <3>2
  <2>. QED  BY <2>1, <2>2, <2>3 DEF Known
<1>. QED  BY <1>1, <1>3, <1>4 DEF Traffic, Conntrack

\* A handler in the middle of its work owes nothing yet.
LEMMA Underway ==
    ASSUME RInv, ~Done, job.op \in LoopOps, UNCHANGED <<job, ready, killed>>, ~Done',
           Current'[1] \in LoopNames \union RuleNames \union {"genState", "resetBegin"}
    PROVE  RInv'
<1>1. ~AtRest'
  BY DEF AtRest, At, LoopNames, RuleNames
<1>2. Finishing'
  BY DEF Finishing, At, LoopNames, RuleNames
<1>. QED  BY <1>1, <1>2 DEF RInv, Resting, Serving, Stopping, LoopOps

\* The loops over the rules, and what they do to one rule.
LEMMA LoopRest ==
    ASSUME Shape, RInv, Parse \/ RuleLoop \/ Reload \/ RuleStep, UNCHANGED <<job, killed>>
    PROVE  RInv'
<1>. DEFINE Middle == ~Done' /\ Current'[1] \in LoopNames \union RuleNames
                                                 \union {"genState", "resetBegin"}
<1>0. ~Done /\ Current[1] \in LoopNames \union RuleNames
  BY DEF Parse, RuleLoop, Reload, RuleStep, At, LoopNames, RuleNames
<1>1. ready' = ready
  BY DEF Parse, RuleLoop, Reload, RuleStep, files
<1>2. job.op \in LoopOps
  BY <1>0, AtRule
<1>3. /\ Turn' => Middle
      /\ \A x \in RuleNames : At(x)' => Middle
  BY DEF Turn, At
<1>4. CASE Proceed
  <2>1. \/ Turn'
        \/ At("nfAdd")' \/ At("setInstall")' \/ At("unsetInstall")'
        \/ At("ruleDel")' \/ At("install")' \/ At("forget")'
    BY <1>0, <1>4, After DEF At, LoopNames, RuleNames
  <2>2. Middle
    BY <1>3, <2>1 DEF RuleNames
  <2>. QED  BY <1>0, <1>1, <1>2, <2>2, Underway
<1>5. CASE At("install") /\ Load(qos_rule_install(Rule), todo, last)
  <2>1. At("ruleAdd")'
    BY <1>0, <1>5, ReinstallFlow
  <2>. QED  BY <1>0, <1>1, <1>2, <1>3, <2>1, Underway DEF RuleNames
<1>6. CASE ~Proceed /\ ~At("install")
  <2>1. Current[1] \in LoopNames \ {"newState"}
    BY <1>0, <1>6 DEF Parse, RuleLoop, Reload, RuleStep, At, LoopNames
  <2>2. \/ Break
        \/ Enter(qos_rule_install(Rule))
        \/ Enter(Append(qos_rule_install(Rule), <<"newState", Rule>>))
        \/ Enter(qos_rule_uninstall(Rule))
        \/ Enter(Append(qos_rule_uninstall(Rule), <<"install", Rule>>))
        \/ Enter(Append(qos_rule_uninstall(Rule), <<"forget", Rule>>))
        \/ Enter(<<<<"forget", Rule>>>>)
        \/ Enter(<<<<"newState", Rule>>>>)
    BY <1>6 DEF Parse, RuleLoop, Reload, RuleStep
  <2>3. Turn' \/ At("ruleAdd")' \/ At("nfDel")' \/ At("forget")' \/ At("newState")'
    BY <1>0, <2>1, <2>2, TurnFlow
  <2>4. Middle
    BY <1>3, <2>3 DEF RuleNames
  <2>. QED  BY <1>0, <1>1, <1>2, <2>4, Underway
<1>. QED  BY <1>4, <1>5, <1>6 DEF RuleLoop, Parse, Reload, RuleStep, At

\* Nothing is bound in an empty table.
LEMMA EmptyTable ==
    ASSUME marktbl' = [ip \in IPs |-> NoEntry]
    PROVE  Bound' = {}
BY DEF Bound, NoEntry

\* The prelude of qos_start and its last command.
LEMMA StartRest ==
    ASSUME ControlTypes, Shape, RInv, StartCommand, UNCHANGED <<job, killed>>
    PROVE  RInv'
<1>0. ~Done
  BY DEF StartCommand, At
<1>1. job.op = "start"
  BY <1>0, Place DEF InPlace, StartCommand, At, RuleNames, LoopNames, StopNames, ResetNames
<1>2. CASE At("setSpec")
  <2>1. /\ At("checkEnable")'
        /\ qmark_set_spec(DefaultSpec)
        /\ UNCHANGED <<ready, state, nf, tree>>
    BY <1>0, <1>2, After DEF StartCommand, At, files, outside
  <2>2. clean' /\ Bound' = {} /\ mark_bitmap' = {} /\ reset_flag' = reset_flag
    BY <2>1, EmptyTable DEF qmark_set_spec
  <2>3. Known' = {}
    BY <2>1 DEF qmark_set_spec, Known, ZeroRule
  <2>4. Installed' = Installed
    BY <2>1 DEF Installed
  <2>5. Resting'
    BY <1>2, <2>1, <2>2, <2>3, <2>4 DEF RInv, Resting, AtRest, Rest, Quiet
  <2>. QED  BY <1>1, <2>1, <2>5 DEF RInv, Finishing, Serving, Stopping, At
<1>3. CASE At("checkEnable")
  <2>1. UNCHANGED <<table, ready, state, nf, tree>>
    BY <1>3 DEF StartCommand, At, files, outside
  <2>2. Installed' = Installed /\ Known' = Known /\ Bound' = Bound
    BY <2>1 DEF Installed, Known, Bound, table, vars
  <2>3. Rest' = Rest
    BY <2>1, <2>2 DEF Rest, Quiet, table, vars
  <2>4. CASE Finish
    <3>1. Done'
      BY <2>4, FinishFlow
    <3>. QED
      BY <1>1, <1>3, <2>3, <3>1 DEF RInv, Resting, AtRest, Finishing, Serving, Stopping, At
  <2>5. CASE Proceed
    <3>1. At("genState")' \/ Turn'
      BY <1>0, <1>3, <2>5, After
    <3>. QED  BY <1>0, <1>1, <2>1, <3>1, Underway DEF At, Turn, LoopOps
  <2>. QED  BY <1>3, <2>4, <2>5 DEF StartCommand, At
<1>4. CASE At("genState")
  <2>1. Turn' /\ ready' = ready
    BY <1>0, <1>4, After DEF StartCommand, At
  <2>. QED  BY <1>0, <1>1, <2>1, Underway DEF Turn, LoopOps
<1>5. CASE At("setReady")
  <2>1. Done' /\ ready' /\ UNCHANGED <<table, state, nf, tree>>
    BY <1>0, <1>5, After DEF StartCommand, At, outside
  <2>2. Installed' = Installed
    BY <2>1 DEF Installed
  <2>3. Rest'
    BY <1>5, <2>1, <2>2 DEF RInv, Finishing, Rest, table, vars
  <2>. QED  BY <1>1, <2>1, <2>3 DEF RInv, Resting, Finishing, Serving, Stopping, At
<1>. QED  BY <1>2, <1>3, <1>4, <1>5 DEF StartCommand

\* qos_destroy, its reset included.
LEMMA StopRest ==
    ASSUME ControlTypes, Shape, RInv, StopCommand \/ (ResetCommand /\ job.op = "stop"),
           UNCHANGED <<job, killed>>
    PROVE  RInv'
<1>0. ~Done
  BY DEF StopCommand, ResetCommand, At
<1>1. job.op = "stop" /\ Current[1] \in StopNames
  BY <1>0, Place DEF InPlace, StopCommand, ResetCommand, At, RuleNames, LoopNames, StopNames,
                     ResetNames
<1>. SUFFICES Finishing' /\ Stopping' /\ (Done' => Rest')
  <2>1. ~Done' => ~AtRest'
    <3>1. At("setSpec")' \/ At("checkEnable")' \/ At("checkRoot")' => Shape' /\ InPlace'
      BY <1>0, After, PlaceNext DEF StopCommand, ResetCommand, At
    <3>2. job'.op = "stop"
      BY <1>1
    <3>. QED
      BY <3>1, <3>2 DEF AtRest, InPlace, At, StopNames, LoopOps
  <2>. QED  BY <1>1, <2>1 DEF RInv, Resting, Serving
<1>2. CASE At("unsetReady")
  <2>1. At("clearState")' /\ ready' = FALSE
    BY <1>0, <1>2, After DEF StopCommand, ResetCommand, At
  <2>. QED  BY <2>1 DEF Finishing, Stopping, At
<1>3. CASE At("clearState")
  <2>1. At("nfDestroy")' /\ ready' = ready /\ state' = [r \in RuleIds |-> NoState]
    BY <1>0, <1>3, After DEF StopCommand, ResetCommand, At
  <2>2. Installed' = {}
    BY <2>1 DEF Installed, NoState
  <2>. QED  BY <1>1, <1>3, <2>1, <2>2 DEF RInv, Finishing, Stopping, At
<1>4. CASE At("nfDestroy")
  <2>1. At("resetBegin")' /\ ready' = ready /\ nf' = {} /\ state' = state
    BY <1>0, <1>4, After DEF StopCommand, ResetCommand, At, files
  <2>2. Installed' = Installed
    BY <2>1 DEF Installed
  <2>. QED  BY <1>1, <1>4, <2>1, <2>2 DEF RInv, Finishing, Stopping, At
<1>5. CASE At("resetBegin")
  <2>1. At("resetFlush")' /\ UNCHANGED <<ready, nf, state>>
    BY <1>0, <1>5, After DEF StopCommand, ResetCommand, At, files, outside
  <2>2. Installed' = Installed
    BY <2>1 DEF Installed
  <2>. QED  BY <1>1, <1>5, <2>1, <2>2 DEF RInv, Finishing, Stopping, At
<1>6. CASE At("resetFlush")
  <2>1. At("tcDestroy")' /\ ResetFlush /\ UNCHANGED <<ready, nf, state>>
    BY <1>0, <1>6, After DEF StopCommand, ResetCommand, At, files, outside
  <2>2. Installed' = Installed
    BY <2>1 DEF Installed
  <2>3. clean' /\ Bound' = {} /\ mark_bitmap' = {}
    BY <2>1, EmptyTable DEF ResetFlush
  <2>. QED  BY <1>1, <1>6, <2>1, <2>2, <2>3 DEF RInv, Finishing, Stopping, At
<1>7. CASE At("tcDestroy")
  <2>1. At("flushRules")' /\ tree' = FALSE /\ UNCHANGED <<table, ready, nf, state>>
    BY <1>0, <1>1, <1>7, After DEF StopCommand, ResetCommand, At, files
  <2>2. Installed' = Installed /\ Bound' = Bound /\ UNCHANGED <<clean, mark_bitmap>>
    BY <2>1 DEF Installed, Bound, table, vars
  <2>. QED  BY <1>1, <1>7, <2>1, <2>2 DEF RInv, Finishing, Stopping, At
<1>8. CASE At("flushRules")
  <2>1. At("unsetStop")' /\ qmark_flush_rule /\ UNCHANGED <<ready, nf, tree, state>>
    BY <1>0, <1>1, <1>8, After DEF StopCommand, ResetCommand, At, files, outside
  <2>2. Installed' = Installed /\ Bound' = Bound /\ Known' = {}
    BY <2>1 DEF Installed, Bound, Known, qmark_flush_rule, ZeroRule
  <2>3. clean' = (clean /\ Bound = {}) /\ mark_bitmap' = mark_bitmap
    BY <2>1 DEF qmark_flush_rule
  <2>. QED  BY <1>1, <1>8, <2>1, <2>2, <2>3 DEF RInv, Finishing, Stopping, At
<1>9. CASE At("unsetStop")
  <2>1. Done' /\ UNCHANGED <<table, ready, nf, tree, state>>
    BY <1>0, <1>1, <1>9, After DEF StopCommand, ResetCommand, At, outside
  <2>2. Installed' = Installed /\ Bound' = Bound /\ Known' = Known
        /\ UNCHANGED <<clean, mark_bitmap>>
    BY <2>1 DEF Installed, Bound, Known, table, vars
  <2>3. Rest'
    BY <1>1, <1>9, <2>1, <2>2 DEF RInv, Stopping, At, Rest, Quiet
  <2>. QED  BY <1>1, <1>9, <2>1, <2>2, <2>3 DEF RInv, Finishing, Stopping, At
<1>. QED
  BY <1>0, <1>1, <1>2, <1>3, <1>4, <1>5, <1>6, <1>7, <1>8, <1>9 DEF At, StopNames

\* qos_reset at the end of the other handlers.
LEMMA ResetRest ==
    ASSUME ControlTypes, Shape, RInv, ResetCommand, job.op # "stop", UNCHANGED <<job, killed>>
    PROVE  RInv'
<1>0. ~Done /\ Current[1] \in ResetNames
  BY DEF ResetCommand, At, ResetNames
<1>1. UNCHANGED <<ready, state, nf>> /\ job'.op # "stop" /\ job.op \in Ops
  BY <1>0 DEF ResetCommand, files, outside, Shape
<1>2. Installed' = Installed
  BY <1>1 DEF Installed
<1>3. Quiet => Quiet'
  <2>1. CASE UNCHANGED table
    BY <1>1, <1>2, <2>1 DEF Quiet, table, vars, Bound, Known
  <2>2. CASE ResetBegin \/ ResetEnd
    BY <1>1, <1>2, <2>2 DEF Quiet, Bound, Known, ResetBegin, ResetEnd
  <2>3. CASE ResetFlush
    <3>1. Bound' = {} /\ mark_bitmap' = {}
      BY <2>3, EmptyTable DEF ResetFlush
    <3>2. Known = {} => Known' = {}
      BY <2>3 DEF ResetFlush, CountsCleared, Known
    <3>. QED  BY <1>1, <1>2, <3>1, <3>2 DEF Quiet
  <2>. QED  BY <2>1, <2>2, <2>3 DEF ResetCommand
<1>4. Serving'
  BY <1>0, <1>1, <1>3 DEF RInv, Serving
<1>5. Stopping'
  BY <1>1 DEF Stopping
<1>. SUFFICES Resting' /\ Finishing'
  BY <1>4, <1>5 DEF RInv
<1>6. CASE At("resetBegin") \/ At("resetFlush")
  <2>1. \/ At("resetFlush")'
        \/ At("tcDestroy")' /\ clean'
    BY <1>0, <1>6, After DEF ResetCommand, At, ResetFlush
  <2>. QED  BY <2>1 DEF Resting, AtRest, Finishing, At
<1>7. CASE At("tcDestroy")
  <2>1. At("tcInit")' /\ clean' = clean
    BY <1>0, <1>7, After DEF ResetCommand, At, table, vars
  <2>. QED  BY <1>7, <2>1 DEF RInv, Resting, AtRest, Finishing, At
<1>8. CASE At("tcInit")
  <2>1. At("resetEnd")' /\ clean' = clean /\ tree' = (Installed # {})
    BY <1>0, <1>8, After DEF ResetCommand, At, table, vars
  <2>. QED  BY <1>2, <1>8, <2>1 DEF RInv, Resting, AtRest, Finishing, At
<1>9. CASE At("resetEnd")
  <2>1. /\ ResetEnd /\ tree' = tree
        /\ IF job.op = "start" THEN At("setReady")' ELSE Done'
    BY <1>0, <1>9, After DEF ResetCommand, At, outside
  <2>2. clean' /\ ~reset_flag' /\ (tree' <=> Installed' # {})
    BY <1>2, <1>9, <2>1 DEF RInv, Finishing, ResetEnd
  <2>3. Finishing'
    BY <2>2 DEF Finishing
  <2>4. Resting'
    <3>1. CASE job.op = "start"
      BY <2>1, <3>1 DEF Resting, AtRest, At
    <3>2. CASE job.op # "start"
      <4>1. ~ready /\ ~killed => Quiet
        BY <1>0, <1>1, <3>2 DEF RInv, Serving, Ops
      <4>2. ~ready' /\ ~killed' => Quiet' /\ Installed' = {}
        BY <1>1, <1>3, <4>1 DEF Quiet
      <4>. QED  BY <1>1, <2>1, <2>2, <4>2 DEF Resting, Rest
    <3>. QED  BY <3>1, <3>2
  <2>. QED  BY <2>3, <2>4
<1>. QED  BY <1>0, <1>6, <1>7, <1>8, <1>9 DEF At, ResetNames

\* qos_ifup_handle looks for the tc root.
LEMMA IfupRest ==
    ASSUME Shape, RInv, Ifup, UNCHANGED <<job, killed>>
    PROVE  RInv'
<1>0. ~Done /\ job.op = "ifup" /\ UNCHANGED <<table, ready, state, nf, tree>>
  BY Place DEF Ifup, InPlace, At, RuleNames, LoopNames, StopNames, ResetNames, files, outside
<1>1. Installed' = Installed /\ Known' = Known /\ Bound' = Bound
  BY <1>0 DEF Installed, Known, Bound, table, vars
<1>2. Rest' = Rest /\ Quiet' = Quiet
  BY <1>0, <1>1 DEF Rest, Quiet, table, vars
<1>3. Serving' /\ Stopping'
  BY <1>0, <1>2 DEF RInv, Serving, Stopping
<1>4. CASE Proceed
  <2>1. Turn'
    BY <1>0, <1>4, After DEF Ifup
  <2>. QED  BY <1>3, <2>1 DEF RInv, Resting, AtRest, Finishing, At, Turn, LoopNames
<1>5. CASE Finish
  <2>1. Done'
    BY <1>5, FinishFlow
  <2>2. AtRest
    BY DEF AtRest, Ifup
  <2>. QED  BY <1>0, <1>2, <1>3, <2>1, <2>2 DEF RInv, Resting, Finishing, At
<1>. QED  BY <1>4, <1>5 DEF Ifup

\* Every step keeps what holds at rest and on the way to it.
LEMMA RInvStep == CInv /\ TypeOK /\ RInv /\ [ControlNext]_controlVars => RInv'
<1>. SUFFICES ASSUME CInv, TypeOK, RInv, [ControlNext]_controlVars PROVE RInv'
  OBVIOUS
<1>0. ControlTypes /\ Shape
  BY DEF CInv
<1>1. CASE UNCHANGED <<table, ready, state, outside, job, prog, killed>>
  <2>1. Done' = Done /\ Current' = Current
    BY <1>1, SameProgram
  <2>2. Installed' = Installed /\ Known' = Known /\ Bound' = Bound
    BY <1>1 DEF Installed, Known, Bound, table, vars
  <2>3. Rest' = Rest /\ Quiet' = Quiet /\ AtRest' = AtRest
    BY <1>1, <2>1, <2>2 DEF Rest, Quiet, AtRest, At, table, vars, outside
  <2>. QED
    BY <1>1, <2>1, <2>2, <2>3
       DEF RInv, Resting, Finishing, Serving, Stopping, At, table, vars, outside
<1>2. ASSUME NEW req \in waiting, Acquire(req) PROVE RInv'
  <2>1. /\ Free /\ UNCHANGED <<table, ready, state, nf, tree, killed>>
    BY <1>2 DEF Acquire, files, outside
  <2>2. Done /\ job.op = "none"
    BY <1>0, <2>1, FreeOp DEF ControlTypes
  <2>3. ~killed => Rest
    BY <2>2 DEF RInv, Resting, AtRest
  <2>4. Installed' = Installed /\ Known' = Known /\ Bound' = Bound
    BY <2>1 DEF Installed, Known, Bound, table, vars
  <2>5. Rest' = Rest /\ Quiet' = Quiet
    BY <2>1, <2>4 DEF Rest, Quiet, table, vars
  <2>6. /\ job'.op = req.op /\ job'.op \in Ops
        /\ req.op = "start" => At("setSpec")'
        /\ req.op = "stop" => At("unsetReady")'
        /\ req.op = "ifup" => At("checkRoot")'
        /\ req.op \in {"reload", "time", "ipgroup"} => Done' \/ (ready /\ Turn')
    BY <1>0, <1>2, AcquireFlow
  <2>7. Resting'
    <3>1. job'.op = "stop" => ~AtRest'
      BY <2>6 DEF AtRest, At
    <3>. QED  BY <2>1, <2>3, <2>5, <3>1 DEF Resting
  <2>8. Finishing'
    BY <2>6 DEF Finishing, At, Turn, LoopNames, Ops
  <2>9. Serving'
    BY <2>1, <2>3, <2>5, <2>6 DEF Serving, Rest
  <2>10. Stopping'
    BY <2>6 DEF Stopping, At
  <2>. QED  BY <2>7, <2>8, <2>9, <2>10 DEF RInv
<1>3. CASE Step
  <2>1. UNCHANGED <<job, killed>>
    BY <1>3 DEF Step
  <2>. QED
    BY <1>0, <1>3, <2>1, LoopRest, StartRest, StopRest, ResetRest, IfupRest DEF Step
<1>4. CASE Unlock
  <2>1. /\ Done /\ job' = NoJob /\ killed' = (killed /\ job.op # "stop")
        /\ UNCHANGED <<table, ready, state, nf, tree, prog>>
    BY <1>4 DEF Unlock, files, outside
  <2>2. Done' /\ job'.op = "none"
    BY <2>1, SameProgram, CfgTypes
  <2>3. Installed' = Installed /\ Known' = Known /\ Bound' = Bound
    BY <2>1 DEF Installed, Known, Bound, table, vars
  <2>4. Rest' = Rest
    BY <2>1, <2>3 DEF Rest, Quiet, table, vars
  <2>5. Resting'
    BY <2>1, <2>2, <2>4 DEF RInv, Resting, AtRest
  <2>. QED  BY <2>2, <2>5 DEF RInv, Finishing, Serving, Stopping, At
<1>5. CASE KillPolling
  <2>1. Done' /\ job'.op = "none" /\ killed'
    BY <1>5, FinishFlow, CfgTypes DEF KillPolling
  <2>. QED  BY <2>1 DEF RInv, Resting, Finishing, Serving, Stopping, At
<1>6. CASE Traffic
  <2>1. /\ UNCHANGED <<files, outside, job, prog, killed, clean, reset_flag>>
        /\ Known' = Known
        /\ nf = {} /\ Bound = {} => Bound' = {} /\ mark_bitmap' = mark_bitmap
    BY <1>0, <1>6, TrafficKeeps
  <2>2. UNCHANGED <<ready, state, nf, tree>> /\ Installed' = Installed
    BY <2>1 DEF files, outside, Installed
  <2>3. Done' = Done /\ Current' = Current
    BY <2>1, SameProgram
  <2>4. Quiet => Quiet'
    BY <2>1, <2>2 DEF Quiet
  <2>5. Rest => Rest'
    BY <2>1, <2>2, <2>4 DEF Rest
  <2>6. Resting'
    BY <2>1, <2>3, <2>5 DEF RInv, Resting, AtRest, At
  <2>7. Finishing'
    BY <2>1, <2>2, <2>3 DEF RInv, Finishing, At
  <2>8. Serving'
    BY <2>1, <2>2, <2>3, <2>4 DEF RInv, Serving
  <2>9. Stopping'
    BY <2>1, <2>2, <2>3 DEF RInv, Stopping, At
  <2>. QED  BY <2>6, <2>7, <2>8, <2>9 DEF RInv
<1>. QED
  BY <1>1, <1>2, <1>3, <1>4, <1>5, <1>6 DEF ControlNext, ControlHalted, controlVars, Submit, files

LEMMA RInvInit == ControlInit => RInv
<1>. SUFFICES ASSUME ControlInit PROVE RInv
  OBVIOUS
<1>1. job.op = "none" /\ Done
  BY CfgTypes DEF ControlInit
<1>2. Known = {} /\ Bound = {} /\ Installed = {}
  BY DEF ControlInit, Init, Known, Bound, Installed, ZeroRule, NoEntry, NoState
<1>3. Rest
  BY <1>2 DEF ControlInit, Init, Rest, Quiet
<1>. QED  BY <1>1, <1>3 DEF RInv, Resting, Finishing, Serving, Stopping, At

\* The inductive invariant of the handlers' own bookkeeping: the programs are
\* of the shape core.sh gives them, and from each command to the next the
\* facts that make up a released lock are carried along.
THEOREM RestHolds == ControlSpec => [](CInv /\ RInv)
BY ControlTypeInit, ControlTypeStep, RInvInit, RInvStep, ControlImplementsTable, TypeCorrect, PTL
   DEF ControlSpec

\* At a released lock no handler was interrupted: everything is as at rest.
LEMMA FreeAtRest == CInv /\ RInv /\ Free /\ ~killed => Rest
BY DEF CInv, ControlTypes, RInv, Resting, AtRest

\* Whatever is requested, in whatever order, and wherever packets come in
\* between: rules that were rewritten under live bindings were flushed from
\* the table before flock -u.
THEOREM UnlockedCleanHolds == ControlSpec => []UnlockedClean
<1>1. CInv /\ RInv => UnlockedClean
  BY FreeAtRest DEF UnlockedClean, Rest
<1>. QED  BY <1>1, RestHolds, PTL

\* qos_reset is always carried through: QoS that is ready gives out marks.
THEOREM ReadyServesHolds == ControlSpec => []ReadyServes
<1>1. CInv /\ RInv => ReadyServes
  BY FreeAtRest DEF ReadyServes, Rest
<1>. QED  BY <1>1, RestHolds, PTL

\* The tc trees stand exactly while QoS runs with a rule installed, whichever
\* of start, stop, reload, time, ipgroup and ifup came last.
THEOREM TreeFollowsRulesHolds == ControlSpec => []TreeFollowsRules
<1>1. CInv /\ RInv => TreeFollowsRules
  BY FreeAtRest DEF TreeFollowsRules, Rest
<1>. QED  BY <1>1, RestHolds, PTL

\* qos_destroy leaves nothing of QoS in iptables, in state.data or in the
\* kernel, and nothing comes back until the next start.
THEOREM StoppedQuietHolds == ControlSpec => []StoppedQuiet
<1>1. CInv /\ RInv => StoppedQuiet
  BY FreeAtRest DEF StoppedQuiet, Rest, Quiet
<1>. QED  BY <1>1, RestHolds, PTL

-----------------------------------------------------------------------------
(* Rules the kernel was told.  A second start would empty the kernel's     *)
(* rules under the entries of iptables (the run start_twice), and so would *)
(* a start after a handler that was killed: both are left out here.        *)

\* One start at a time, and none while QoS is ready.
OneStart ==
    /\ ~killed
    /\ \A q \in waiting : q.op = "start" => ~ready /\ job.op # "start"
    /\ \A p, q \in waiting : p.op = "start" /\ q.op = "start" => p = q
    /\ job.op = "start" => ~ready \/ Done

\* iptables names no rule before `qmark -a' or after `qmark -d'.
ChainKnown ==
    /\ InChain \subseteq Known
    /\ At("nfAdd") => Rule \in Known
    /\ At("unsetInstall") \/ At("ruleDel") => Rule \notin InChain

KInv == OneStart /\ ChainKnown /\ BoundUnderKnownRule

\* Where a command leads that does not simply proceed.
LEMMA StepFlow ==
    ASSUME Shape, Step
    PROVE  /\ ~Done
           /\ \/ Proceed
              \/ Finish /\ Done'
              \/ Break /\ Turn' /\ Current[1] \in LoopNames \ {"newState"}
              \/ /\ Current[1] \in (LoopNames \ {"newState"}) \union {"install"}
                 /\ Rule' = Rule
                 /\ At("ruleAdd")' \/ At("nfDel")' \/ At("forget")' \/ At("newState")'
<1>0. ~Done /\ UNCHANGED job
  BY DEF Step, Parse, RuleLoop, Reload, RuleStep, StartCommand, StopCommand, ResetCommand,
         Ifup, At
<1>1. CASE Proceed
  BY <1>0, <1>1
<1>2. CASE Finish
  BY <1>0, <1>2, FinishFlow
<1>3. CASE At("install") /\ Load(qos_rule_install(Rule), todo, last)
  BY <1>0, <1>3, ReinstallFlow DEF At
<1>4. CASE ~Proceed /\ ~Finish /\ ~At("install")
  <2>1. Current[1] \in LoopNames \ {"newState"}
    BY <1>4 DEF Step, Parse, RuleLoop, Reload, RuleStep, StartCommand, StopCommand,
                ResetCommand, Ifup, At, LoopNames
  <2>2. \/ Break
        \/ Enter(qos_rule_install(Rule))
        \/ Enter(Append(qos_rule_install(Rule), <<"newState", Rule>>))
        \/ Enter(qos_rule_uninstall(Rule))
        \/ Enter(Append(qos_rule_uninstall(Rule), <<"install", Rule>>))
        \/ Enter(Append(qos_rule_uninstall(Rule), <<"forget", Rule>>))
        \/ Enter(<<<<"forget", Rule>>>>)
        \/ Enter(<<<<"newState", Rule>>>>)
    BY <1>4 DEF Step, Parse, RuleLoop, Reload, RuleStep, StartCommand, StopCommand,
                ResetCommand, Ifup
  <2>. QED  BY <1>0, <2>1, <2>2, TurnFlow
<1>. QED
  BY <1>1, <1>2, <1>3, <1>4 DEF Step, Parse, RuleLoop, Reload, RuleStep, StartCommand,
     StopCommand, ResetCommand, Ifup, At

\* Where the commands of a rule come from.
LEMMA Before ==
    ASSUME Shape, Step
    PROVE  /\ At("nfAdd")' => At("ruleAdd") /\ Rule' = Rule
           /\ At("setInstall")' => At("nfAdd") /\ Rule' = Rule
           /\ At("unsetInstall")' => At("nfDel") /\ Rule' = Rule
           /\ At("ruleDel")' => At("unsetInstall") /\ Rule' = Rule
           /\ At("install")' => At("ruleDel") /\ Rule' = Rule
<1>0. ~Done /\ UNCHANGED job
  BY StepFlow DEF Step
<1>1. CASE Proceed
  <2>1. InPlace
    BY <1>0, Place
  <2>2. Turn' => ~Done' /\ Current'[1] \in LoopNames \union {"resetBegin"}
    BY DEF Turn
  <2>. QED
    BY <1>0, <1>1, <2>1, <2>2, After
       DEF InPlace, At, LoopNames, RuleNames, ResetNames, StopNames
<1>2. CASE Done'
  BY <1>2 DEF At
<1>3. CASE Turn'
  BY <1>3 DEF Turn, At, LoopNames
<1>4. CASE At("ruleAdd")' \/ At("nfDel")' \/ At("forget")' \/ At("newState")'
  BY <1>4 DEF At
<1>. QED  BY <1>1, <1>2, <1>3, <1>4, StepFlow

LEMMA OneStartStep ==
    StartsOnce /\ ~MayKill /\ CInv /\ OneStart /\ [ControlNext]_controlVars => OneStart'
<1>. SUFFICES ASSUME StartsOnce, ~MayKill, CInv, OneStart, [ControlNext]_controlVars
              PROVE  OneStart'
  OBVIOUS
<1>0. ControlTypes /\ Shape
  BY DEF CInv
<1>1. CASE UNCHANGED <<ready, waiting, job, prog, killed>>
  BY <1>1, SameProgram DEF OneStart
<1>2. CASE Submit
  <2>1. UNCHANGED <<ready, job, prog, killed>>
    BY <1>2 DEF Submit
  <2>2. PICK q : /\ waiting' = waiting \union {q}
                 /\ q.op = "start" => ~ready /\ ~Pending("start")
    <3>1. \E op, arg, list : /\ Request(op, arg, list)
                             /\ op = "start" => ~ready /\ ~Pending("start")
      <4>1. CASE RequestStart
        <5>1. Request("start", "", <<>>) /\ ~ready /\ ~Pending("start")
          BY <4>1 DEF RequestStart
        <5>. QED  BY <5>1
      <4>2. CASE RequestStop
        <5>1. Request("stop", "", <<>>) /\ "stop" # "start"
          BY <4>2 DEF RequestStop
        <5>. QED  BY <5>1
      <4>6. CASE RequestIfup
        <5>1. Request("ifup", "", <<>>) /\ "ifup" # "start"
          BY <4>6 DEF RequestIfup
        <5>. QED  BY <5>1
      <4>3. ASSUME NEW list \in Lists, NEW cfg \in Configs \union {Absent},
                   RequestReload(list, cfg)
            PROVE  \E arg : Request("reload", arg, list)
        BY <4>3 DEF RequestReload
      <4>4. ASSUME NEW list \in Lists, NEW mode \in {"ACTIVE", "EXPIRE"},
                   RequestTime(mode, list)
            PROVE  Request("time", mode, list)
        BY <4>4 DEF RequestTime
      <4>5. ASSUME NEW list \in Lists, RequestIpgroup(list)
            PROVE  Request("ipgroup", "update", list)
        BY <4>5 DEF RequestIpgroup
      <4>. QED  BY <1>2, <4>1, <4>2, <4>3, <4>4, <4>5, <4>6 DEF Submit
    <3>2. PICK op, arg, list : /\ Request(op, arg, list)
                               /\ op = "start" => ~ready /\ ~Pending("start")
      BY <3>1
    <3>3. [op |-> op, arg |-> arg, list |-> list, cfg |-> uci'].op = op
      OBVIOUS
    <3>. QED  BY <3>2, <3>3 DEF Request
  <2>3. Done' = Done
    BY <2>1, SameProgram
  <2>4. ~Pending("start") => job.op # "start" /\ \A p \in waiting : p.op # "start"
    BY <1>0, FreeOp DEF Pending
  <2>. QED  BY <2>1, <2>2, <2>3, <2>4 DEF OneStart
<1>3. ASSUME NEW req \in waiting, Acquire(req) PROVE OneStart'
  <2>1. waiting' = waiting \ {req} /\ ready' = ready /\ killed' = killed
    BY <1>3 DEF Acquire, files
  <2>2. job'.op = req.op
    BY <1>0, <1>3, AcquireFlow
  <2>. QED  BY <2>1, <2>2 DEF OneStart
<1>4. CASE Step
  <2>1. UNCHANGED <<waiting, job, killed>>
    BY <1>4 DEF Step
  <2>2. CASE At("setReady") /\ StartCommand
    <3>1. ~Done
      BY <2>2 DEF At
    <3>2. job.op = "start"
      BY <1>0, <2>2, <3>1, Place DEF InPlace, At, RuleNames, LoopNames, StopNames, ResetNames
    <3>3. Done'
      BY <1>0, <2>1, <2>2, <3>1, After DEF StartCommand, At
    <3>. QED  BY <2>1, <3>2, <3>3 DEF OneStart
  <2>3. CASE ~(At("setReady") /\ StartCommand)
    <3>1. ready' = ready \/ ~ready'
      BY <1>4, <2>3 DEF Step, Parse, RuleLoop, Reload, RuleStep, StartCommand, StopCommand,
                        ResetCommand, Ifup, files
    <3>2. ~Done
      BY <1>4 DEF Step, Parse, RuleLoop, Reload, RuleStep, StartCommand, StopCommand,
                  ResetCommand, Ifup, At
    <3>. QED  BY <2>1, <3>1, <3>2 DEF OneStart
  <2>. QED  BY <2>2, <2>3
<1>5. CASE Unlock
  <2>1. UNCHANGED <<ready, waiting>> /\ job'.op = "none" /\ ~killed'
    BY <1>5, CfgTypes DEF Unlock, files, OneStart
  <2>. QED  BY <2>1 DEF OneStart
<1>6. CASE KillPolling
  BY <1>6 DEF KillPolling
<1>. QED
  BY <1>1, <1>2, <1>3, <1>4, <1>5, <1>6
     DEF ControlNext, ControlHalted, controlVars, Traffic, files

\* What the other commands do to the kernel's rules, to iptables and to the
\* bindings: nothing, or they empty them.
LEMMA RulesKept ==
    ASSUME ControlTypes, Shape, Step,
           ~(Current[1] \in {"ruleAdd", "nfAdd", "nfDel", "ruleDel", "setSpec", "flushRules"})
    PROVE  /\ nf' = nf \/ nf' = {}
           /\ Known' = Known
           /\ \/ UNCHANGED <<clean, marktbl>>
              \/ Bound' = {}
<1>1. CASE Parse \/ RuleLoop \/ Reload \/ Ifup \/ RuleStep \/ StartCommand \/ StopCommand
  <2>1. UNCHANGED table /\ (nf' = nf \/ nf' = {})
    BY <1>1 DEF Parse, RuleLoop, Reload, Ifup, RuleStep, StartCommand, StopCommand, At, outside
  <2>. QED  BY <2>1 DEF Known, table, vars
<1>2. CASE ResetCommand
  <2>1. nf' = nf
    BY <1>2 DEF ResetCommand, outside
  <2>2. CASE ResetFlush
    <3>1. Bound' = {}
      BY <2>2, EmptyTable DEF ResetFlush
    <3>2. Known' = Known
      BY <2>2 DEF ResetFlush, CountsCleared, Known
    <3>. QED  BY <2>1, <3>1, <3>2
  <2>3. CASE ResetBegin \/ ResetEnd \/ UNCHANGED table
    BY <2>1, <2>3 DEF ResetBegin, ResetEnd, table, vars, Known
  <2>. QED  BY <1>2, <2>2, <2>3 DEF ResetCommand
<1>. QED  BY <1>1, <1>2 DEF Step

\* The handlers keep iptables behind the kernel's rules.
LEMMA ChainKnownStep ==
    ASSUME CInv, TypeOK, RInv, KInv, Step
    PROVE  ChainKnown' /\ BoundUnderKnownRule'
<1>0. ControlTypes /\ Shape /\ UNCHANGED <<job, killed>>
  BY DEF CInv, Step
<1>1. ~Done /\ Known \subseteq RuleIds
  BY DEF Step, Parse, RuleLoop, Reload, RuleStep, StartCommand, StopCommand, ResetCommand,
         Ifup, At, Known
<1>2. CASE At("ruleAdd")
  <2>1. RuleStep /\ Rule \in RuleIds
    BY <1>0, <1>1, <1>2, AtRule DEF Step, Parse, RuleLoop, Reload, RuleStep, StartCommand,
            StopCommand, ResetCommand, Ifup, At, RuleNames
  <2>2. PICK par \in Params : qmark_add_rule(Rule, job.cfg[Rule].mode, par)
    BY <1>2, <2>1 DEF RuleStep, At
  <2>3. At("nfAdd")' /\ Rule' = Rule /\ nf' = nf
    BY <1>0, <1>1, <1>2, <2>1, After DEF RuleStep, At, outside
  <2>4. Known' = Known \union {Rule}
    BY <2>1, <2>2, SpecAssumption DEF qmark_add_rule, Known, TypeOK
  <2>5. marktbl' = marktbl /\ (clean' => clean)
    BY <2>2 DEF qmark_add_rule
  <2>6. Bound' = Bound /\ InChain' = InChain
    BY <2>3, <2>5 DEF Bound, InChain
  <2>. QED  BY <2>3, <2>4, <2>5, <2>6 DEF KInv, ChainKnown, BoundUnderKnownRule, At
<1>3. CASE At("nfAdd")
  <2>1. RuleStep /\ Rule \in RuleIds
    BY <1>0, <1>1, <1>3, AtRule DEF Step, Parse, RuleLoop, Reload, RuleStep, StartCommand,
            StopCommand, ResetCommand, Ifup, At, RuleNames
  <2>2. /\ nf' = ChainWith(ChainWith(nf, Rule, 0), Rule, 1)
        /\ UNCHANGED table
        /\ At("setInstall")'
    BY <1>0, <1>1, <1>3, <2>1, After DEF RuleStep, At
  <2>3. \A S, dir : ChainWith(S, Rule, dir) \subseteq S \union {<<Rule, dir>>}
    BY DEF ChainWith
  <2>4. nf' \subseteq nf \union {<<Rule, 0>>, <<Rule, 1>>}
    BY <2>2, <2>3
  <2>5. InChain' \subseteq InChain \union {Rule}
    BY <2>4 DEF InChain
  <2>6. Known' = Known /\ Bound' = Bound /\ UNCHANGED <<marktbl, clean>>
    BY <2>2 DEF Known, Bound, table, vars
  <2>. QED  BY <1>3, <2>2, <2>5, <2>6 DEF KInv, ChainKnown, BoundUnderKnownRule, At
<1>4. CASE At("nfDel")
  <2>1. RuleStep
    BY <1>4 DEF Step, Parse, RuleLoop, Reload, RuleStep, StartCommand,
            StopCommand, ResetCommand, Ifup, At
  <2>2. /\ nf' = {e \in nf : e[1] # Rule}
        /\ UNCHANGED table
        /\ At("unsetInstall")' /\ Rule' = Rule
    BY <1>0, <1>1, <1>4, <2>1, After DEF RuleStep, At
  <2>3. InChain' = InChain \ {Rule}
    BY <2>2 DEF InChain
  <2>4. Known' = Known /\ Bound' = Bound /\ UNCHANGED <<marktbl, clean>>
    BY <2>2 DEF Known, Bound, table, vars
  <2>. QED  BY <2>2, <2>3, <2>4 DEF KInv, ChainKnown, BoundUnderKnownRule, At
<1>5. CASE At("ruleDel")
  <2>1. RuleStep /\ Rule \in RuleIds
    BY <1>0, <1>1, <1>5, AtRule DEF Step, Parse, RuleLoop, Reload, RuleStep, StartCommand,
            StopCommand, ResetCommand, Ifup, At, RuleNames
  <2>2. qmark_del_rule(Rule) /\ nf' = nf
    BY <1>5, <2>1 DEF RuleStep, At, outside
  <2>3. Turn' \/ At("install")' \/ At("forget")'
    BY <1>0, <1>1, <1>5, <2>1, After DEF RuleStep, At
  <2>4. Known' = Known \ {Rule}
    BY <2>1, <2>2 DEF qmark_del_rule, Known, TypeOK, ZeroRule
  <2>5. marktbl' = marktbl /\ (clean' => clean /\ Holders(Rule) = {})
    BY <2>2 DEF qmark_del_rule
  <2>6. Bound' = Bound /\ InChain' = InChain
    BY <2>2, <2>5 DEF Bound, InChain
  <2>7. BoundUnderKnownRule'
    <3>1. ASSUME clean', NEW ip \in Bound PROVE marktbl[ip].id \in Known \ {Rule}
      <4>1. ip \notin Holders(Rule) /\ clean
        BY <2>5, <3>1
      <4>2. marktbl[ip].id \in Known
        BY <4>1 DEF KInv, BoundUnderKnownRule
      <4>. QED  BY <4>1, <4>2 DEF Holders, Bound
    <3>. QED  BY <2>4, <2>5, <2>6, <3>1 DEF BoundUnderKnownRule
  <2>. QED  BY <1>5, <2>3, <2>4, <2>6, <2>7 DEF KInv, ChainKnown, At, Turn, LoopNames
<1>6. CASE At("setSpec") \/ At("flushRules")
  <2>1. /\ nf = {} /\ nf' = nf
        /\ Bound' = {} \/ ~clean'
        /\ At("checkEnable")' \/ At("unsetStop")'
    <3>1. CASE At("setSpec")
      <4>1. StartCommand
        BY <3>1 DEF Step, Parse, RuleLoop, Reload, RuleStep, StartCommand, StopCommand,
                    ResetCommand, Ifup, At
      <4>2. job.op = "start"
        BY <1>0, <1>1, <3>1, Place DEF InPlace, At, RuleNames, LoopNames, StopNames, ResetNames
      <4>3. ~ready /\ ~killed
        BY <1>1, <4>2 DEF KInv, OneStart
      <4>4. nf = {}
        BY <3>1, <4>3 DEF RInv, Resting, AtRest, Rest, Quiet
      <4>5. qmark_set_spec(DefaultSpec) /\ nf' = nf /\ At("checkEnable")'
        BY <1>0, <1>1, <3>1, <4>1, After DEF StartCommand, At, outside
      <4>. QED  BY <4>4, <4>5, EmptyTable DEF qmark_set_spec
    <3>2. CASE At("flushRules")
      <4>1. StopCommand
        BY <3>2 DEF Step, Parse, RuleLoop, Reload, RuleStep, StartCommand, StopCommand,
                    ResetCommand, Ifup, At
      <4>2. job.op = "stop"
        BY <1>0, <1>1, <3>2, Place DEF InPlace, At, RuleNames, LoopNames, StopNames, ResetNames
      <4>3. nf = {}
        BY <3>2, <4>2 DEF RInv, Stopping, At
      <4>4. qmark_flush_rule /\ nf' = nf /\ At("unsetStop")'
        BY <1>0, <1>1, <3>2, <4>1, After DEF StopCommand, At, outside
      <4>5. Bound' = Bound /\ (clean' => Bound = {})
        BY <4>4 DEF qmark_flush_rule, Bound
      <4>. QED  BY <4>3, <4>4, <4>5
    <3>. QED  BY <1>6, <3>1, <3>2
  <2>2. InChain' = {}
    BY <2>1 DEF InChain
  <2>. QED  BY <2>1, <2>2 DEF ChainKnown, BoundUnderKnownRule, At
<1>7. CASE ~(Current[1] \in {"ruleAdd", "nfAdd", "nfDel", "ruleDel", "setSpec", "flushRules"})
  <2>1. /\ nf' = nf \/ nf' = {}
        /\ Known' = Known
        /\ \/ UNCHANGED <<clean, marktbl>>
           \/ Bound' = {}
    BY <1>0, <1>7, RulesKept
  <2>2. InChain' \subseteq InChain
    BY <2>1 DEF InChain
  <2>3. BoundUnderKnownRule'
    BY <2>1 DEF KInv, BoundUnderKnownRule, Bound
  <2>4. ChainKnown'
    <3>1. ASSUME At("nfAdd")' PROVE FALSE
      BY <1>0, <1>1, <1>7, <3>1, Before DEF At
    <3>2. ASSUME At("unsetInstall")' \/ At("ruleDel")'
          PROVE  At("unsetInstall") /\ Rule' = Rule
      BY <1>0, <1>1, <1>7, <3>2, Before DEF At
    <3>. QED  BY <2>1, <2>2, <3>1, <3>2 DEF KInv, ChainKnown
  <2>. QED  BY <2>3, <2>4
<1>. QED  BY <1>1, <1>2, <1>3, <1>4, <1>5, <1>6, <1>7 DEF At

\* A packet binds its address under a rule of iptables, if at all.
LEMMA TrafficBinds ==
    ASSUME ControlTypes, TypeOK, Traffic, NEW ip \in Bound'
    PROVE  \/ ip \in Bound /\ marktbl'[ip].id = marktbl[ip].id
           \/ marktbl'[ip].id \in InChain
<1>0. ip \in IPs /\ marktbl'[ip].id # 0
  BY DEF Bound
<1>1. ASSUME NEW p \in IPs, NEW id \in InChain,
             \/ qmark_alloc_mark_auto(p, id)
             \/ AllocMarkAutoFails(p, id)
             \/ AllocMarkAutoOops(p, id)
      PROVE  marktbl'[ip].id \in {marktbl[ip].id} \union InChain
  <2>1. CASE qmark_alloc_mark_auto(p, id)
    <3>1. PICK m : HashInsert(p, id, m)
      BY <2>1 DEF qmark_alloc_mark_auto
    <3>. QED  BY <1>0, <3>1 DEF HashInsert, TypeOK
  <2>2. CASE AllocMarkAutoFails(p, id) \/ AllocMarkAutoOops(p, id)
    BY <2>2 DEF AllocMarkAutoFails, AllocMarkAutoOops
  <2>. QED  BY <1>1, <2>1, <2>2
<1>2. ASSUME NEW p \in IPs, ConntrackMark(p) \/ ConntrackDestroy(p)
      PROVE  marktbl'[ip].id = marktbl[ip].id
  <2>1. \/ marktbl' = [marktbl EXCEPT ![p].count = @ + 1]
        \/ marktbl' = [marktbl EXCEPT ![p].count = @ - 1]
        \/ marktbl' = [marktbl EXCEPT ![p] = NoEntry]
    BY <1>2 DEF ConntrackMark, ConntrackDestroy, PutEntry
  <2>. QED  BY <1>0, <2>1 DEF TypeOK, NoEntry
<1>3. marktbl'[ip].id \in {marktbl[ip].id} \union InChain
  BY <1>1, <1>2 DEF Traffic, Conntrack
<1>. QED  BY <1>0, <1>3 DEF Bound

LEMMA KInvStep ==
    StartsOnce /\ ~MayKill /\ CInv /\ TypeOK /\ RInv /\ KInv /\ [ControlNext]_controlVars
        => KInv'
<1>. SUFFICES ASSUME StartsOnce, ~MayKill, CInv, TypeOK, RInv, KInv, [ControlNext]_controlVars
              PROVE  KInv'
  OBVIOUS
<1>0. ControlTypes /\ Shape /\ ChainKnown /\ BoundUnderKnownRule
  BY DEF CInv, KInv
<1>1. OneStart'
  BY OneStartStep DEF KInv
<1>. SUFFICES ChainKnown' /\ BoundUnderKnownRule'
  BY <1>1 DEF KInv
<1>2. CASE UNCHANGED <<table, nf>> /\ (UNCHANGED prog \/ Done' \/ Turn' \/ AtRest' \/ At("unsetReady")')
  <2>1. Known' = Known /\ InChain' = InChain /\ Bound' = Bound /\ UNCHANGED <<marktbl, clean>>
    BY <1>2 DEF Known, InChain, Bound, table, vars
  <2>2. BoundUnderKnownRule'
    BY <1>0, <2>1 DEF BoundUnderKnownRule
  <2>3. CASE UNCHANGED prog
    BY <1>0, <2>1, <2>2, <2>3, SameProgram DEF ChainKnown, At, Rule
  <2>4. CASE Done' \/ Turn' \/ AtRest' \/ At("unsetReady")'
    BY <1>0, <2>1, <2>2, <2>4 DEF ChainKnown, At, Turn, AtRest, LoopNames
  <2>. QED  BY <1>2, <2>2, <2>3, <2>4
<1>3. ASSUME NEW req \in waiting, Acquire(req) PROVE ChainKnown' /\ BoundUnderKnownRule'
  <2>1. Done' \/ Turn' \/ AtRest' \/ At("unsetReady")'
    BY <1>0, <1>3, AcquireFlow DEF AtRest, Ops
  <2>. QED  BY <1>2, <1>3, <2>1 DEF Acquire, outside
<1>4. CASE Step
  BY <1>4, ChainKnownStep
<1>5. CASE Traffic
  <2>1. UNCHANGED <<nf, prog, clean>> /\ Known' = Known
    BY <1>0, <1>5, TrafficKeeps DEF outside
  <2>2. InChain' = InChain
    BY <2>1 DEF InChain
  <2>3. ChainKnown'
    BY <1>0, <2>1, <2>2, SameProgram DEF ChainKnown, At, Rule
  <2>4. BoundUnderKnownRule'
    BY <1>0, <1>5, <2>1, TrafficBinds DEF BoundUnderKnownRule, ChainKnown
  <2>. QED  BY <2>3, <2>4
<1>. QED
  BY <1>2, <1>3, <1>4, <1>5
     DEF ControlNext, ControlHalted, controlVars, Submit, Unlock, KillPolling, outside

LEMMA KInvInit == ControlInit => KInv
<1>. SUFFICES ASSUME ControlInit PROVE KInv
  OBVIOUS
<1>1. Done /\ InChain = {} /\ Bound = {} /\ waiting = {} /\ job.op = "none" /\ ~killed
  BY CfgTypes DEF ControlInit, Init, InChain, Bound, NoEntry
<1>. QED  BY <1>1 DEF KInv, OneStart, ChainKnown, BoundUnderKnownRule, At

\* As long as QoS is started only while it is not running and no handler is
\* killed, packets are bound only under rules the kernel was told: between
\* `qmark -a' and the iptables rule, and between the removal of the iptables
\* rule and `qmark -d', no packet finds a rule without its parameters.
THEOREM BoundUnderKnownRuleHolds ==
    StartsOnce /\ ~MayKill => (ControlSpec => []BoundUnderKnownRule)
<1>. SUFFICES ASSUME StartsOnce, ~MayKill PROVE ControlSpec => []BoundUnderKnownRule
  OBVIOUS
<1>1. KInv => BoundUnderKnownRule
  BY DEF KInv
<1>2. CInv /\ TypeOK /\ RInv /\ KInv /\ [ControlNext]_controlVars => KInv'
  BY KInvStep
<1>. QED
  BY <1>1, <1>2, KInvInit, RestHolds, ControlImplementsTable, TypeCorrect, PTL DEF ControlSpec

=============================================================================
