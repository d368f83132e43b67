------------------------ MODULE QMarkLifecycleProofs ------------------------
(***************************************************************************)
(* Theorems about QMarkLifecycle: why the order of the stages keeps the    *)
(* tables where packets and events need them, and why the labels give back *)
(* what the stages took.                                                   *)
(***************************************************************************)
EXTENDS QMarkLifecycle, TLAPS

-----------------------------------------------------------------------------
(* The stages: nine, each with a resource of its own, the notifier last.   *)

LEMMA TopIs == Top = 9
BY DEF Top, Stages

LEMMA StageNames ==
    /\ Stages[1] = "bitmap" /\ Stages[2] = "sock" /\ Stages[3] = "region"
    /\ Stages[4] = "cdev" /\ Stages[5] = "class" /\ Stages[6] = "device"
    /\ Stages[7] = "ruletbl" /\ Stages[8] = "hash" /\ Stages[9] = "notifier"
BY DEF Stages

LEMMA StagesApart ==
    /\ \A i, j \in 1..Top : Stages[i] = Stages[j] => i = j
    /\ \A i \in 1..Top : Stages[i] \in Resources
    /\ \A r \in Resources : \E i \in 1..Top : Stages[i] = r
<1>1. \A i \in 1..Top : i \in {1, 2, 3, 4, 5, 6, 7, 8, 9}
  BY TopIs
<1>2. \A i, j \in {1, 2, 3, 4, 5, 6, 7, 8, 9} : Stages[i] = Stages[j] => i = j
  BY StageNames
<1>. QED  BY <1>1, <1>2 DEF Resources

LEMMA TablesAre ==
    /\ Tables \union {"sock", "notifier", "device", "cdev"} \subseteq Resources
    /\ "notifier" \notin Tables /\ "device" \notin Tables
    /\ "device" \notin {"sock", "notifier"}
<1>1. \A i \in 1..9 : Stages[i] \in Resources
  BY TopIs, StagesApart
<1>2. /\ Stages[1] \in Resources /\ Stages[2] \in Resources /\ Stages[4] \in Resources
      /\ Stages[6] \in Resources /\ Stages[7] \in Resources /\ Stages[8] \in Resources
      /\ Stages[9] \in Resources
  BY <1>1
<1>. QED  BY <1>2, StageNames DEF Tables

-----------------------------------------------------------------------------
(* The invariant.                                                          *)

\* Where the loader is says how far the module is.
Course ==
    /\ pc = "out" => level = 0
    /\ pc = "init" => level < Top
    /\ target => pc = "live"
    /\ ptr["notifier"] = "ok" => level = Top
    /\ ptr["device"] # "stale"

\* What is done is there, unless an allocation failed at run time.
DoneIsThere ==
    "alloc" \notin excuse =>
        \A i \in 1..Top : i <= level /\ Stages[i] # "device" => ptr[Stages[i]] = "ok"

\* What is not done is not there, unless a command came early.
RestIsNot ==
    "early" \notin excuse =>
        leaked = {} /\ \A i \in 1..Top : i > level => ptr[Stages[i]] # "ok"

LifeInv == TypeOK /\ Course /\ DoneIsThere /\ RestIsNot /\ BadNeedsExcuse

LEMMA LifeInit == Init => LifeInv
<1>. SUFFICES ASSUME Init PROVE LifeInv
  OBVIOUS
<1>1. \A r \in Resources : ptr[r] = "none"
  BY DEF Init
<1>2. TypeOK
  <2>1. level \in 0..Top
    BY TopIs DEF Init
  <2>2. ptr \in [Resources -> {"none", "ok", "stale"}]
    BY DEF Init
  <2>3. pc \in {"out", "init", "failed", "live", "exit"} /\ pc # "live" /\ leaked \subseteq Resources
        /\ target \in BOOLEAN /\ bad \in BOOLEAN /\ excuse \subseteq {"early", "alloc"}
    BY Zenon DEF Init
  <2>. QED  BY <2>1, <2>2, <2>3 DEF TypeOK
<1>3. Course
  BY <1>1, TopIs, TablesAre DEF Init, Course
<1>4. DoneIsThere
  BY TopIs DEF Init, DoneIsThere
<1>5. RestIsNot
  BY <1>1, StagesApart DEF Init, RestIsNot
<1>6. BadNeedsExcuse
  BY DEF Init, BadNeedsExcuse
<1>. QED  BY <1>2, <1>3, <1>4, <1>5, <1>6 DEF LifeInv

\* When the module is live, or where packets and events come, all is done.
LEMMA AllDone ==
    ASSUME LifeInv, pc = "live" \/ target \/ ptr["notifier"] = "ok", "alloc" \notin excuse
    PROVE  \A r \in Resources : r # "device" => ptr[r] = "ok"
<1>1. level = Top
  BY DEF LifeInv, TypeOK, Course
<1>. QED  BY <1>1, TopIs, StagesApart DEF LifeInv, DoneIsThere

-----------------------------------------------------------------------------
(* The steps.                                                              *)

\* A stage that succeeds or fails: its resource is the one that changes.
LEMMA StageStep ==
    ASSUME LifeInv, ~bad, InitStage \/ InitFails
    PROVE  LifeInv'
<1>1. /\ pc = "init" /\ level \in 0..Top /\ level < Top
      /\ ptr \in [Resources -> {"none", "ok", "stale"}]
  BY DEF InitStage, InitFails, Succeeds, FailsTo, LifeInv, TypeOK, Course
<1>2. PICK n : n = level + 1
  OBVIOUS
<1>3. n \in 1..Top /\ Pending = Stages[n] /\ Stages[n] \in Resources
  BY <1>1, <1>2, TopIs, StagesApart DEF Pending
<1>4. PICK p \in {"none", "ok", "stale"} :
        /\ ptr' = [ptr EXCEPT ![Stages[n]] = p]
        /\ \/ /\ level' = n /\ pc' = (IF n = Top THEN "live" ELSE "init")
              /\ (p = "ok" \/ (p = "none" /\ Stages[n] = "device"))
           \/ /\ level' = level /\ pc' = "failed" /\ Stages[n] # "device" /\ p # "ok"
        /\ leaked' = leaked \union (IF ptr[Stages[n]] = "ok" THEN {Stages[n]} ELSE {})
        /\ UNCHANGED <<target, bad, excuse>>
  <2>1. CASE InitStage
    BY <1>2, <1>3, <2>1 DEF InitStage, Succeeds, Overwrites
  <2>2. CASE InitFails
    <3>1. PICK p \in AfterFailure(Pending) : ptr' = [ptr EXCEPT ![Pending] = p]
      BY <2>2 DEF InitFails, FailsTo
    <3>2. p \in {"none", "stale"}
      BY <3>1 DEF AfterFailure
    <3>. QED  BY <1>3, <2>2, <3>1, <3>2 DEF InitFails, FailsTo, Overwrites
  <2>. QED  BY <2>1, <2>2
<1>5. /\ ptr' \in [Resources -> {"none", "ok", "stale"}] /\ ptr'[Stages[n]] = p
      /\ \A i \in 1..Top : i # n => ptr'[Stages[i]] = ptr[Stages[i]]
  BY <1>1, <1>3, <1>4, StagesApart
<1>6. TypeOK'
  <2>1. leaked' \subseteq Resources
    BY <1>3, <1>4 DEF LifeInv, TypeOK
  <2>2. level' \in 0..Top /\ pc' \in {"init", "live", "failed"}
        /\ (pc' = "live" => level' = Top)
    BY <1>1, <1>2, <1>4, TopIs
  <2>. QED  BY <1>4, <1>5, <2>1, <2>2 DEF LifeInv, TypeOK
<1>7. Course'
  <2>1. pc' = "init" => level' < Top
    BY <1>1, <1>2, <1>4, TopIs
  <2>2. ~target
    BY <1>1 DEF LifeInv, Course
  <2>3. ptr'["notifier"] = "ok" => level' = Top
    <3>1. CASE n = 9
      BY <1>4, <1>5, <3>1, StageNames, TopIs
    <3>2. CASE n # 9
      <4>1. 9 \in 1..Top /\ level # Top
        BY <1>1, TopIs
      <4>2. ptr'["notifier"] = ptr["notifier"]
        BY <1>5, <3>2, <4>1, StageNames
      <4>. QED  BY <4>1, <4>2 DEF LifeInv, Course
    <3>. QED  BY <3>1, <3>2
  <2>4. ptr'["device"] # "stale"
    <3>1. CASE n = 6
      BY <1>4, <1>5, <3>1, StageNames
    <3>2. CASE n # 6
      <4>1. 6 \in 1..Top
        BY TopIs
      <4>2. ptr'["device"] = ptr["device"]
        BY <1>5, <3>2, <4>1, StageNames
      <4>. QED  BY <4>2 DEF LifeInv, Course
    <3>. QED  BY <3>1, <3>2
  <2>. QED  BY <1>4, <2>1, <2>2, <2>3, <2>4 DEF Course
<1>8. DoneIsThere'
  <2>. SUFFICES ASSUME "alloc" \notin excuse, NEW i \in 1..Top, i <= level',
                       Stages[i] # "device"
                PROVE  ptr'[Stages[i]] = "ok"
    BY <1>4 DEF DoneIsThere
  <2>1. CASE i = n
    BY <1>1, <1>2, <1>4, <1>5, <2>1
  <2>2. CASE i # n
    <3>1. i <= level
      BY <1>1, <1>2, <1>4, <2>2
    <3>. QED  BY <1>5, <2>2, <3>1 DEF LifeInv, DoneIsThere
  <2>. QED  BY <2>1, <2>2
<1>9. RestIsNot'
  <2>. SUFFICES ASSUME "early" \notin excuse
                PROVE  leaked' = {} /\ \A i \in 1..Top : i > level' => ptr'[Stages[i]] # "ok"
    BY <1>4 DEF RestIsNot
  <2>1. leaked = {} /\ \A i \in 1..Top : i > level => ptr[Stages[i]] # "ok"
    BY DEF LifeInv, RestIsNot
  <2>2. leaked' = {}
    BY <1>1, <1>2, <1>3, <1>4, <2>1
  <2>3. ASSUME NEW i \in 1..Top, i > level' PROVE ptr'[Stages[i]] # "ok"
    <3>1. i > level
      BY <1>1, <1>2, <1>4, <2>3
    <3>2. CASE i = n
      BY <1>1, <1>2, <1>4, <1>5, <2>3, <3>2
    <3>3. CASE i # n
      BY <1>5, <2>1, <3>1, <3>3
    <3>. QED  BY <3>2, <3>3
  <2>. QED  BY <2>2, <2>3
<1>10. BadNeedsExcuse'
  BY <1>4 DEF LifeInv, BadNeedsExcuse
<1>. QED  BY <1>6, <1>7, <1>8, <1>9, <1>10 DEF LifeInv

\* A label undoes its own stage, which is there.
LEMMA UndoStep ==
    ASSUME LifeInv, ~bad, Undo
    PROVE  LifeInv'
<1>1. /\ pc \in {"failed", "exit"} /\ level \in 1..Top
      /\ ptr \in [Resources -> {"none", "ok", "stale"}]
      /\ ptr' = [ptr EXCEPT ![Stages[level]] = "none"]
      /\ bad' = (ptr[Stages[level]] = "stale")
      /\ level' = level - 1
      /\ UNCHANGED <<pc, leaked, target, excuse>>
  BY TopIs DEF Undo, LifeInv, TypeOK
<1>2. /\ ptr' \in [Resources -> {"none", "ok", "stale"}]
      /\ ptr'[Stages[level]] = "none"
      /\ \A i \in 1..Top : i # level => ptr'[Stages[i]] = ptr[Stages[i]]
  BY <1>1, StagesApart
<1>3. TypeOK'
  BY <1>1, <1>2, TopIs DEF LifeInv, TypeOK
<1>4. Course'
  <2>1. ptr'["notifier"] # "ok"
    <3>1. CASE level = 9
      BY <1>2, <3>1, StageNames
    <3>2. CASE level # 9
      <4>1. 9 \in 1..Top /\ level # Top
        BY <3>2, TopIs
      <4>. QED  BY <1>2, <3>2, <4>1, StageNames DEF LifeInv, Course
    <3>. QED  BY <3>1, <3>2
  <2>2. ptr'["device"] # "stale"
    <3>1. 6 \in 1..Top
      BY TopIs
    <3>2. ptr'["device"] \in {"none", ptr["device"]}
      BY <1>2, <3>1, StageNames
    <3>. QED  BY <3>2 DEF LifeInv, Course
  <2>. QED  BY <1>1, <2>1, <2>2 DEF LifeInv, Course
<1>5. DoneIsThere'
  BY <1>1, <1>2, TopIs DEF LifeInv, DoneIsThere
<1>6. RestIsNot'
  <2>1. \A i \in 1..Top : i > level' => i = level \/ i > level
    BY <1>1, TopIs
  <2>. QED  BY <1>1, <1>2, <2>1 DEF LifeInv, RestIsNot
<1>7. BadNeedsExcuse'
  <2>. SUFFICES ASSUME ptr[Stages[level]] = "stale", excuse = {} PROVE FALSE
    BY <1>1 DEF BadNeedsExcuse
  <2>1. level <= level /\ Stages[level] # "device"
    BY <1>1, TopIs DEF LifeInv, Course
  <2>. QED  BY <1>1, <2>1 DEF LifeInv, DoneIsThere
<1>. QED  BY <1>3, <1>4, <1>5, <1>6, <1>7 DEF LifeInv

\* A command that allocates tables anew, or only reads them.
LEMMA CommandStep ==
    ASSUME LifeInv, ~bad, NEW why, why \subseteq {"alloc"}, Ioctl(why),
           NEW rs \in SUBSET Tables,
           ptr' = ptr \/ ptr' \in Reallocated(rs),
           \A r \in rs : ptr'[r] = "ok" \/ "alloc" \in why \/ ptr'[r] = ptr[r],
           bad' \in BOOLEAN, bad' => \E r \in Tables \union {"sock"} : ptr[r] # "ok"
    PROVE  LifeInv'
<1>1. /\ pc \in {"init", "failed", "live"} /\ UNCHANGED <<pc, level, leaked, target>>
      /\ excuse' = excuse \union why \union (IF pc = "live" THEN {} ELSE {"early"})
      /\ ptr \in [Resources -> {"none", "ok", "stale"}] /\ level \in 0..Top
      /\ pc = "live" => level = Top
  BY DEF Ioctl, LifeInv, TypeOK
<1>2. /\ ptr' \in [Resources -> {"none", "ok", "stale"}]
      /\ \A r \in Resources : r \notin rs => ptr'[r] = ptr[r]
  <2>1. ASSUME NEW p \in [rs -> {"none", "ok", "stale"}],
               ptr' = [r \in Resources |-> IF r \in rs THEN p[r] ELSE ptr[r]]
        PROVE  /\ ptr' \in [Resources -> {"none", "ok", "stale"}]
               /\ \A r \in Resources : r \notin rs => ptr'[r] = ptr[r]
    BY <1>1, <2>1
  <2>2. CASE ptr' \in Reallocated(rs)
    BY <2>1, <2>2 DEF Reallocated
  <2>. QED  BY <1>1, <2>2
<1>3. TypeOK'
  BY <1>1, <1>2 DEF LifeInv, TypeOK
<1>4. Course'
  <2>1. ptr'["notifier"] = ptr["notifier"] /\ ptr'["device"] = ptr["device"]
    BY <1>2, TablesAre
  <2>. QED  BY <1>1, <2>1 DEF LifeInv, Course
<1>5. DoneIsThere'
  <2>. SUFFICES ASSUME "alloc" \notin excuse', NEW i \in 1..Top, i <= level,
                       Stages[i] # "device"
                PROVE  ptr'[Stages[i]] = "ok"
    BY <1>1 DEF DoneIsThere
  <2>1. "alloc" \notin why /\ "alloc" \notin excuse
    BY <1>1
  <2>2. ptr[Stages[i]] = "ok"
    BY <2>1 DEF LifeInv, DoneIsThere
  <2>. QED  BY <1>2, <2>1, <2>2, StagesApart
<1>6. RestIsNot'
  <2>1. "early" \notin excuse' => pc = "live" /\ "early" \notin excuse
    BY <1>1
  <2>2. pc = "live" => ~\E i \in 1..Top : i > level
    BY <1>1, TopIs
  <2>. QED  BY <1>1, <2>1, <2>2 DEF LifeInv, RestIsNot
<1>7. BadNeedsExcuse'
  <2>. SUFFICES ASSUME bad', excuse' = {} PROVE FALSE
    BY DEF BadNeedsExcuse
  <2>1. pc = "live" /\ "alloc" \notin excuse
    BY <1>1
  <2>. QED  BY <2>1, AllDone, TablesAre
<1>. QED  BY <1>3, <1>4, <1>5, <1>6, <1>7 DEF LifeInv

\* The commands, one by one.
LEMMA IoctlStep ==
    ASSUME LifeInv, ~bad,
           PlainCommand \/ Reset \/ \E rs \in {{"ruletbl"}, {"hash"}, Tables} : Replace(rs)
    PROVE  LifeInv'
<1>1. CASE PlainCommand
  <2>1. /\ Ioctl({}) /\ ptr' = ptr /\ {} \in SUBSET Tables
        /\ bad' \in BOOLEAN /\ (bad' => \E r \in Tables \union {"sock"} : ptr[r] # "ok")
    BY <1>1 DEF PlainCommand, Uses, Tables
  <2>. QED  BY <2>1, CommandStep
<1>2. ASSUME NEW rs \in SUBSET Tables, ptr' \in Reallocated(rs)
      PROVE  rs \subseteq Resources /\ \A r \in rs : ptr'[r] \in {"none", "ok", "stale"}
  <2>1. PICK p \in [rs -> {"none", "ok", "stale"}] :
               ptr' = [r \in Resources |-> IF r \in rs THEN p[r] ELSE ptr[r]]
    BY <1>2 DEF Reallocated
  <2>2. rs \subseteq Resources
    BY TablesAre
  <2>. QED  BY <2>1, <2>2
<1>3. ASSUME NEW rs \in SUBSET Tables, NEW why, ptr' \in Reallocated(rs),
             why = (IF \E r \in rs : ptr'[r] # "ok" THEN {"alloc"} ELSE {}), Ioctl(why),
             bad' \in BOOLEAN, bad' => \E r \in Tables \union {"sock"} : ptr[r] # "ok"
      PROVE  LifeInv'
  <2>1. why \subseteq {"alloc"} /\ \A r \in rs : ptr'[r] = "ok" \/ "alloc" \in why
    BY <1>3
  <2>. QED  BY <1>3, <2>1, CommandStep
<1>4. ASSUME NEW rs \in {{"ruletbl"}, {"hash"}, Tables}, Replace(rs)
      PROVE  LifeInv'
  <2>1. rs \in SUBSET Tables
    BY DEF Tables
  <2>2. /\ ptr' \in Reallocated(rs)
        /\ Ioctl(IF \E r \in rs : ptr'[r] # "ok" THEN {"alloc"} ELSE {})
        /\ bad' = (bad \/ \E r \in rs : ptr[r] = "stale")
    BY <1>4 DEF Replace
  <2>3. bad' \in BOOLEAN /\ (bad' => \E r \in Tables \union {"sock"} : ptr[r] # "ok")
    BY <2>1, <2>2
  <2>. QED  BY <1>3, <2>1, <2>2, <2>3
<1>5. CASE Reset
  <2>1. {"hash"} \in SUBSET Tables
    BY DEF Tables
  <2>2. /\ ptr' \in Reallocated({"hash"})
        /\ Ioctl(IF ptr'["hash"] # "ok" THEN {"alloc"} ELSE {})
        /\ bad' = (bad \/ ptr["hash"] = "stale" \/ "none" \in {ptr["bitmap"], ptr["ruletbl"]})
    BY <1>5 DEF Reset
  <2>3. bad' \in BOOLEAN /\ (bad' => \E r \in Tables \union {"sock"} : ptr[r] # "ok")
    BY <2>2 DEF Tables
  <2>4. Ioctl(IF \E r \in {"hash"} : ptr'[r] # "ok" THEN {"alloc"} ELSE {})
    <3>1. (\E r \in {"hash"} : ptr'[r] # "ok") <=> ptr'["hash"] # "ok"
      OBVIOUS
    <3>. QED  BY <2>2, <3>1
  <2>. QED  BY <1>3, <2>1, <2>2, <2>3, <2>4
<1>. QED  BY <1>1, <1>4, <1>5

\* The loader's other steps, and those of packets and events.
LEMMA LoaderStep ==
    ASSUME LifeInv, ~bad, Load \/ Remove \/ Gone \/ Target \/ Softirq
    PROVE  LifeInv'
<1>1. CASE Load
  <2>1. /\ level = 0 /\ \A r \in Resources : ptr'[r] = "none"
        /\ pc' = "init" /\ leaked' = {} /\ excuse' = {} /\ UNCHANGED <<level, target, bad>>
        /\ ptr' \in [Resources -> {"none", "ok", "stale"}] /\ ~target
    BY <1>1 DEF Load, LifeInv, Course
  <2>2. TypeOK'
    BY <2>1, TopIs DEF LifeInv, TypeOK
  <2>3. Course'
    BY <2>1, TopIs, TablesAre DEF Course
  <2>4. DoneIsThere'
    BY <2>1, TopIs DEF DoneIsThere
  <2>5. RestIsNot'
    BY <2>1, StagesApart DEF RestIsNot
  <2>6. BadNeedsExcuse'
    BY <2>1 DEF BadNeedsExcuse
  <2>. QED  BY <2>2, <2>3, <2>4, <2>5, <2>6 DEF LifeInv
<1>2. CASE Remove \/ Gone \/ Target
  <2>1. UNCHANGED <<level, ptr, leaked, bad, excuse>>
    BY <1>2 DEF Remove, Gone, Target
  <2>2. CASE Remove
    <3>1. pc' = "exit" /\ ~target' /\ pc = "live" /\ UNCHANGED target
      BY <2>2 DEF Remove
    <3>. QED
      BY <2>1, <3>1 DEF LifeInv, TypeOK, Course, DoneIsThere, RestIsNot, BadNeedsExcuse
  <2>3. CASE Gone
    <3>1. pc' = "out" /\ pc \in {"failed", "exit"} /\ level = 0 /\ UNCHANGED target
      BY <2>3 DEF Gone
    <3>. QED
      BY <2>1, <3>1 DEF LifeInv, TypeOK, Course, DoneIsThere, RestIsNot, BadNeedsExcuse
  <2>4. CASE Target
    <3>1. pc' = "live" /\ pc = "live"
      BY <2>4 DEF Target
    <3>2. target' \in BOOLEAN
      BY <2>4 DEF Target
    <3>. QED
      BY <2>1, <3>1, <3>2 DEF LifeInv, TypeOK, Course, DoneIsThere, RestIsNot, BadNeedsExcuse
  <2>. QED  BY <1>2, <2>2, <2>3, <2>4
<1>3. CASE Softirq
  <2>1. /\ UNCHANGED <<pc, level, ptr, leaked, target, excuse>>
        /\ target \/ ptr["notifier"] = "ok"
        /\ bad' = (bad \/ \E r \in Tables \union {"sock"} : ptr[r] # "ok")
    BY <1>3 DEF Softirq, Uses
  <2>2. BadNeedsExcuse'
    <3>. SUFFICES ASSUME bad', excuse = {} PROVE FALSE
      BY <2>1 DEF BadNeedsExcuse
    <3>. QED  BY <2>1, AllDone, TablesAre
  <2>3. bad' \in BOOLEAN
    BY <2>1
  <2>. QED
    BY <2>1, <2>2, <2>3 DEF LifeInv, TypeOK, Course, DoneIsThere, RestIsNot
<1>. QED  BY <1>1, <1>2, <1>3

LEMMA LifeStep == LifeInv /\ [Next]_vars => LifeInv'
<1>. SUFFICES ASSUME LifeInv, [Next]_vars PROVE LifeInv'
  OBVIOUS
<1>1. CASE UNCHANGED vars
  BY <1>1 DEF vars, LifeInv, TypeOK, Course, DoneIsThere, RestIsNot, BadNeedsExcuse
<1>2. CASE ~bad
  BY <1>1, <1>2, StageStep, UndoStep, IoctlStep, LoaderStep DEF Next
<1>. QED  BY <1>1, <1>2 DEF Next

\* What is done is there and what is not done is not, wherever the loader is.
THEOREM LifeInvariantHolds == Spec => []LifeInv
BY LifeInit, LifeStep, PTL DEF Spec

\* The loader's state keeps its types, and a live module went through all of
\* the stages: no error path of qos_marktbl_init returns success.
THEOREM LifeTypeCorrect == Spec => []TypeOK
<1>1. LifeInv => TypeOK
  BY DEF LifeInv
<1>. QED  BY <1>1, LifeInvariantHolds, PTL

\* The labels of qos_marktbl_init and qos_marktbl_exit give everything back,
\* unless a command came in the middle of the initialisation.
THEOREM NothingLeftHolds == Spec => []NothingLeft
<1>1. LifeInv => NothingLeft
  <2>. SUFFICES ASSUME LifeInv, pc = "out", "early" \notin excuse
                PROVE  leaked = {} /\ \A r \in Resources : ptr[r] # "ok"
    BY DEF NothingLeft
  <2>1. level = 0 /\ \A i \in 1..Top : i > 0
    BY TopIs DEF LifeInv, Course
  <2>. QED  BY <2>1, StagesApart DEF LifeInv, RestIsNot
<1>. QED  BY <1>1, LifeInvariantHolds, PTL

\* Packets and events find the tables and the socket until an allocation fails
\* at run time: the notifier is the last stage done and the first undone, and
\* the target keeps the module from being removed.
THEOREM TablesOutliveUsersHolds == Spec => []TablesOutliveUsers
<1>1. LifeInv => TablesOutliveUsers
  BY AllDone, TablesAre DEF TablesOutliveUsers
<1>. QED  BY <1>1, LifeInvariantHolds, PTL

\* Nothing that is not there is used, or freed once more, unless a command came
\* early or an allocation failed.
THEOREM BadNeedsExcuseHolds == Spec => []BadNeedsExcuse
<1>1. LifeInv => BadNeedsExcuse
  BY DEF LifeInv
<1>. QED  BY <1>1, LifeInvariantHolds, PTL

=============================================================================
