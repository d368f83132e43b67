--------------------------- MODULE QMarkLifecycle ---------------------------
(***************************************************************************)
(* Loading, reallocation and removal of the kernel module: what            *)
(* qos_marktbl_init acquires, what its error paths and qos_marktbl_exit    *)
(* give back, and what the commands that replace a table at run time do    *)
(* when an allocation fails (src/kmod/qos_marktbl_main.c, _ioctl.c, _tc.c).*)
(*                                                                         *)
(* The contents of the tables are QMarkTable's.  Initialisation runs in    *)
(* process context: a command may come in between as long as the device is *)
(* there, also while the error labels run.  Removal only starts when no    *)
(* command is running and the target (src/xt_kmod/xt_qmark.c), which uses  *)
(* the module, is gone.                                                    *)
(***************************************************************************)
EXTENDS Integers, Sequences

VARIABLES pc,       \* what the module loader is doing with the module:
                    \* "failed", the error labels run; "exit", it is removed
          level,    \* how many of the Stages are done
          ptr,      \* resource -> "none", "ok" or, a freed pointer, "stale"
          leaked,   \* resources whose only pointer was overwritten
          target,   \* xt_qmark is loaded
          bad,      \* something that is not there was used or freed
          excuse    \* ghost: "early", a command came while the module was
                    \* initialised; "alloc", an allocation failed at run time

vars == <<pc, level, ptr, leaked, target, bad, excuse>>

\* Seeded fault: the notifier is registered before the tables are there.
StagesNotifierEarly == <<"bitmap", "sock", "region", "cdev", "class", "device",
                         "notifier", "ruletbl", "hash">>

\* The order of acquisition; the four of qmark_dev_init are stages of their own.
Stages == <<"bitmap", "sock", "region", "cdev", "class", "device",
            "ruletbl", "hash", "notifier">>
Top == Len(Stages)
Resources == {Stages[i] : i \in 1..Top}
Tables == {"bitmap", "ruletbl", "hash"}

Init ==
    /\ pc = "out"
    /\ level = 0
    /\ ptr = [r \in Resources |-> "none"]
    /\ leaked = {}
    /\ target = FALSE
    /\ bad = FALSE
    /\ excuse = {}

-----------------------------------------------------------------------------
(* Acquiring and releasing one resource.                                   *)

\* What a failed allocation leaves in the pointer.  qos_marktbl_hashtbl_init
\* frees the head when it gets no table, and keeps the pointer.
AfterFailure(r) == IF r = "hash" THEN {"none", "stale"} ELSE {"none"}

\* The outcomes of freeing and allocating the tables rs anew, one after the
\* other; a result is not looked at.
Reallocated(rs) ==
    {[r \in Resources |-> IF r \in rs THEN p[r] ELSE ptr[r]] :
        p \in {q \in [rs -> {"none", "ok", "stale"}] :
                 \A r \in rs : q[r] \in {"ok"} \union AfterFailure(r)}}

\* Every one of rs is used.
Uses(rs) == bad' = (bad \/ \E r \in rs : ptr[r] # "ok")

-----------------------------------------------------------------------------
(* The module loader.                                                      *)

Load ==
    /\ pc = "out"
    /\ pc' = "init"
    /\ ptr' = [r \in Resources |-> "none"]
    /\ leaked' = {}
    /\ excuse' = {}
    /\ UNCHANGED <<level, target, bad>>

Pending == Stages[level + 1]
Overwrites(r) == leaked' = leaked \union (IF ptr[r] = "ok" THEN {r} ELSE {})

\* The next stage of qos_marktbl_init succeeds, and the last one makes the
\* module live at `top'.  device_create returns an error pointer where NULL is
\* expected: its failure is taken for success.
Succeeds(top) ==
    /\ pc = "init"
    /\ \E p \in {"ok"} \union (IF Pending = "device" THEN {"none"} ELSE {}) :
          ptr' = [ptr EXCEPT ![Pending] = p]
    /\ Overwrites(Pending)
    /\ level' = level + 1
    /\ pc' = IF level' = top THEN "live" ELSE "init"
    /\ UNCHANGED <<target, bad, excuse>>

\* Seeded fault: the initialisation returns without the notifier.
InitStageReturnsEarly == Succeeds(Top - 1)

InitStage == Succeeds(Top)

\* A stage fails: the jump to the label that undoes what undo says.
FailsTo(undo) ==
    /\ pc = "init"
    /\ Pending # "device"
    /\ \E p \in AfterFailure(Pending) : ptr' = [ptr EXCEPT ![Pending] = p]
    /\ Overwrites(Pending)
    /\ level' = undo
    /\ pc' = "failed"
    /\ UNCHANGED <<target, bad, excuse>>

\* Seeded faults: the label after or before the right one.
InitFailsPastLast == level > 0 /\ FailsTo(level - 1)
InitFailsOneMore == FailsTo(level + 1)

InitFails == FailsTo(level)

Remove ==
    /\ pc = "live"
    /\ ~target
    /\ pc' = "exit"
    /\ UNCHANGED <<level, ptr, leaked, target, bad, excuse>>

\* One step of qos_marktbl_exit, or of the labels of qos_marktbl_init and
\* qmark_dev_init, which fall through in the same order.
Undo ==
    /\ pc \in {"failed", "exit"}
    /\ level > 0
    /\ ptr' = [ptr EXCEPT ![Stages[level]] = "none"]
    /\ bad' = (bad \/ ptr[Stages[level]] = "stale")
    /\ level' = level - 1
    /\ UNCHANGED <<pc, leaked, target, excuse>>

Gone ==
    /\ pc \in {"failed", "exit"}
    /\ level = 0
    /\ pc' = "out"
    /\ UNCHANGED <<level, ptr, leaked, target, bad, excuse>>

\* qmark_tg_init and qmark_tg_exit: the loader lets them run only while the
\* module that exports qmark_find_hash and qmark_alloc_mark_auto is live.
Target ==
    /\ pc = "live"
    /\ target' = ~target
    /\ UNCHANGED <<pc, level, ptr, leaked, bad, excuse>>

-----------------------------------------------------------------------------
(* Users of the tables.                                                    *)

\* A packet at the target, or a conntrack event; both also talk to tc.
Softirq ==
    /\ target \/ ptr["notifier"] = "ok"
    /\ Uses(Tables \union {"sock"})
    /\ UNCHANGED <<pc, level, ptr, leaked, target, excuse>>

\* An ioctl opens the device and needs the module not to be going, which it is
\* on its removal only.  `why' is what else is remembered of it.
Ioctl(why) ==
    /\ ptr["cdev"] = "ok"
    /\ pc \in {"init", "failed", "live"}
    /\ excuse' = excuse \union why \union (IF pc = "live" THEN {} ELSE {"early"})
    /\ UNCHANGED <<pc, level, leaked, target>>

\* The commands that read or change tables in place.
PlainCommand ==
    /\ Ioctl({})
    /\ \/ \E r \in Tables : Uses({r})
       \/ Uses({"ruletbl", "sock"})
    /\ UNCHANGED ptr

\* qmark_flush_rule, qmark_flush_hash, qmark_set_spec: free and allocate anew.
\* A freed pointer in place is freed a second time.
Replace(rs) ==
    /\ ptr' \in Reallocated(rs)
    /\ Ioctl(IF \E r \in rs : ptr'[r] # "ok" THEN {"alloc"} ELSE {})
    /\ bad' = (bad \/ \E r \in rs : ptr[r] = "stale")

\* qmark_reset(1) also clears the bitmap and the counts of the rules.
Reset ==
    /\ ptr' \in Reallocated({"hash"})
    /\ Ioctl(IF ptr'["hash"] # "ok" THEN {"alloc"} ELSE {})
    /\ bad' = (bad \/ ptr["hash"] = "stale" \/ "none" \in {ptr["bitmap"], ptr["ruletbl"]})

Next ==
    \/ /\ ~bad
       /\ \/ Load \/ InitStage \/ InitFails \/ Remove \/ Undo \/ Gone \/ Target
          \/ Softirq
          \/ PlainCommand
          \/ \E rs \in {{"ruletbl"}, {"hash"}, Tables} : Replace(rs)
          \/ Reset
    \/ bad /\ UNCHANGED vars

Spec == Init /\ [][Next]_vars

-----------------------------------------------------------------------------

\* Types; a module that is live went through all of the stages.
TypeOK ==
    /\ pc \in {"out", "init", "failed", "live", "exit"}
    /\ level \in 0..Top
    /\ pc = "live" => level = Top
    /\ ptr \in [Resources -> {"none", "ok", "stale"}]
    /\ leaked \subseteq Resources
    /\ target \in BOOLEAN
    /\ bad \in BOOLEAN
    /\ excuse \subseteq {"early", "alloc"}

\* When the module is gone, whether its initialisation failed at some stage or
\* it was removed, it holds nothing; only a command in the middle of the
\* initialisation can make it lose a table.
NothingLeft ==
    pc = "out" /\ "early" \notin excuse
        => leaked = {} /\ \A r \in Resources : ptr[r] # "ok"

\* Packets and events find the tables and the socket at any time, in the
\* initialisation and in the removal as well, unless the allocation of a new
\* table failed before; commands in the initialisation do not matter.
TablesOutliveUsers ==
    (target \/ ptr["notifier"] = "ok") /\ "alloc" \notin excuse
        => \A r \in Tables \union {"sock"} : ptr[r] = "ok"

\* Nothing that is not there is used or freed, by the error paths and the
\* removal neither, unless a command came early or an allocation failed.
BadNeedsExcuse == bad => excuse # {}

=============================================================================
