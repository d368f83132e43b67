---------------------------- MODULE MarkService ----------------------------
(***************************************************************************)
(* What the mark table promises the traffic shaper, stated without marks   *)
(* pools, reference counts or bitmaps: every bound IP belongs to a class,  *)
(* and two bound IPs are in the same class exactly when they were bound    *)
(* under the same rule and that rule is a shared one.                      *)
(*                                                                         *)
(* The promise is suspended (promise = FALSE) when an administrator        *)
(* rewrites the bookkeeping under live bindings, and is given again by a   *)
(* reset, which unbinds everything.                                        *)
(***************************************************************************)
EXTENDS Naturals

CONSTANTS IPs, RuleIds, Classes

VARIABLES class,     \* IP -> class it is shaped in, NoClass when unbound
          ruleof,    \* IP -> rule it was bound under, NoRule when unbound
          shared,    \* the rules whose IPs share one class
          open,      \* new bindings are accepted
          promise    \* the guarantee below is in force

vars == <<class, ruleof, shared, open, promise>>

NoClass == 0
NoRule == 0

Bound == {ip \in IPs : ruleof[ip] # NoRule}

TypeOK ==
    /\ class \in [IPs -> Classes \union {NoClass}]
    /\ ruleof \in [IPs -> RuleIds \union {NoRule}]
    /\ shared \subseteq RuleIds
    /\ open \in BOOLEAN
    /\ promise \in BOOLEAN

Init ==
    /\ class = [ip \in IPs |-> NoClass]
    /\ ruleof = [ip \in IPs |-> NoRule]
    /\ shared = {}
    /\ open = TRUE
    /\ promise = TRUE

-----------------------------------------------------------------------------

Bind(ip, id, c) ==
    /\ promise
    /\ open
    /\ ip \notin Bound
    /\ \A p \in Bound : class[p] = c <=> ruleof[p] = id /\ id \in shared
    /\ class' = [class EXCEPT ![ip] = c]
    /\ ruleof' = [ruleof EXCEPT ![ip] = id]
    /\ UNCHANGED <<shared, open, promise>>

Release(ip) ==
    /\ promise
    /\ ip \in Bound
    /\ class' = [class EXCEPT ![ip] = NoClass]
    /\ ruleof' = [ruleof EXCEPT ![ip] = NoRule]
    /\ UNCHANGED <<shared, open, promise>>

\* Rules that have no bound IP may become shared or private.
Declare(new) ==
    /\ promise
    /\ \A ip \in Bound : ruleof[ip] \in shared <=> ruleof[ip] \in new
    /\ shared' = new
    /\ UNCHANGED <<class, ruleof, open, promise>>

SetOpen(b) ==
    /\ open' = b
    /\ UNCHANGED <<class, ruleof, shared, promise>>

\* Everything is unbound, and the promise holds from here on.
Reset(new) ==
    /\ class' = [ip \in IPs |-> NoClass]
    /\ ruleof' = [ip \in IPs |-> NoRule]
    /\ shared' = new
    /\ promise' = TRUE
    /\ UNCHANGED open

\* The bookkeeping is rewritten under live bindings: nothing is promised.
Unpromised ==
    /\ ~promise'
    /\ class' \in [IPs -> Classes \union {NoClass}]
    /\ ruleof' \in [IPs -> RuleIds \union {NoRule}]
    /\ shared' \in SUBSET RuleIds
    /\ UNCHANGED open

Next ==
    \/ \E ip \in IPs, id \in RuleIds, c \in Classes : Bind(ip, id, c)
    \/ \E ip \in IPs : Release(ip)
    \/ \E new \in SUBSET RuleIds : Declare(new) \/ Reset(new)
    \/ \E b \in BOOLEAN : SetOpen(b)
    \/ Unpromised

Spec == Init /\ [][Next]_vars

=============================================================================
