----------------------------- MODULE QMarkConn -----------------------------
(***************************************************************************)
(* The forwarded connections: their packets on the way through the chain   *)
(* qos_chain_default (src/script/lib/ip_qos/nf.sh) with the target qmark   *)
(* (src/xt_kmod/xt_qmark.c), and the conntrack events that count them in   *)
(* the mark table (qmark_conntrack_event in src/kmod/qos_marktbl_main.c).  *)
(*                                                                         *)
(* On one processor a forwarded packet is handled by one softirq from the  *)
(* chain to its confirmation: timers and commands come before or after     *)
(* (`cpu').  conntrack keeps the IPCT_MARK of a packet until one of the    *)
(* connection is confirmed; a connection that never was goes silently.     *)
(***************************************************************************)
EXTENDS QMarkTable

CONSTANTS Conns,        \* conntrack entries
          RuleBits      \* width of QOS_MARK_RULE_MASK

Idle == "idle"
Outside == "outside"    \* any address that is not one of the LAN

\* The marks that fit under the rule mask.
MarkSpace == 2^RuleBits

\* QOS_CELL_SPEC - 2 marks fit into the mask (254 and 8 bits by default).
ASSUME WidthAssumption ==
    /\ MarkSpace \in Nat
    /\ \A n \in IpSpecs : n < MarkSpace

ASSUME ConnsAssumption ==
    /\ IsFiniteSet(Conns)
    /\ Cardinality(Conns) <= RefBound
    /\ Idle \notin Conns
    /\ Outside \notin IPs

VARIABLES conn,         \* conntrack entry -> connection or NoConn
          cpu,          \* the connection whose packet is past the chain
          astray        \* ghost: hosts with connections the node does not count

table == vars           \* the variables of QMarkTable
connVars == <<table, conn, cpu, astray>>

\* A connection of a host of the LAN, opened by it or from outside, with its
\* destination rewritten or not; its mark under the rule mask, 0 for none.
Connections == [host : IPs, inbound : BOOLEAN, dnat : BOOLEAN,
                mark : 0..(MarkSpace - 1), pend : BOOLEAN, conf : BOOLEAN]
NoConn == [host |-> Outside, inbound |-> FALSE, dnat |-> FALSE, mark |-> 0,
           pend |-> FALSE, conf |-> FALSE]

Live == {c \in Conns : conn[c] # NoConn}
Marked(h) == {c \in Live : conn[c].host = h /\ conn[c].mark # 0}

\* Hosts go astray with the step that makes s of them; one is back when it
\* has no node and no marked connection.
Astray(s) ==
    astray' = {h \in astray \union s : h \in Bound' \/ Marked(h)' # {}}

ConnInit ==
    /\ Init
    /\ conn = [c \in Conns |-> NoConn]
    /\ cpu = Idle
    /\ astray = {}

-----------------------------------------------------------------------------
(* The chain.                                                              *)

\* Seeded fault: the mark of a connection that is not confirmed yet is saved
\* without an event.
SavedUnnoticed(r, m) ==
    [r EXCEPT !.mark = m % MarkSpace, !.pend = r.conf]

\* skb->mark, composed under the mask, and saved to the connection: the mark
\* was 0, so an IPCT_MARK is due if it is not 0 now.
Saved(r, m) ==
    [r EXCEPT !.mark = m % MarkSpace, !.pend = @ \/ m % MarkSpace # 0]

\* The connection a packet belongs to: c's, or a new one.
Candidates(c) ==
    IF c \in Live THEN {conn[c]}
    ELSE [host : IPs, inbound : BOOLEAN, dnat : BOOLEAN,
          mark : {0}, pend : {FALSE}, conf : {FALSE}]

Known == {id \in RuleIds : g_ruletbl[id].par # NoPar}

\* A packet of r passes the chain and leaves c as Becomes says: r has a mark,
\* which is restored and ends it (RETURN); or no rule matches or gives a mark;
\* or one matches, and the target finds the host's mark or allocates one.
Through(c, r) ==
    LET Becomes(r2) == conn' = [conn EXCEPT ![c] = r2]
    IN  \/ Becomes(r) /\ UNCHANGED table
        \/ /\ r.mark = 0
           /\ Known # {}
           /\ marktbl[r.host].mark # 0
           /\ Becomes(Saved(r, marktbl[r.host].mark))
           /\ UNCHANGED table
        \/ /\ r.mark = 0
           /\ \E id \in Known :
                \/ /\ qmark_alloc_mark_auto(r.host, id)
                   /\ Becomes(Saved(r, marktbl'[r.host].mark))
                \/ AllocMarkAutoFails(r.host, id) /\ Becomes(r)

Forward(c) ==
    /\ cpu = Idle
    /\ \E r \in Candidates(c) : Through(c, r)
    /\ cpu' = c
    /\ Astray({})

-----------------------------------------------------------------------------
(* Events.                                                                 *)

\* Seeded fault: the originator is always taken for the host.
EventAddrOrig(r) == IF r.inbound THEN Outside ELSE r.host

\* The address an event is counted for: the originator when the destination
\* was not rewritten, else the destination that it was rewritten to.
EventAddr(r) ==
    IF ~r.dnat THEN IF r.inbound THEN Outside ELSE r.host
               ELSE IF r.inbound THEN r.host ELSE Outside

\* Routed inbound connections and redirected outbound ones: the node of the
\* host does not count them.
Uncounted(r) == r.mark # 0 /\ r.inbound # r.dnat

\* qmark_conntrack_event has a node to work on.
Noted(r) == r.mark # 0 /\ EventAddr(r) \in Bound

\* The packet in flight leaves: conntrack confirms the connection and delivers
\* the events it kept.
Confirm ==
    /\ cpu # Idle
    /\ conn' = [conn EXCEPT ![cpu].conf = TRUE, ![cpu].pend = FALSE]
    /\ IF conn[cpu].pend /\ Noted(conn[cpu])
       THEN ConntrackMark(EventAddr(conn[cpu]))
       ELSE UNCHANGED table
    /\ cpu' = Idle
    /\ Astray({h \in IPs : h = conn[cpu].host /\ Uncounted(conn[cpu])})

\* Seeded fault: the entry of a dropped first packet stays.
DropKeeps ==
    /\ cpu # Idle
    /\ cpu' = Idle
    /\ UNCHANGED <<table, conn>>
    /\ Astray({})

\* The packet in flight is dropped behind the chain.
Drop ==
    /\ cpu # Idle
    /\ conn' = [conn EXCEPT ![cpu] = IF @.conf THEN @ ELSE NoConn]
    /\ cpu' = Idle
    /\ UNCHANGED table
    /\ Astray({h \in IPs : h = conn[cpu].host /\ conn[cpu].conf /\ conn[cpu].pend})

\* A confirmed connection ends or times out: IPCT_DESTROY.
Destroy(c) ==
    /\ cpu = Idle
    /\ c \in Live
    /\ IF Noted(conn[c]) THEN ConntrackDestroy(EventAddr(conn[c]))
                         ELSE UNCHANGED table
    /\ conn' = [conn EXCEPT ![c] = NoConn]
    /\ cpu' = cpu
    /\ Astray({})

\* The commands of the scripts.  Rules that bind addresses are rewritten in
\* QMarkTable; the connections keep their marks when the table is flushed.
Command ==
    /\ cpu = Idle
    /\ \/ \E id \in RuleIds \ Known, par \in Params,
             mode \in {PRIV_MODE, SHARE_MODE} :
             qmark_add_rule(id, mode, par)
       \/ \E id \in Known : Holders(id) = {} /\ qmark_del_rule(id)
       \/ ResetBegin
       \/ ResetFlush
       \/ ResetEnd
       \/ \E ip_spec \in IpSpecs : qmark_set_spec(ip_spec)
    /\ UNCHANGED <<conn, cpu>>
    /\ Astray({h \in Bound \ Bound' : Marked(h) # {}})

ConnNext ==
    \/ \E c \in Conns : Forward(c) \/ Destroy(c)
    \/ Confirm
    \/ Drop
    \/ Command

ConnSpec == ConnInit /\ [][ConnNext]_connVars

-----------------------------------------------------------------------------

\* Types; a connection that is not confirmed is the one of the packet in flight.
ConnTypeOK ==
    /\ TypeOK
    /\ conn \in [Conns -> Connections \union {NoConn}]
    /\ cpu \in Live \union {Idle}
    /\ \A c \in Live : ~conn[c].conf => cpu = c
    /\ astray \subseteq IPs

\* As long as a connection carries a mark, its host's node is there and has
\* this mark: the mark is not freed, and not given to another host, under it
\* (later packets only have the connection's mark).
MarkedAsBound ==
    \A h \in IPs \ astray : \A c \in Marked(h) :
        h \in Bound /\ conn[c].mark = marktbl[h].mark

\* A node's count is the number of the host's marked connections whose event
\* was delivered, so the DESTROY that finds one left is the last.
CountExact ==
    \A h \in Bound \ astray :
        marktbl[h].count = Cardinality({c \in Marked(h) : ~conn[c].pend})

\* Two connections of different hosts are shaped together exactly when one
\* shared rule bound both hosts: what Isolation says of the table is true of
\* the marks that connections carry, which is what iptables restores.
ConnIsolation ==
    clean => \A g, h \in IPs \ astray : \A c \in Marked(g), d \in Marked(h) :
        g # h => ( conn[c].mark = conn[d].mark
                   <=> /\ marktbl[g].id = marktbl[h].id
                       /\ g_ruletbl[marktbl[g].id].mode = SHARE_MODE )

\* The end of a host's last marked connection unbinds the host; only a dropped
\* first packet leaves a node without a connection.
LastOneUnbinds ==
    [][ \A h \in IPs \ astray :
          cpu = Idle /\ Marked(h) # {} /\ Marked(h)' = {} => h \notin Bound'
      ]_connVars

=============================================================================
