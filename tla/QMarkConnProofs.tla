-------------------------- MODULE QMarkConnProofs ---------------------------
(***************************************************************************)
(* Theorems about QMarkConn, for every number of hosts, connections, rules *)
(* and marks.                                                              *)
(***************************************************************************)
EXTENDS QMarkConn, QMarkTableProofs

-----------------------------------------------------------------------------
(* A behaviour of the connections is a behaviour of the mark table.  The   *)
(* packet that stops the kernel is not one of theirs.                      *)

NoPanic == panic = FALSE

\* What a step does to the table is one of the table's own steps.
LEMMA ConnStepIsTableStep ==
    ConnTypeOK /\ NoPanic /\ [ConnNext]_connVars => [Next]_vars /\ NoPanic'
<1>. SUFFICES ASSUME ConnTypeOK, NoPanic, [ConnNext]_connVars
              PROVE  [Next]_vars /\ NoPanic'
  OBVIOUS
<1>1. CASE UNCHANGED table
  BY <1>1 DEF table, vars, NoPanic
<1>2. ASSUME NEW ip \in IPs, NEW id \in RuleIds,
             qmark_alloc_mark_auto(ip, id) \/ AllocMarkAutoFails(ip, id)
      PROVE  Next /\ NoPanic'
  BY <1>2 DEF Next, Packet, NoPanic, qmark_alloc_mark_auto, AllocMarkAutoFails
<1>3. ASSUME NEW ip \in IPs, ConntrackMark(ip) \/ ConntrackDestroy(ip)
      PROVE  Next /\ NoPanic'
  BY <1>3 DEF Next, Conntrack, NoPanic, ConntrackMark, ConntrackDestroy, PutEntry
<1>4. ASSUME NEW c \in Conns, Forward(c)
      PROVE  [Next]_vars /\ NoPanic'
  <2>1. PICK r \in Candidates(c) : Through(c, r)
    BY <1>4 DEF Forward
  <2>2. CASE UNCHANGED table
    BY <1>1, <2>2
  <2>3. CASE \E id \in Known : \/ qmark_alloc_mark_auto(r.host, id)
                               \/ AllocMarkAutoFails(r.host, id)
    <3>1. r.host \in IPs
      BY <2>1, <2>3 DEF Candidates, Live, ConnTypeOK, Connections
    <3>. QED  BY <1>2, <2>3, <3>1 DEF Known
  <2>. QED  BY <2>1, <2>2, <2>3 DEF Through
<1>5. ASSUME NEW c \in Conns, Destroy(c)
      PROVE  [Next]_vars /\ NoPanic'
  BY <1>1, <1>3, <1>5 DEF Destroy, Noted, Bound
<1>6. CASE Confirm
  BY <1>1, <1>3, <1>6 DEF Confirm, Noted, Bound
<1>7. CASE Drop
  BY <1>1, <1>7 DEF Drop
<1>8. CASE Command
  <2>1. CASE \E id \in RuleIds \ Known, par \in Params,
                mode \in {PRIV_MODE, SHARE_MODE} : qmark_add_rule(id, mode, par)
    BY <2>1 DEF Next, RuleCommand, NoPanic, qmark_add_rule
  <2>2. CASE \E id \in Known : qmark_del_rule(id)
    BY <2>2 DEF Known, Next, RuleCommand, NoPanic, qmark_del_rule
  <2>3. CASE ResetBegin \/ ResetFlush \/ ResetEnd
    BY <2>3 DEF Next, TableCommand, NoPanic, ResetBegin, ResetFlush, ResetEnd
  <2>4. CASE \E ip_spec \in IpSpecs : qmark_set_spec(ip_spec)
    BY <2>4 DEF Next, TableCommand, NoPanic, qmark_set_spec
  <2>. QED  BY <1>8, <2>1, <2>2, <2>3, <2>4 DEF Command
<1>9. CASE UNCHANGED connVars
  BY <1>1, <1>9 DEF connVars
<1>. QED  BY <1>4, <1>5, <1>6, <1>7, <1>8, <1>9 DEF ConnNext

-----------------------------------------------------------------------------
(* The inductive invariant.  MarkedAsBound and CountExact need each other, *)
(* and both need to know which connections the node counts: the marked     *)
(* ones whose event was delivered are confirmed and of a counted kind, and *)
(* an event is outstanding only for the packet in flight.                  *)

CountedConns(h) == {c \in Marked(h) : ~conn[c].pend}

\* The books of one host.
HostSettled(h) ==
    /\ \A c \in Marked(h) :
        /\ h \in Bound
        /\ conn[c].mark = marktbl[h].mark
        /\ IF conn[c].pend THEN cpu = c
           ELSE conn[c].conf /\ conn[c].inbound = conn[c].dnat
    /\ h \in Bound => marktbl[h].count = Cardinality(CountedConns(h))

Settled == \A h \in IPs \ astray : HostSettled(h)

ConnInv == ConnTypeOK /\ TypeInv /\ NoPanic /\ Settled

\* A mark of the table is kept whole under the mask.
LEMMA MarkFits ==
    ASSUME TypeOK, NEW m \in 0..max_ip_cnt
    PROVE  m % MarkSpace = m /\ m \in 0..(MarkSpace - 1)
<1>1. max_ip_cnt \in Nat /\ max_ip_cnt < MarkSpace /\ MarkSpace \in Nat
  BY SpecAssumption, WidthAssumption DEF TypeOK
<1>. QED  BY <1>1

\* A host that a step does not leave astray was not astray before, unless it
\* has neither a node nor a marked connection now.
LEMMA AstrayOrEmpty ==
    ASSUME NEW s, Astray(s), NEW h \in IPs \ astray'
    PROVE  \/ h \notin Bound' /\ Marked(h)' = {}
           \/ h \notin astray /\ h \notin s
BY DEF Astray

\* The books of a host with neither are in order.
LEMMA EmptySettled ==
    ASSUME NEW h, h \notin Bound, Marked(h) = {}
    PROVE  HostSettled(h)
BY DEF HostSettled

\* Nothing that concerns h changes.
LEMMA HostKept ==
    ASSUME NEW h \in IPs, HostSettled(h), TypeOK, TypeOK',
           ConnTypeOK, NEW d \in Conns, conn' \in [Conns -> Connections \union {NoConn}],
           marktbl'[h] = marktbl[h],
           \A c \in Conns \ {d} : conn'[c] = conn[c],
           conn'[d] = conn[d] \/ (d \notin Marked(h) /\ d \notin Marked(h)'),
           \A c \in Marked(h) : conn[c].pend => cpu' = c
    PROVE  HostSettled(h)'
<1>1. Marked(h)' = Marked(h) /\ \A c \in Marked(h) : conn'[c] = conn[c]
  BY DEF Marked, Live
<1>2. CountedConns(h)' = CountedConns(h)
  BY <1>1 DEF CountedConns
<1>3. (h \in Bound)' <=> h \in Bound
  BY DEF Bound
<1>. QED  BY <1>1, <1>2, <1>3 DEF HostSettled

-----------------------------------------------------------------------------
(* What the table's steps do to the node of an address.                    *)

LEMMA AllocEffect ==
    ASSUME TypeOK, NEW ip \in IPs, NEW id \in RuleIds,
           qmark_alloc_mark_auto(ip, id)
    PROVE  /\ ip \notin Bound
           /\ \E m \in 0..max_ip_cnt :
                marktbl' = [marktbl EXCEPT ![ip] =
                               [id |-> id, mark |-> m, count |-> 0]]
<1>1. PICK m \in MarkFor(id) : HashInsert(ip, id, m)
  BY DEF qmark_alloc_mark_auto
<1>2. m \in 0..max_ip_cnt
  BY MarkForType
<1>. QED  BY <1>1, <1>2 DEF HashInsert, qmark_alloc_mark_auto

LEMMA MarkEffect ==
    ASSUME NEW ip, ConntrackMark(ip)
    PROVE  marktbl' = [marktbl EXCEPT ![ip].count = @ + 1]
BY DEF ConntrackMark

LEMMA CountedUp ==
    ASSUME TypeOK, NEW ip \in IPs, marktbl' = [marktbl EXCEPT ![ip].count = @ + 1]
    PROVE  /\ Bound' = Bound
           /\ marktbl'[ip].mark = marktbl[ip].mark
           /\ marktbl'[ip].count = marktbl[ip].count + 1
BY DEF TypeOK, NoEntry, Bound

LEMMA DestroyEffect ==
    ASSUME NEW ip, ConntrackDestroy(ip)
    PROVE  marktbl' = IF marktbl[ip].count - 1 > 0
                      THEN [marktbl EXCEPT ![ip].count = @ - 1]
                      ELSE [marktbl EXCEPT ![ip] = NoEntry]
BY DEF ConntrackDestroy, PutEntry

LEMMA CountedDown ==
    ASSUME TypeOK, NEW ip \in IPs, marktbl' = [marktbl EXCEPT ![ip].count = @ - 1]
    PROVE  /\ Bound' = Bound
           /\ marktbl'[ip].mark = marktbl[ip].mark
           /\ marktbl'[ip].count = marktbl[ip].count - 1
BY DEF TypeOK, NoEntry, Bound

\* The types of connections, when at most the connection d changes.
LEMMA ConnTyped ==
    ASSUME ConnTypeOK, NEW d \in Conns, NEW r \in Connections \union {NoConn},
           conn' = [conn EXCEPT ![d] = r]
    PROVE  /\ conn' \in [Conns -> Connections \union {NoConn}]
           /\ conn'[d] = r
           /\ \A c \in Conns \ {d} : conn'[c] = conn[c]
BY DEF ConnTypeOK

\* The connection a packet starts from is of its type and, if marked, live.
LEMMA CandidateType ==
    ASSUME ConnTypeOK, NEW c \in Conns, NEW r \in Candidates(c)
    PROVE  /\ r \in Connections
           /\ \/ c \in Live /\ r = conn[c]
              \/ c \notin Live /\ r.mark = 0 /\ ~r.pend /\ ~r.conf
<1>1. 0 \in 0..(MarkSpace - 1)
  BY WidthAssumption, SpecAssumption
<1>. QED  BY <1>1 DEF Candidates, ConnTypeOK, Live, Connections

-----------------------------------------------------------------------------
(* The steps.                                                              *)

\* What a packet of c leaves: c as it was (or new and unmarked), or with the
\* mark of its host's node, which may be new.
ForwardLeaves(c, r) ==
    \/ /\ marktbl' = marktbl
       /\ conn' = [conn EXCEPT ![c] = r]
    \/ /\ r.mark = 0
       /\ marktbl' = marktbl
       /\ marktbl[r.host].mark # 0
       /\ conn' = [conn EXCEPT ![c] = Saved(r, marktbl[r.host].mark)]
    \/ /\ r.mark = 0
       /\ r.host \notin Bound
       /\ \E id \in RuleIds, m \in 0..max_ip_cnt :
            /\ marktbl' = [marktbl EXCEPT ![r.host] =
                              [id |-> id, mark |-> m, count |-> 0]]
            /\ conn' = [conn EXCEPT ![c] = Saved(r, m)]

LEMMA ForwardOutcome ==
    ASSUME ConnInv, NEW c \in Conns, Forward(c)
    PROVE  \E r \in Candidates(c) : ForwardLeaves(c, r)
<1>1. PICK r \in Candidates(c) : Through(c, r)
  BY DEF Forward
<1>2. r.host \in IPs
  BY CandidateType DEF ConnInv, Connections
<1>3. CASE conn' = [conn EXCEPT ![c] = r] /\ UNCHANGED table
  BY <1>3 DEF ForwardLeaves, table, vars
<1>4. CASE /\ r.mark = 0
           /\ marktbl[r.host].mark # 0
           /\ conn' = [conn EXCEPT ![c] = Saved(r, marktbl[r.host].mark)]
           /\ UNCHANGED table
  BY <1>4 DEF ForwardLeaves, table, vars
<1>5. ASSUME NEW id \in Known, r.mark = 0, qmark_alloc_mark_auto(r.host, id),
             conn' = [conn EXCEPT ![c] = Saved(r, marktbl'[r.host].mark)]
      PROVE  ForwardLeaves(c, r)
  <2>1. id \in RuleIds /\ TypeOK
    BY DEF Known, ConnInv, TypeInv
  <2>2. r.host \notin Bound
    BY <1>2, <1>5, <2>1, AllocEffect
  <2>3. PICK m \in 0..max_ip_cnt :
          marktbl' = [marktbl EXCEPT ![r.host] =
                         [id |-> id, mark |-> m, count |-> 0]]
    BY <1>2, <1>5, <2>1, AllocEffect
  <2>4. marktbl'[r.host].mark = m
    BY <1>2, <2>1, <2>3 DEF TypeOK
  <2>. QED  BY <1>5, <2>1, <2>2, <2>3, <2>4 DEF ForwardLeaves
<1>6. ASSUME NEW id \in Known, AllocMarkAutoFails(r.host, id),
             conn' = [conn EXCEPT ![c] = r]
      PROVE  ForwardLeaves(c, r)
  BY <1>6 DEF ForwardLeaves, AllocMarkAutoFails
<1>. QED  BY <1>1, <1>3, <1>4, <1>5, <1>6 DEF Through

\* A packet keeps the books: a mark it saves is the node's, and is not counted
\* before its event.
LEMMA ForwardKeeps ==
    ASSUME ConnInv, TypeOK', NEW c \in Conns, Forward(c)
    PROVE  /\ conn' \in [Conns -> Connections \union {NoConn}]
           /\ c \in Live'
           /\ \A d \in Conns \ {c} : conn'[d] = conn[d]
           /\ Settled'
<1>0. ConnTypeOK /\ TypeOK /\ Settled /\ cpu = Idle /\ cpu' = c /\ Astray({})
  BY DEF ConnInv, TypeInv, Forward
<1>1. PICK r \in Candidates(c) : ForwardLeaves(c, r)
  BY ForwardOutcome
<1>2. /\ r \in Connections
      /\ \/ c \in Live /\ r = conn[c]
         \/ c \notin Live /\ r.mark = 0 /\ ~r.pend /\ ~r.conf
  BY <1>0, CandidateType
<1>3. r.host \in IPs
  BY <1>2 DEF Connections
<1>4. NoConn \notin Connections
  BY ConnsAssumption DEF NoConn, Connections
<1>5. \A h \in IPs \ astray : \A d \in Marked(h) : ~conn[d].pend
  BY <1>0, ConnsAssumption DEF Settled, HostSettled, Marked, Live
<1>6. \A h \in IPs \ astray' :
        \/ h \notin Bound' /\ Marked(h)' = {}
        \/ h \notin astray /\ HostSettled(h)
  BY <1>0, AstrayOrEmpty DEF Settled
<1>7. ASSUME NEW r2 \in Connections, conn' = [conn EXCEPT ![c] = r2],
             r2.host = r.host,
             \A h \in IPs \ astray : HostSettled(h) /\ h = r.host => HostSettled(h)',
             \A h \in IPs : h # r.host => marktbl'[h] = marktbl[h]
      PROVE  /\ conn' \in [Conns -> Connections \union {NoConn}]
             /\ c \in Live'
             /\ \A d \in Conns \ {c} : conn'[d] = conn[d]
             /\ Settled'
  <2>1. /\ conn' \in [Conns -> Connections \union {NoConn}]
        /\ conn'[c] = r2
        /\ \A d \in Conns \ {c} : conn'[d] = conn[d]
    BY <1>0, <1>7, ConnTyped
  <2>2. ASSUME NEW h \in IPs \ astray' PROVE HostSettled(h)'
    <3>1. CASE h \notin Bound' /\ Marked(h)' = {}
      BY <3>1 DEF HostSettled
    <3>2. CASE h \notin astray /\ HostSettled(h) /\ h = r.host
      BY <1>7, <3>2
    <3>3. CASE h \notin astray /\ HostSettled(h) /\ h # r.host
      <4>1. c \notin Marked(h) /\ c \notin Marked(h)'
        BY <1>2, <1>7, <2>1, <3>3 DEF Marked
      <4>. QED  BY <1>0, <1>5, <1>7, <2>1, <3>3, <4>1, HostKept
    <3>. QED  BY <1>6, <3>1, <3>2, <3>3
  <2>. QED  BY <1>4, <2>1, <2>2 DEF Settled, Live
<1>8. CASE marktbl' = marktbl /\ conn' = [conn EXCEPT ![c] = r]
  <2>1. /\ conn' \in [Conns -> Connections \union {NoConn}]
        /\ conn'[c] = r
        /\ \A d \in Conns \ {c} : conn'[d] = conn[d]
    BY <1>0, <1>2, <1>8, ConnTyped
  <2>2. conn'[c] = conn[c] \/ (c \notin Marked(r.host) /\ c \notin Marked(r.host)')
    BY <1>2, <2>1 DEF Marked
  <2>3. \A h \in IPs \ astray : HostSettled(h) /\ h = r.host => HostSettled(h)'
    BY <1>0, <1>5, <1>8, <2>1, <2>2, HostKept
  <2>. QED  BY <1>2, <1>7, <1>8, <2>3
<1>9. ASSUME NEW m \in 0..max_ip_cnt, r.mark = 0,
             conn' = [conn EXCEPT ![c] = Saved(r, m)],
             \A h \in IPs : h # r.host => marktbl'[h] = marktbl[h],
             marktbl'[r.host].mark = m,
             marktbl'[r.host].id # 0,
             \/ marktbl'[r.host] = marktbl[r.host] /\ m # 0
             \/ r.host \notin Bound /\ marktbl'[r.host].count = 0
      PROVE  /\ conn' \in [Conns -> Connections \union {NoConn}]
             /\ c \in Live'
             /\ \A d \in Conns \ {c} : conn'[d] = conn[d]
             /\ Settled'
  <2>1. m % MarkSpace = m /\ m \in 0..(MarkSpace - 1)
    BY <1>0, MarkFits
  <2>2. /\ Saved(r, m) \in Connections
        /\ Saved(r, m).host = r.host
        /\ Saved(r, m).mark = m
        /\ m # 0 => Saved(r, m).pend
    BY <1>2, <2>1 DEF Saved, Connections
  <2>3. /\ conn'[c] = Saved(r, m)
        /\ \A d \in Conns \ {c} : conn'[d] = conn[d]
    BY <1>0, <1>9, <2>2, ConnTyped
  <2>4. ASSUME NEW h \in IPs \ astray, HostSettled(h), h = r.host
        PROVE  HostSettled(h)'
    <3>1. h \in Bound'
      BY <1>9, <2>4 DEF Bound
    <3>2. Marked(h) \subseteq Marked(h)' /\ Marked(h)' \subseteq Marked(h) \union {c}
      BY <1>2, <1>9, <2>3 DEF Marked, Live
    <3>3. c \notin Marked(h)
      BY <1>2, <1>9 DEF Marked
    <3>4. c \in Marked(h)' => m # 0 /\ conn'[c].pend /\ conn'[c].mark = marktbl'[h].mark
      BY <1>9, <2>2, <2>3, <2>4 DEF Marked
    <3>5. CountedConns(h)' = CountedConns(h)
      BY <2>3, <3>2, <3>3, <3>4 DEF CountedConns, Marked, Live
    <3>6. CASE h \notin Bound /\ marktbl'[h].count = 0
      <4>1. Marked(h) = {}
        BY <2>4, <3>6 DEF HostSettled
      <4>2. CountedConns(h)' = {}
        BY <3>5, <4>1 DEF CountedConns
      <4>. QED  BY <1>0, <3>1, <3>2, <3>4, <3>6, <4>1, <4>2, FS_EmptySet DEF HostSettled
    <3>7. CASE marktbl'[h] = marktbl[h]
      <4>1. h \in Bound
        BY <3>1, <3>7 DEF Bound
      <4>2. \A d \in Marked(h) : conn'[d] = conn[d] /\ ~conn[d].pend
        BY <1>5, <2>3, <3>3 DEF Marked, Live
      <4>. QED  BY <1>0, <2>4, <3>1, <3>2, <3>4, <3>5, <3>7, <4>1, <4>2 DEF HostSettled
    <3>. QED  BY <1>9, <2>4, <3>6, <3>7
  <2>. QED  BY <1>7, <1>9, <2>2, <2>4
<1>10. CASE /\ r.mark = 0
            /\ marktbl' = marktbl
            /\ marktbl[r.host].mark # 0
            /\ conn' = [conn EXCEPT ![c] = Saved(r, marktbl[r.host].mark)]
  <2>1. marktbl[r.host].mark \in 0..max_ip_cnt /\ marktbl[r.host].id # 0
    BY <1>0, <1>3, <1>10, SpecAssumption DEF TypeOK, NoEntry, RuleIds
  <2>. QED  BY <1>9, <1>10, <2>1
<1>11. ASSUME r.mark = 0, r.host \notin Bound,
              NEW id \in RuleIds, NEW m \in 0..max_ip_cnt,
              marktbl' = [marktbl EXCEPT ![r.host] =
                             [id |-> id, mark |-> m, count |-> 0]],
              conn' = [conn EXCEPT ![c] = Saved(r, m)]
       PROVE  /\ conn' \in [Conns -> Connections \union {NoConn}]
              /\ c \in Live'
              /\ \A d \in Conns \ {c} : conn'[d] = conn[d]
              /\ Settled'
  <2>1. /\ marktbl'[r.host] = [id |-> id, mark |-> m, count |-> 0]
        /\ \A h \in IPs : h # r.host => marktbl'[h] = marktbl[h]
    BY <1>0, <1>3, <1>11 DEF TypeOK
  <2>2. /\ marktbl'[r.host].mark = m
        /\ marktbl'[r.host].id # 0
        /\ marktbl'[r.host].count = 0
    BY <2>1 DEF RuleIds
  <2>. QED  BY <1>9, <1>11, <2>1, <2>2
<1>. QED  BY <1>1, <1>8, <1>10, <1>11 DEF ForwardLeaves

\* An event of a connection is counted for its host or for nobody, and for
\* its host when the connection is of a counted kind.
LEMMA EventAddrOfHost ==
    ASSUME NEW r \in Connections, Noted(r)
    PROVE  EventAddr(r) = r.host /\ r.inbound = r.dnat /\ r.mark # 0
BY ConnsAssumption DEF Noted, EventAddr, Bound, Connections

LEMMA CountedIsNoted ==
    ASSUME NEW r \in Connections, r.mark # 0, r.inbound = r.dnat, r.host \in Bound
    PROVE  Noted(r)
BY DEF Noted, EventAddr, Connections

\* The counted connections are finitely many, one more or one less changes
\* their number by one.
LEMMA CountedFinite ==
    ASSUME NEW h
    PROVE  IsFiniteSet(CountedConns(h)) /\ Cardinality(CountedConns(h)) \in Nat
<1>1. CountedConns(h) \subseteq Conns
  BY DEF CountedConns, Marked, Live
<1>. QED  BY <1>1, ConnsAssumption, FS_Subset, FS_CardinalityType

\* The confirmation delivers the event kept for the packet in flight: its
\* connection is counted from here on, or its host goes astray.
LEMMA ConfirmKeeps ==
    ASSUME ConnInv, TypeOK', Confirm
    PROVE  /\ conn' \in [Conns -> Connections \union {NoConn}]
           /\ cpu \in Conns
           /\ conn'[cpu].conf
           /\ \A d \in Conns \ {cpu} : conn'[d] = conn[d]
           /\ Settled'
<1>. DEFINE r == conn[cpu]
            r2 == [r EXCEPT !.conf = TRUE, !.pend = FALSE]
            s == {h \in IPs : h = r.host /\ Uncounted(r)}
<1>0. /\ ConnTypeOK /\ TypeOK /\ Settled
      /\ cpu # Idle /\ cpu' = Idle /\ Astray(s)
      /\ conn' = [conn EXCEPT ![cpu] = r2]
  <2>1. conn' = [conn EXCEPT ![cpu] = r2]
    BY DEF Confirm, ConnInv, ConnTypeOK
  <2>. QED  BY <2>1 DEF ConnInv, TypeInv, Confirm
<1>1. cpu \in Conns /\ cpu \in Live /\ r \in Connections
  BY <1>0 DEF ConnTypeOK, Live
<1>2. /\ r2 \in Connections /\ r2.host = r.host /\ r2.mark = r.mark
      /\ r2.inbound = r.inbound /\ r2.dnat = r.dnat /\ r2.conf /\ ~r2.pend
  BY <1>1 DEF Connections
<1>3. /\ conn' \in [Conns -> Connections \union {NoConn}]
      /\ conn'[cpu] = r2
      /\ \A d \in Conns \ {cpu} : conn'[d] = conn[d]
  BY <1>0, <1>1, <1>2, ConnTyped
<1>4. NoConn \notin Connections
  BY ConnsAssumption DEF NoConn, Connections
<1>5. /\ ~(r.pend /\ Noted(r)) => marktbl' = marktbl
      /\ r.pend /\ Noted(r) => marktbl' = [marktbl EXCEPT ![r.host].count = @ + 1]
  BY <1>1, EventAddrOfHost, MarkEffect DEF Confirm, table, vars
<1>6. ASSUME NEW h \in IPs \ astray' PROVE HostSettled(h)'
  <2>1. CASE h \notin Bound' /\ Marked(h)' = {}
    BY <2>1 DEF HostSettled
  <2>2. CASE h \notin astray /\ h \notin s /\ h # r.host
    <3>1. cpu \notin Marked(h) /\ cpu \notin Marked(h)'
      BY <1>2, <1>3, <2>2 DEF Marked
    <3>2. marktbl'[h] = marktbl[h]
      BY <1>0, <1>5, <2>2 DEF TypeOK
    <3>3. HostSettled(h) /\ \A c \in Marked(h) : ~conn[c].pend
      BY <1>0, <2>2, <3>1 DEF Settled, HostSettled
    <3>. QED  BY <1>0, <1>1, <1>3, <3>1, <3>2, <3>3, HostKept
  <2>3. CASE h \notin astray /\ h \notin s /\ h = r.host
    <3>1. HostSettled(h) /\ (r.mark # 0 => r.inbound = r.dnat)
      BY <1>0, <2>3 DEF Settled, Uncounted
    <3>2. Marked(h)' = Marked(h)
      BY <1>1, <1>2, <1>3, <1>4 DEF Marked, Live
    <3>3. r.mark # 0 => cpu \in Marked(h) /\ h \in Bound /\ Noted(r)
      <4>1. r.mark # 0 => cpu \in Marked(h)
        BY <1>1, <2>3 DEF Marked
      <4>2. r.mark # 0 => h \in Bound
        BY <3>1, <4>1 DEF HostSettled
      <4>. QED  BY <1>1, <2>3, <3>1, <4>1, <4>2, CountedIsNoted
    <3>4. r.mark = 0 => ~Noted(r) /\ cpu \notin Marked(h)
      BY DEF Noted, Marked
    <3>5. /\ Bound' = Bound
          /\ marktbl'[h].mark = marktbl[h].mark
          /\ marktbl'[h].count = IF r.pend /\ Noted(r) THEN marktbl[h].count + 1
                                                       ELSE marktbl[h].count
      <4>1. CASE r.pend /\ Noted(r)
        <5>1. h \in IPs /\ marktbl' = [marktbl EXCEPT ![h].count = @ + 1]
          BY <1>5, <2>3, <4>1
        <5>. QED  BY <1>0, <4>1, <5>1, CountedUp
      <4>2. CASE ~(r.pend /\ Noted(r))
        BY <1>5, <4>2 DEF Bound
      <4>. QED  BY <4>1, <4>2
    <3>6. \A c \in Marked(h)' :
             /\ h \in Bound' /\ conn'[c].mark = marktbl'[h].mark
             /\ ~conn'[c].pend /\ conn'[c].conf /\ conn'[c].inbound = conn'[c].dnat
      <4>. SUFFICES ASSUME NEW c \in Marked(h)
                    PROVE  /\ h \in Bound' /\ conn'[c].mark = marktbl'[h].mark
                           /\ ~conn'[c].pend /\ conn'[c].conf
                           /\ conn'[c].inbound = conn'[c].dnat
        BY <3>2
      <4>1. h \in Bound /\ conn[c].mark = marktbl[h].mark
        BY <3>1 DEF HostSettled
      <4>2. CASE c = cpu
        BY <1>2, <1>3, <3>1, <3>4, <3>5, <4>1, <4>2
      <4>3. CASE c # cpu
        <5>1. c \in Conns /\ conn'[c] = conn[c]
          BY <1>3, <4>3 DEF Marked, Live
        <5>2. ~conn[c].pend /\ conn[c].conf /\ conn[c].inbound = conn[c].dnat
          BY <3>1, <4>3 DEF HostSettled
        <5>. QED  BY <3>5, <4>1, <5>1, <5>2
      <4>. QED  BY <4>2, <4>3
    <3>7. h \in Bound => marktbl'[h].count = Cardinality(CountedConns(h)')
      <4>. SUFFICES ASSUME h \in Bound
                    PROVE  marktbl'[h].count = Cardinality(CountedConns(h)')
        OBVIOUS
      <4>1. marktbl[h].count = Cardinality(CountedConns(h))
        BY <3>1 DEF HostSettled
      <4>2. CASE r.pend /\ Noted(r)
        <5>1. r.mark # 0
          BY <4>2 DEF Noted
        <5>2. CountedConns(h)' = CountedConns(h) \union {cpu}
          BY <1>2, <1>3, <3>2, <3>3, <5>1 DEF CountedConns, Marked, Live
        <5>3. cpu \notin CountedConns(h)
          BY <4>2 DEF CountedConns
        <5>4. Cardinality(CountedConns(h) \union {cpu}) = Cardinality(CountedConns(h)) + 1
          BY <5>3, CountedFinite, FS_AddElement
        <5>. QED  BY <3>5, <4>1, <4>2, <5>2, <5>4
      <4>3. CASE ~(r.pend /\ Noted(r))
        <5>1. cpu \in Marked(h) => ~r.pend
          BY <3>3, <3>4, <4>3 DEF Marked
        <5>2. CountedConns(h)' = CountedConns(h)
          BY <1>2, <1>3, <3>2, <5>1 DEF CountedConns, Marked, Live
        <5>. QED  BY <3>5, <4>1, <4>3, <5>2
      <4>. QED  BY <4>2, <4>3
    <3>. QED  BY <3>5, <3>6, <3>7 DEF HostSettled
  <2>. QED  BY <1>0, <2>1, <2>2, <2>3, AstrayOrEmpty
<1>. QED  BY <1>1, <1>2, <1>3, <1>6 DEF Settled

\* A packet dropped behind the chain takes an unconfirmed connection with it,
\* which nobody has counted; a confirmed one whose event is outstanding leaves
\* its host astray.
LEMMA DroppedKeeps ==
    ASSUME ConnInv, TypeOK', Drop
    PROVE  /\ conn' \in [Conns -> Connections \union {NoConn}]
           /\ cpu \in Conns
           /\ cpu \in Live' => conn'[cpu].conf
           /\ \A d \in Conns \ {cpu} : conn'[d] = conn[d]
           /\ Settled'
<1>. DEFINE r == conn[cpu]
            r2 == IF r.conf THEN r ELSE NoConn
            s == {h \in IPs : h = r.host /\ r.conf /\ r.pend}
<1>0. /\ ConnTypeOK /\ TypeOK /\ Settled
      /\ cpu # Idle /\ cpu' = Idle /\ Astray(s)
      /\ conn' = [conn EXCEPT ![cpu] = r2]
      /\ marktbl' = marktbl
  <2>1. conn' = [conn EXCEPT ![cpu] = r2]
    BY DEF Drop, ConnInv, ConnTypeOK
  <2>. QED  BY <2>1 DEF ConnInv, TypeInv, Drop, table, vars
<1>1. cpu \in Conns /\ cpu \in Live /\ r \in Connections
  BY <1>0 DEF ConnTypeOK, Live
<1>2. r2 \in Connections \union {NoConn} /\ (r2 # NoConn => r2 = r /\ r.conf)
  BY <1>1
<1>3. /\ conn' \in [Conns -> Connections \union {NoConn}]
      /\ conn'[cpu] = r2
      /\ \A d \in Conns \ {cpu} : conn'[d] = conn[d]
  BY <1>0, <1>1, <1>2, ConnTyped
<1>4. ASSUME NEW h \in IPs \ astray' PROVE HostSettled(h)'
  <2>1. CASE h \notin Bound' /\ Marked(h)' = {}
    BY <2>1 DEF HostSettled
  <2>2. CASE h \notin astray /\ h \notin s
    <3>1. HostSettled(h)
      BY <1>0, <2>2 DEF Settled
    <3>2. CASE r.conf \/ cpu \notin Marked(h)
      <4>1. conn'[cpu] = conn[cpu] \/ (cpu \notin Marked(h) /\ cpu \notin Marked(h)')
        BY <1>3, <3>2 DEF Marked, Live
      <4>2. cpu \in Marked(h) => ~conn[cpu].pend
        BY <2>2, <3>2 DEF Marked
      <4>3. \A c \in Marked(h) : ~conn[c].pend
        BY <3>1, <4>2 DEF HostSettled
      <4>. QED  BY <1>0, <1>1, <1>3, <3>1, <4>1, <4>3, HostKept
    <3>3. CASE ~r.conf /\ cpu \in Marked(h)
      <4>1. r.pend
        BY <3>1, <3>3 DEF HostSettled
      <4>2. Marked(h)' = Marked(h) \ {cpu}
        BY <1>3, <3>3 DEF Marked, Live
      <4>3. CountedConns(h)' = CountedConns(h)
        BY <1>3, <4>1, <4>2 DEF CountedConns, Marked, Live
      <4>4. \A c \in Marked(h)' : c \in Marked(h) /\ conn'[c] = conn[c] /\ ~conn[c].pend
        BY <1>3, <3>1, <4>2 DEF HostSettled, Marked, Live
      <4>5. Bound' = Bound
        BY <1>0 DEF Bound
      <4>. QED  BY <1>0, <3>1, <4>3, <4>4, <4>5 DEF HostSettled
    <3>. QED  BY <3>2, <3>3
  <2>. QED  BY <1>0, <2>1, <2>2, AstrayOrEmpty
<1>. QED  BY <1>1, <1>2, <1>3, <1>4 DEF Settled, Live

\* The end of a connection takes one off the count of its host's node, and the
\* node goes with the last counted connection, when no marked one is left.
LEMMA DestroyKeeps ==
    ASSUME ConnInv, TypeOK', NEW c \in Conns, Destroy(c)
    PROVE  /\ conn' = [conn EXCEPT ![c] = NoConn]
           /\ Settled'
           /\ \A h \in IPs \ astray :
                Marked(h) # {} /\ Marked(h)' = {} => h \notin Bound'
<1>. DEFINE r == conn[c]
<1>0. /\ ConnTypeOK /\ TypeOK /\ Settled
      /\ cpu = Idle /\ cpu' = Idle /\ Astray({}) /\ c \in Live
      /\ conn' = [conn EXCEPT ![c] = NoConn]
  BY DEF ConnInv, TypeInv, Destroy
<1>1. r \in Connections
  BY <1>0 DEF ConnTypeOK, Live
<1>2. /\ conn' \in [Conns -> Connections \union {NoConn}]
      /\ conn'[c] = NoConn
      /\ \A d \in Conns \ {c} : conn'[d] = conn[d]
  BY <1>0, ConnTyped
<1>3. /\ ~Noted(r) => marktbl' = marktbl
      /\ Noted(r) => marktbl' = IF marktbl[r.host].count - 1 > 0
                                THEN [marktbl EXCEPT ![r.host].count = @ - 1]
                                ELSE [marktbl EXCEPT ![r.host] = NoEntry]
  BY <1>1, EventAddrOfHost, DestroyEffect DEF Destroy, table, vars
<1>4. ASSUME NEW h \in IPs \ astray
      PROVE  /\ HostSettled(h)'
             /\ Marked(h) # {} /\ Marked(h)' = {} => h \notin Bound'
  <2>1. /\ HostSettled(h)
        /\ \A d \in Marked(h) : ~conn[d].pend
    BY <1>0, ConnsAssumption DEF Settled, HostSettled, Marked, Live
  <2>2. CASE c \notin Marked(h)
    <3>1. c \notin Marked(h)'
      BY <1>2 DEF Marked, Live
    <3>2. Marked(h)' = Marked(h)
      BY <1>2, <2>2, <3>1 DEF Marked, Live
    <3>3. marktbl'[h] = marktbl[h]
      <4>1. Noted(r) => h # r.host
        BY <1>0, <1>1, <2>2, EventAddrOfHost DEF Marked
      <4>. QED  BY <1>0, <1>1, <1>3, <4>1 DEF TypeOK, Connections
    <3>. QED  BY <1>0, <1>2, <2>1, <2>2, <3>1, <3>2, <3>3, HostKept
  <2>3. CASE c \in Marked(h)
    <3>1. /\ h \in Bound /\ r.host = h /\ r.mark # 0 /\ r.inbound = r.dnat
          /\ marktbl[h].count = Cardinality(CountedConns(h))
      BY <2>1, <2>3 DEF HostSettled, Marked
    <3>2. Noted(r)
      BY <1>1, <3>1, CountedIsNoted
    <3>3. Marked(h)' = Marked(h) \ {c}
      BY <1>2, <2>3 DEF Marked, Live
    <3>4. /\ CountedConns(h) = Marked(h)
          /\ CountedConns(h)' = CountedConns(h) \ {c}
      <4>1. CountedConns(h) = Marked(h)
        BY <2>1 DEF CountedConns
      <4>2. \A d \in Marked(h)' : ~conn'[d].pend
        BY <1>2, <2>1, <3>3 DEF Marked, Live
      <4>3. CountedConns(h)' = Marked(h)'
        BY <4>2 DEF CountedConns
      <4>. QED  BY <3>3, <4>1, <4>3
    <3>5. /\ Cardinality(CountedConns(h)') = Cardinality(CountedConns(h)) - 1
          /\ Cardinality(CountedConns(h)') \in Nat
      <4>1. IsFiniteSet(CountedConns(h) \ {c})
        BY CountedFinite, FS_Subset
      <4>. QED  BY <2>3, <3>4, <4>1, CountedFinite, FS_RemoveElement, FS_CardinalityType
    <3>6. CASE marktbl[h].count - 1 > 0
      <4>1. marktbl' = [marktbl EXCEPT ![h].count = @ - 1]
        BY <1>3, <3>1, <3>2, <3>6
      <4>2. /\ Bound' = Bound
            /\ marktbl'[h].mark = marktbl[h].mark
            /\ marktbl'[h].count = marktbl[h].count - 1
        BY <1>0, <4>1, CountedDown
      <4>3. \A d \in Marked(h)' : d \in Marked(h) /\ conn'[d] = conn[d] /\ ~conn[d].pend
        BY <1>2, <2>1, <3>3 DEF Marked, Live
      <4>4. HostSettled(h)'
        BY <2>1, <3>1, <3>5, <4>2, <4>3 DEF HostSettled
      <4>5. Marked(h)' # {}
        <5>1. Cardinality(CountedConns(h)') # 0
          BY <3>1, <3>5, <3>6
        <5>2. CountedConns(h)' # {}
          BY <5>1, FS_EmptySet
        <5>. QED  BY <3>3, <3>4, <5>2
      <4>. QED  BY <4>4, <4>5
    <3>7. CASE ~(marktbl[h].count - 1 > 0)
      <4>1. marktbl' = [marktbl EXCEPT ![h] = NoEntry]
        BY <1>3, <3>1, <3>2, <3>7
      <4>2. h \notin Bound'
        BY <1>0, <4>1 DEF Bound, NoEntry, TypeOK
      <4>3. Cardinality(CountedConns(h)') = 0
        BY <3>1, <3>5, <3>7, CountedFinite
      <4>4. CountedConns(h)' = {}
        <5>1. IsFiniteSet(CountedConns(h)')
          BY <3>4, CountedFinite, FS_Subset
        <5>. QED  BY <4>3, <5>1, FS_EmptySet
      <4>5. Marked(h)' = {}
        BY <3>3, <3>4, <4>4
      <4>. QED  BY <4>2, <4>5 DEF HostSettled
    <3>. QED  BY <3>6, <3>7
  <2>. QED  BY <2>2, <2>3
<1>5. ASSUME NEW h \in IPs \ astray' PROVE HostSettled(h)'
  <2>1. CASE h \notin Bound' /\ Marked(h)' = {}
    BY <2>1 DEF HostSettled
  <2>. QED  BY <1>0, <1>4, <2>1, AstrayOrEmpty
<1>. QED  BY <1>0, <1>4, <1>5 DEF Settled

\* A command changes no connection; the hosts it unbinds under their marked
\* connections go astray.
LEMMA CommandKeeps ==
    ASSUME ConnInv, TypeOK', Command
    PROVE  UNCHANGED <<conn, cpu>> /\ Settled'
<1>0. /\ ConnTypeOK /\ TypeOK /\ Settled /\ UNCHANGED <<conn, cpu>>
      /\ Astray({h \in Bound \ Bound' : Marked(h) # {}})
  BY DEF ConnInv, TypeInv, Command
<1>1. marktbl' = marktbl \/ marktbl' = [ip \in IPs |-> NoEntry]
  BY DEF Command, qmark_add_rule, qmark_del_rule, ResetBegin, ResetFlush,
         ResetEnd, qmark_set_spec
<1>2. \A h : Marked(h)' = Marked(h) /\ CountedConns(h)' = CountedConns(h)
  BY <1>0 DEF Marked, Live, CountedConns
<1>3. ASSUME NEW h \in IPs \ astray' PROVE HostSettled(h)'
  <2>1. CASE h \notin Bound' /\ Marked(h)' = {}
    BY <2>1 DEF HostSettled
  <2>2. CASE /\ h \notin astray
             /\ h \notin {k \in Bound \ Bound' : Marked(k) # {}}
    <3>1. HostSettled(h)
      BY <1>0, <2>2 DEF Settled
    <3>2. CASE marktbl' = marktbl
      <4>1. Bound' = Bound
        BY <3>2 DEF Bound
      <4>. QED  BY <1>0, <1>2, <3>1, <3>2, <4>1 DEF HostSettled
    <3>3. CASE marktbl' = [ip \in IPs |-> NoEntry]
      <4>1. h \notin Bound'
        BY <3>3 DEF Bound, NoEntry
      <4>2. Marked(h) = {}
        BY <2>2, <3>1, <4>1 DEF HostSettled
      <4>. QED  BY <1>2, <4>1, <4>2 DEF HostSettled
    <3>. QED  BY <1>1, <3>2, <3>3
  <2>. QED  BY <1>0, <2>1, <2>2, AstrayOrEmpty
<1>. QED  BY <1>0, <1>3 DEF Settled

LEMMA ConnInvInit == ConnInit => ConnInv
<1>. SUFFICES ASSUME ConnInit PROVE ConnInv
  OBVIOUS
<1>1. TypeInv /\ NoPanic
  BY TypeInit DEF ConnInit, Init, NoPanic
<1>2. Bound = {} /\ Live = {}
  BY DEF ConnInit, Init, Bound, NoEntry, Live
<1>3. ConnTypeOK
  BY <1>1, <1>2 DEF ConnInit, ConnTypeOK, TypeInv
<1>4. Settled
  BY <1>2 DEF Settled, HostSettled, Marked
<1>. QED  BY <1>1, <1>3, <1>4 DEF ConnInv

\* Every step of a packet, an event or a command preserves the invariant.
LEMMA ConnInvStep == ConnInv /\ [ConnNext]_connVars => ConnInv'
<1>. SUFFICES ASSUME ConnInv, [ConnNext]_connVars PROVE ConnInv'
  OBVIOUS
<1>0. ConnTypeOK /\ TypeInv /\ NoPanic /\ Settled
  BY DEF ConnInv
<1>1. TypeInv' /\ NoPanic' /\ TypeOK'
  BY <1>0, ConnStepIsTableStep, TypeStep DEF TypeInv
<1>2. ASSUME NEW s, Astray(s), s \subseteq IPs PROVE astray' \subseteq IPs
  BY <1>0, <1>2 DEF Astray, ConnTypeOK
<1>3. ASSUME NEW c \in Conns, Forward(c) PROVE ConnInv'
  <2>1. /\ conn' \in [Conns -> Connections \union {NoConn}]
        /\ c \in Live'
        /\ \A d \in Conns \ {c} : conn'[d] = conn[d]
        /\ Settled'
    BY <1>1, <1>3, ForwardKeeps
  <2>2. cpu = Idle /\ cpu' = c /\ astray' \subseteq IPs
    BY <1>2, <1>3 DEF Forward
  <2>3. \A d \in Live' : ~conn'[d].conf => cpu' = d
    BY <1>0, <2>1, <2>2, ConnsAssumption DEF ConnTypeOK, Live
  <2>. QED  BY <1>1, <2>1, <2>2, <2>3 DEF ConnInv, ConnTypeOK
<1>4. ASSUME NEW c \in Conns, Destroy(c) PROVE ConnInv'
  <2>1. conn' = [conn EXCEPT ![c] = NoConn] /\ Settled'
    BY <1>1, <1>4, DestroyKeeps
  <2>2. /\ conn' \in [Conns -> Connections \union {NoConn}]
        /\ conn'[c] = NoConn
        /\ \A d \in Conns \ {c} : conn'[d] = conn[d]
    BY <1>0, <2>1, ConnTyped
  <2>3. cpu = Idle /\ cpu' = Idle /\ astray' \subseteq IPs
    BY <1>2, <1>4 DEF Destroy
  <2>4. \A d \in Live' : ~conn'[d].conf => cpu' = d
    BY <1>0, <2>2, <2>3 DEF ConnTypeOK, Live
  <2>. QED  BY <1>1, <2>1, <2>2, <2>3, <2>4 DEF ConnInv, ConnTypeOK
<1>5. CASE Confirm
  <2>1. /\ conn' \in [Conns -> Connections \union {NoConn}]
        /\ conn'[cpu].conf
        /\ \A d \in Conns \ {cpu} : conn'[d] = conn[d]
        /\ Settled'
    BY <1>1, <1>5, ConfirmKeeps
  <2>2. cpu' = Idle /\ astray' \subseteq IPs
    BY <1>2, <1>5 DEF Confirm
  <2>3. \A d \in Live' : conn'[d].conf
    BY <1>0, <2>1 DEF ConnTypeOK, Live
  <2>. QED  BY <1>1, <2>1, <2>2, <2>3 DEF ConnInv, ConnTypeOK
<1>6. CASE Drop
  <2>1. /\ conn' \in [Conns -> Connections \union {NoConn}]
        /\ cpu \in Live' => conn'[cpu].conf
        /\ \A d \in Conns \ {cpu} : conn'[d] = conn[d]
        /\ Settled'
    BY <1>1, <1>6, DroppedKeeps
  <2>2. cpu' = Idle /\ astray' \subseteq IPs
    BY <1>2, <1>6 DEF Drop
  <2>3. \A d \in Live' : conn'[d].conf
    BY <1>0, <2>1 DEF ConnTypeOK, Live
  <2>. QED  BY <1>1, <2>1, <2>2, <2>3 DEF ConnInv, ConnTypeOK
<1>7. CASE Command
  <2>1. UNCHANGED <<conn, cpu>> /\ Settled'
    BY <1>1, <1>7, CommandKeeps
  <2>2. astray' \subseteq IPs
    <3>1. Bound \subseteq IPs
      BY DEF Bound
    <3>2. Astray({h \in Bound \ Bound' : Marked(h) # {}})
      BY <1>7 DEF Command
    <3>. QED  BY <1>0, <3>1, <3>2 DEF Astray, ConnTypeOK
  <2>. QED  BY <1>0, <1>1, <2>1, <2>2 DEF ConnInv, ConnTypeOK, Live
<1>8. CASE UNCHANGED connVars
  <2>1. UNCHANGED <<marktbl, conn, cpu, astray>>
    BY <1>8 DEF connVars, table, vars
  <2>2. \A h : Marked(h)' = Marked(h) /\ CountedConns(h)' = CountedConns(h)
    BY <2>1 DEF Marked, Live, CountedConns
  <2>3. Settled'
    BY <1>0, <2>1, <2>2 DEF Settled, HostSettled, Bound
  <2>. QED  BY <1>0, <1>1, <2>1, <2>3 DEF ConnInv, ConnTypeOK, Live
<1>. QED  BY <1>3, <1>4, <1>5, <1>6, <1>7, <1>8 DEF ConnNext

-----------------------------------------------------------------------------
(* The theorems.                                                           *)

\* The invariant holds throughout.
THEOREM ConnInvariantHolds == ConnSpec => []ConnInv
BY ConnInvInit, ConnInvStep, PTL DEF ConnSpec

\* The connections keep their types; only the packet in flight can belong to
\* an unconfirmed one.
THEOREM ConnTypeCorrect == ConnSpec => []ConnTypeOK
<1>1. ConnInv => ConnTypeOK
  BY DEF ConnInv
<1>. QED  BY ConnInvariantHolds, <1>1, PTL

\* However packets, events, drops and commands interleave, the mark a
\* connection carries is its host's as long as the connection lives: the node
\* is not unbound, nor its mark freed, under a connection it counts.
THEOREM MarkedAsBoundHolds == ConnSpec => []MarkedAsBound
<1>1. ConnInv => MarkedAsBound
  BY DEF ConnInv, Settled, HostSettled, MarkedAsBound
<1>. QED  BY ConnInvariantHolds, <1>1, PTL

\* qmark_conntrack_event counts exactly: the count of a node is the number of
\* its host's marked connections whose event was delivered.
THEOREM CountExactHolds == ConnSpec => []CountExact
<1>1. ConnInv => CountExact
  <2>. SUFFICES ASSUME ConnInv, NEW h \in Bound \ astray
                PROVE  marktbl[h].count = Cardinality({c \in Marked(h) : ~conn[c].pend})
    BY DEF CountExact
  <2>1. HostSettled(h)
    BY DEF ConnInv, Settled, Bound
  <2>. QED  BY <2>1 DEF HostSettled, CountedConns
<1>. QED  BY ConnInvariantHolds, <1>1, PTL

\* The end of a host's last marked connection unbinds the host.
THEOREM LastOneUnbindsHolds == ConnSpec => LastOneUnbinds
<1>. DEFINE A == \A h \in IPs \ astray :
                    cpu = Idle /\ Marked(h) # {} /\ Marked(h)' = {}
                        => h \notin Bound'
<1>1. ConnInv /\ ConnInv' /\ [ConnNext]_connVars => [A]_connVars
  <2>. SUFFICES ASSUME ConnInv, ConnInv', ConnNext, cpu = Idle,
                       NEW h \in IPs \ astray, Marked(h) # {}, Marked(h)' = {}
                PROVE  h \notin Bound'
    OBVIOUS
  <2>0. ConnTypeOK /\ TypeOK' /\ Settled'
    BY DEF ConnInv, TypeInv
  <2>1. ASSUME NEW c \in Conns, Forward(c) PROVE FALSE
    <3>1. PICK r \in Candidates(c) : ForwardLeaves(c, r)
      BY <2>1, ForwardOutcome
    <3>2. PICK d \in Marked(h) : TRUE
      OBVIOUS
    <3>3. \A k \in Conns \ {c} : conn'[k] = conn[k]
      BY <2>0, <2>1, ForwardKeeps
    <3>4. d = c
      BY <3>2, <3>3 DEF Marked, Live
    <3>5. r = conn[c] /\ r.mark # 0 /\ c \in Conns
      BY <3>2, <3>4, CandidateType, <2>0 DEF Marked
    <3>6. conn' = [conn EXCEPT ![c] = conn[c]]
      BY <3>1, <3>5 DEF ForwardLeaves
    <3>7. conn'[c] = conn[c]
      BY <2>0, <3>6 DEF ConnTypeOK
    <3>. QED  BY <3>2, <3>4, <3>7 DEF Marked, Live
  <2>2. ASSUME NEW c \in Conns, Destroy(c) PROVE h \notin Bound'
    BY <2>0, <2>2, DestroyKeeps
  <2>3. CASE Command
    BY <2>0, <2>3, CommandKeeps DEF Marked, Live
  <2>4. ~Confirm /\ ~Drop
    BY DEF Confirm, Drop
  <2>. QED  BY <2>1, <2>2, <2>3, <2>4 DEF ConnNext
<1>. QED  BY ConnInvariantHolds, <1>1, PTL DEF ConnSpec, LastOneUnbinds

\* The composition is one of the table's behaviours: every theorem of the
\* table holds of it, with packets that carry connection marks.
THEOREM ConnImplementsTable == ConnSpec => Spec
<1>1. ConnInit => Init
  BY DEF ConnInit
<1>2. ConnInv /\ [ConnNext]_connVars => [Next]_vars
  BY ConnStepIsTableStep DEF ConnInv
<1>. QED  BY ConnInvariantHolds, <1>1, <1>2, PTL DEF ConnSpec, Spec

\* End to end: packets of two hosts are shaped together exactly when one
\* shared rule bound both, also by the marks that connections restore; from
\* Isolation of the table and MarkedAsBound.
THEOREM ConnIsolationHolds == ConnSpec => []ConnIsolation
<1>1. Isolation /\ MarkedAsBound => ConnIsolation
  BY DEF Isolation, MarkedAsBound, ConnIsolation
<1>. QED  BY ConnImplementsTable, IsolationHolds, MarkedAsBoundHolds, <1>1, PTL

=============================================================================
