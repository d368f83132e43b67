-------------------------- MODULE QMarkTableProofs --------------------------
(***************************************************************************)
(* Theorems about QMarkTable, for every set of addresses, number of rules  *)
(* and size of the table.                                                  *)
(***************************************************************************)
EXTENDS QMarkTable, FiniteSetTheorems, TLAPS

-----------------------------------------------------------------------------
(* Facts about the helpers.                                                *)

\* alloc_mark returns offsets of the pool whose bit is clear.
LEMMA AllocMarkFree ==
    ASSUME NEW m \in alloc_mark
    PROVE  m \in 1..max_ip_cnt /\ m \notin mark_bitmap
BY DEF alloc_mark

\* Whatever bit free_mark clears, it sets none.
LEMMA FreeMarkShrinks ==
    ASSUME NEW m, NEW bm \in free_mark(m)
    PROVE  bm \subseteq mark_bitmap
BY DEF free_mark

\* The mark a packet is given is 0 or an offset of the pool, and the bitmap it
\* leaves stays inside the pool.
LEMMA MarkForType ==
    ASSUME TypeOK, NEW id \in RuleIds, NEW m \in MarkFor(id)
    PROVE  /\ m \in 0..max_ip_cnt
           /\ BitmapWith(id, m) \subseteq 1..max_ip_cnt
           /\ RuleMarkWith(id, m) \in 0..max_ip_cnt
<1>1. max_ip_cnt \in Nat
  BY SpecAssumption DEF TypeOK
<1>2. CASE NeedsNewMark(id)
  <2>1. m \in 1..max_ip_cnt
    BY <1>2, AllocMarkFree DEF MarkFor
  <2>2. m \in 0..max_ip_cnt
    BY <1>1, <2>1
  <2>. QED  BY <1>2, <2>1, <2>2 DEF TypeOK, BitmapWith, RuleMarkWith
<1>3. CASE ~NeedsNewMark(id)
  BY <1>1, <1>3 DEF TypeOK, MarkFor, BitmapWith, RuleMarkWith
<1>. QED  BY <1>2, <1>3

-----------------------------------------------------------------------------
(* Type correctness.  elem_num - 1 is a natural number because elem_num    *)
(* counts the nodes, so the two are proved together.                       *)

ElemNumCounts == elem_num = Cardinality(Bound)

TypeInv == TypeOK /\ ElemNumCounts

\* Bound is finite, being a set of addresses.
LEMMA BoundFinite == IsFiniteSet(Bound) /\ Cardinality(Bound) \in Nat
BY FiniteAssumption, FS_Subset, FS_CardinalityType DEF Bound

\* Linking a node for a new address adds one to the number of nodes.
LEMMA BoundGrows ==
    ASSUME NEW ip \in IPs, NEW id \in RuleIds, NEW m, TypeOK,
           ip \notin Bound, HashInsert(ip, id, m)
    PROVE  /\ Bound' = Bound \union {ip}
           /\ Cardinality(Bound') = Cardinality(Bound) + 1
<1>1. Bound' = Bound \union {ip}
  BY DEF Bound, HashInsert, TypeOK, RuleIds
<1>. QED  BY <1>1, BoundFinite, FS_AddElement

\* Unlinking one takes one off it.
LEMMA BoundShrinks ==
    ASSUME NEW ip \in Bound, TypeOK,
           marktbl' = [marktbl EXCEPT ![ip] = NoEntry]
    PROVE  /\ Bound' = Bound \ {ip}
           /\ Cardinality(Bound') = Cardinality(Bound) - 1
           /\ Cardinality(Bound) \in Nat \ {0}
<1>1. Bound' = Bound \ {ip}
  BY DEF Bound, NoEntry, TypeOK
<1>2. Cardinality(Bound \ {ip}) = Cardinality(Bound) - 1
  BY BoundFinite, FS_RemoveElement
<1>3. Cardinality(Bound \ {ip}) \in Nat
  BY BoundFinite, FS_Subset, FS_CardinalityType
<1>. QED  BY <1>1, <1>2, <1>3, BoundFinite

LEMMA TypeInit == Init => TypeInv
<1>. SUFFICES ASSUME Init PROVE TypeInv
  OBVIOUS
<1>1. TypeOK
  <2>1. max_ip_cnt \in IpSpecs /\ 0 \in 0..max_ip_cnt
    BY SpecAssumption DEF Init
  <2>2. ZeroRule \in [mode : {PRIV_MODE, SHARE_MODE}, mark : 0..max_ip_cnt,
                     count : Int, par : Params \union {NoPar}]
    BY <2>1 DEF ZeroRule
  <2>3. NoCall \in [op : {"none", "add", "del"}, mark : Nat,
                   par : Params \union {NoPar}]
    BY DEF NoCall
  <2>. QED  BY <2>1, <2>2, <2>3 DEF Init, TypeOK
<1>2. Bound = {}
  BY DEF Init, Bound, NoEntry
<1>. QED  BY <1>1, <1>2, FS_EmptySet DEF TypeInv, ElemNumCounts, Init

\* One reference less, with either call to tc.
LEMMA TypePutEntry ==
    ASSUME TypeInv, NEW ip \in Bound, NEW call, PutEntry(ip, call),
           call \in [op : {"none", "add", "del"}, mark : Nat,
                     par : Params \union {NoPar}]
    PROVE  TypeInv'
<1>. DEFINE node == marktbl[ip]
<1>0. /\ ip \in IPs
      /\ node \in [id : RuleIds, mark : 0..max_ip_cnt, count : Nat]
      /\ NoCall \in [op : {"none", "add", "del"}, mark : Nat,
                     par : Params \union {NoPar}]
  BY DEF TypeInv, TypeOK, Bound, NoEntry, NoCall
<1>1. CASE node.count - 1 > 0
  <2>1. /\ marktbl' = [marktbl EXCEPT ![ip].count = @ - 1]
        /\ tcCall' = NoCall
        /\ UNCHANGED <<g_ruletbl, elem_num, mark_bitmap, max_ip_cnt, reset_flag,
                       resetting, panic, clean>>
    BY <1>1 DEF PutEntry
  <2>2. TypeOK'
    BY <1>0, <1>1, <2>1 DEF TypeInv, TypeOK
  <2>3. Bound' = Bound
    BY <1>0, <2>1 DEF Bound, TypeInv, TypeOK
  <2>. QED  BY <2>1, <2>2, <2>3 DEF TypeInv, ElemNumCounts
<1>2. CASE ~(node.count - 1 > 0)
  <2>1. /\ marktbl' = [marktbl EXCEPT ![ip] = NoEntry]
        /\ elem_num' = elem_num - 1
        /\ UNCHANGED <<max_ip_cnt, reset_flag, resetting, panic, clean>>
    BY <1>2 DEF PutEntry
  <2>2. TypeOK /\ ElemNumCounts
    BY DEF TypeInv
  <2>3. ElemNumCounts' /\ elem_num' \in Nat
    <3>1. /\ Cardinality(Bound') = Cardinality(Bound) - 1
          /\ Cardinality(Bound) \in Nat \ {0}
      BY <2>1, <2>2, BoundShrinks
    <3>. QED  BY <2>1, <2>2, <3>1 DEF ElemNumCounts
  <2>4. /\ mark_bitmap' \subseteq mark_bitmap
        /\ tcCall' \in {call, NoCall}
    BY <1>2, FreeMarkShrinks DEF PutEntry
  <2>5. g_ruletbl' \in [RuleIds -> [mode : {PRIV_MODE, SHARE_MODE},
                                    mark : 0..max_ip_cnt, count : Int,
                                    par : Params \union {NoPar}]]
    <3>1. 0 \in 0..max_ip_cnt
      BY SpecAssumption, <2>2 DEF TypeOK
    <3>2. CASE LastOfRule(node.id)
      BY <1>0, <1>2, <2>2, <3>1, <3>2 DEF PutEntry, TypeOK
    <3>3. CASE ~LastOfRule(node.id)
      BY <1>0, <1>2, <2>2, <3>3 DEF PutEntry, TypeOK
    <3>. QED  BY <3>2, <3>3
  <2>6. marktbl' \in [IPs -> [id : RuleIds, mark : 0..max_ip_cnt, count : Nat]
                             \union {NoEntry}]
    BY <2>1, <2>2 DEF TypeOK
  <2>7. TypeOK'
    BY <1>0, <2>1, <2>2, <2>3, <2>4, <2>5, <2>6 DEF TypeOK
  <2>. QED  BY <2>3, <2>7 DEF TypeInv
<1>. QED  BY <1>1, <1>2

\* A packet's IP is bound.
LEMMA TypeBind ==
    ASSUME TypeInv, NEW ip \in IPs, NEW id \in RuleIds,
           qmark_alloc_mark_auto(ip, id)
    PROVE  TypeInv'
<1>1. TypeOK /\ elem_num = Cardinality(Bound) /\ ip \notin Bound
  BY DEF TypeInv, ElemNumCounts, qmark_alloc_mark_auto
<1>2. PICK m \in MarkFor(id) :
        /\ mark_bitmap' = BitmapWith(id, m)
        /\ HashInsert(ip, id, m)
        /\ g_ruletbl' = [g_ruletbl EXCEPT ![id].mark = RuleMarkWith(id, m),
                                          ![id].count = @ + 1]
        /\ elem_num' = elem_num + 1
        /\ tcCall' = TcAdd(id, m)
        /\ UNCHANGED <<max_ip_cnt, reset_flag, resetting, panic, clean>>
  BY DEF qmark_alloc_mark_auto
<1>3. /\ m \in 0..max_ip_cnt
      /\ BitmapWith(id, m) \subseteq 1..max_ip_cnt
      /\ RuleMarkWith(id, m) \in 0..max_ip_cnt
  BY <1>1, MarkForType
<1>4. Cardinality(Bound') = Cardinality(Bound) + 1
  BY <1>1, <1>2, BoundGrows
<1>5. g_ruletbl' \in [RuleIds -> [mode : {PRIV_MODE, SHARE_MODE},
                                  mark : 0..max_ip_cnt, count : Int,
                                  par : Params \union {NoPar}]]
  BY <1>1, <1>2, <1>3 DEF TypeOK
<1>6. marktbl' \in [IPs -> [id : RuleIds, mark : 0..max_ip_cnt, count : Nat]
                           \union {NoEntry}]
  BY <1>1, <1>2, <1>3 DEF TypeOK, HashInsert
<1>7. tcCall' \in [op : {"none", "add", "del"}, mark : Nat,
                   par : Params \union {NoPar}]
  BY <1>1, <1>2, <1>3 DEF TypeOK, TcAdd
<1>8. elem_num' \in Nat
  BY <1>1, <1>2 DEF TypeOK
<1>9. TypeOK'
  BY <1>1, <1>2, <1>3, <1>5, <1>6, <1>7, <1>8 DEF TypeOK
<1>. QED  BY <1>1, <1>2, <1>4, <1>9 DEF TypeInv, ElemNumCounts

\* Commands that empty the hash table.
LEMMA TypeEmptied ==
    ASSUME TypeInv, marktbl' = [ip \in IPs |-> NoEntry], elem_num' = 0
    PROVE  ElemNumCounts' /\ elem_num' \in Nat /\ Bound' = {}
<1>1. Bound' = {}
  BY DEF Bound, NoEntry
<1>. QED  BY <1>1, FS_EmptySet DEF ElemNumCounts

\* Every step preserves the types, action by action.
LEMMA TypeStep == TypeInv /\ [Next]_vars => TypeInv'
<1>. DEFINE Calls == [op : {"none", "add", "del"}, mark : Nat,
                      par : Params \union {NoPar}]
            Rules == [mode : {PRIV_MODE, SHARE_MODE}, mark : 0..max_ip_cnt,
                      count : Int, par : Params \union {NoPar}]
<1>. SUFFICES ASSUME TypeInv, [Next]_vars PROVE TypeInv'
  OBVIOUS
<1>1. TypeOK /\ ElemNumCounts
  BY DEF TypeInv
<1>2. /\ max_ip_cnt \in Nat \ {0}
      /\ 0 \in 0..max_ip_cnt
      /\ NoCall \in Calls
  BY <1>1, SpecAssumption DEF TypeOK, NoCall
<1>3. ZeroRule \in Rules
  BY <1>2 DEF ZeroRule
<1>4. ASSUME NEW ip \in IPs, NEW id \in RuleIds, qmark_alloc_mark_auto(ip, id)
      PROVE  TypeInv'
  BY <1>4, TypeBind
<1>5. ASSUME NEW ip \in IPs, NEW id \in RuleIds, AllocMarkAutoFails(ip, id)
      PROVE  TypeInv'
  <2>1. g_ruletbl' \in [RuleIds -> Rules]
    <3>1. CASE NeedsNewMark(id)
      BY <1>1, <1>2, <1>5, <3>1 DEF TypeOK, AllocMarkAutoFails
    <3>2. CASE ~NeedsNewMark(id)
      BY <1>1, <1>5, <3>2 DEF TypeOK, AllocMarkAutoFails
    <3>. QED  BY <3>1, <3>2
  <2>2. /\ tcCall' = NoCall
        /\ UNCHANGED <<marktbl, elem_num, mark_bitmap, max_ip_cnt, reset_flag,
                       resetting, panic, clean>>
    BY <1>5 DEF AllocMarkAutoFails
  <2>. QED  BY <1>1, <1>2, <2>1, <2>2 DEF TypeInv, TypeOK, ElemNumCounts, Bound
<1>6. ASSUME NEW ip \in IPs, NEW id \in RuleIds, AllocMarkAutoOops(ip, id)
      PROVE  TypeInv'
  <2>1. PICK m \in MarkFor(id) :
          /\ mark_bitmap' = BitmapWith(id, m)
          /\ g_ruletbl' = [g_ruletbl EXCEPT ![id].mark = RuleMarkWith(id, m)]
          /\ panic' = TRUE
          /\ tcCall' = NoCall
          /\ UNCHANGED <<marktbl, elem_num, max_ip_cnt, reset_flag, resetting,
                         clean>>
    BY <1>6 DEF AllocMarkAutoOops
  <2>2. mark_bitmap' \subseteq 1..max_ip_cnt /\ g_ruletbl' \in [RuleIds -> Rules]
    BY <1>1, <2>1, MarkForType DEF TypeOK
  <2>. QED  BY <1>1, <1>2, <2>1, <2>2 DEF TypeInv, TypeOK, ElemNumCounts, Bound
<1>7. ASSUME NEW ip \in IPs, ConntrackMark(ip)
      PROVE  TypeInv'
  <2>1. /\ ip \in Bound
        /\ marktbl' = [marktbl EXCEPT ![ip].count = @ + 1]
        /\ tcCall' = NoCall
        /\ UNCHANGED <<g_ruletbl, elem_num, mark_bitmap, max_ip_cnt,
                       reset_flag, resetting, panic, clean>>
    BY <1>7 DEF ConntrackMark
  <2>2. marktbl[ip] \in [id : RuleIds, mark : 0..max_ip_cnt, count : Nat]
    BY <1>1, <2>1 DEF TypeOK, Bound, NoEntry
  <2>3. TypeOK'
    BY <1>1, <1>2, <2>1, <2>2 DEF TypeOK
  <2>4. Bound' = Bound
    BY <1>1, <2>1, <2>2 DEF Bound, TypeOK
  <2>. QED  BY <1>1, <2>1, <2>3, <2>4 DEF TypeInv, ElemNumCounts
<1>8. ASSUME NEW ip \in IPs, ConntrackDestroy(ip)
      PROVE  TypeInv'
  <2>1. ip \in Bound /\ PutEntry(ip, TcDel(marktbl[ip].id, marktbl[ip].mark))
    BY <1>8 DEF ConntrackDestroy
  <2>2. TcDel(marktbl[ip].id, marktbl[ip].mark) \in Calls
    BY <1>1, <2>1 DEF TcDel, TypeOK, Bound, NoEntry
  <2>. QED  BY <2>1, <2>2, TypePutEntry
<1>9. ASSUME NEW id \in RuleIds, NEW mode \in {PRIV_MODE, SHARE_MODE},
             NEW par \in Params, qmark_add_rule(id, mode, par)
      PROVE  TypeInv'
  <2>1. g_ruletbl' \in [RuleIds -> Rules]
    BY <1>1, <1>9 DEF qmark_add_rule, TypeOK
  <2>2. clean' \in BOOLEAN
    BY <1>9 DEF qmark_add_rule
  <2>3. /\ tcCall' = NoCall
        /\ UNCHANGED <<marktbl, elem_num, mark_bitmap, max_ip_cnt, reset_flag,
                       resetting, panic>>
    BY <1>9 DEF qmark_add_rule
  <2>. QED  BY <1>1, <1>2, <2>1, <2>2, <2>3 DEF TypeInv, TypeOK, ElemNumCounts, Bound
<1>10. ASSUME NEW id \in RuleIds, qmark_del_rule(id)
       PROVE  TypeInv'
  BY <1>1, <1>2, <1>3, <1>10
     DEF qmark_del_rule, TypeInv, TypeOK, ElemNumCounts, Bound
<1>11. CASE qmark_flush_rule
  BY <1>1, <1>2, <1>3, <1>11
     DEF qmark_flush_rule, TypeInv, TypeOK, ElemNumCounts, Bound
<1>12. ASSUME NEW ip \in IPs, NEW id \in RuleIds, NEW m \in 0..max_ip_cnt,
              qmark_add_hash(ip, id, m)
       PROVE  TypeInv'
  <2>1. CASE ip \in Bound
    BY <1>1, <1>2, <1>12, <2>1
       DEF qmark_add_hash, TypeInv, TypeOK, ElemNumCounts, Bound
  <2>2. CASE ip \notin Bound
    <3>1. /\ HashInsert(ip, id, m)
          /\ g_ruletbl' = [g_ruletbl EXCEPT ![id].count = @ + 1]
          /\ elem_num' = elem_num + 1
          /\ clean' = FALSE
          /\ tcCall' = NoCall
          /\ UNCHANGED <<mark_bitmap, max_ip_cnt, reset_flag, resetting, panic>>
      BY <1>12, <2>2 DEF qmark_add_hash
    <3>2. Cardinality(Bound') = Cardinality(Bound) + 1
      BY <1>1, <2>2, <3>1, BoundGrows
    <3>3. marktbl' \in [IPs -> [id : RuleIds, mark : 0..max_ip_cnt, count : Nat]
                               \union {NoEntry}]
      BY <1>1, <3>1 DEF TypeOK, HashInsert
    <3>4. g_ruletbl' \in [RuleIds -> Rules] /\ elem_num' \in Nat
      BY <1>1, <3>1 DEF TypeOK
    <3>5. TypeOK'
      BY <1>1, <1>2, <3>1, <3>3, <3>4 DEF TypeOK
    <3>. QED  BY <1>1, <3>1, <3>2, <3>5 DEF TypeInv, ElemNumCounts
  <2>. QED  BY <2>1, <2>2
<1>13. ASSUME NEW ip \in IPs, qmark_del_hash(ip)
       PROVE  TypeInv'
  BY <1>2, <1>13, TypePutEntry DEF qmark_del_hash
<1>14. CASE qmark_flush_hash
  <2>1. ElemNumCounts' /\ elem_num' \in Nat
    BY <1>14, TypeEmptied DEF qmark_flush_hash
  <2>. QED  BY <1>1, <1>2, <1>14, <2>1 DEF qmark_flush_hash, TypeInv, TypeOK
<1>15. ASSUME BitmapCommand, mark_bitmap' \subseteq 1..max_ip_cnt
       PROVE  TypeInv'
  BY <1>1, <1>2, <1>15 DEF BitmapCommand, TypeInv, TypeOK, ElemNumCounts, Bound
<1>16. CASE qmark_alloc_mark
  BY <1>1, <1>15, <1>16, AllocMarkFree DEF qmark_alloc_mark, TypeOK
<1>17. ASSUME NEW m \in 0..max_ip_cnt, qmark_free_mark(m)
       PROVE  TypeInv'
  BY <1>1, <1>15, <1>17, FreeMarkShrinks DEF qmark_free_mark, TypeOK
<1>18. CASE qmark_flush_mark
  BY <1>15, <1>18 DEF qmark_flush_mark
<1>19. ASSUME NEW ip_spec \in IpSpecs, qmark_set_spec(ip_spec)
       PROVE  TypeInv'
  <2>1. ElemNumCounts' /\ elem_num' \in Nat
    BY <1>19, TypeEmptied DEF qmark_set_spec
  <2>2. 0 \in 0..ip_spec
    BY SpecAssumption
  <2>3. ZeroRule \in [mode : {PRIV_MODE, SHARE_MODE}, mark : 0..ip_spec,
                     count : Int, par : Params \union {NoPar}]
    BY <2>2 DEF ZeroRule
  <2>. QED  BY <1>1, <1>2, <1>19, <2>1, <2>3 DEF qmark_set_spec, TypeInv, TypeOK
<1>20. CASE ResetBegin
  BY <1>1, <1>2, <1>20 DEF ResetBegin, TypeInv, TypeOK, ElemNumCounts, Bound
<1>21. CASE ResetFlush
  <2>1. ElemNumCounts' /\ elem_num' \in Nat
    BY <1>21, TypeEmptied DEF ResetFlush
  <2>2. g_ruletbl' \in [RuleIds -> Rules]
    <3>1. \A id \in RuleIds : [g_ruletbl[id] EXCEPT !.count = 0] \in Rules
      BY <1>1 DEF TypeOK
    <3>. QED  BY <1>21, <3>1 DEF ResetFlush, CountsCleared
  <2>. QED  BY <1>1, <1>2, <1>21, <2>1, <2>2 DEF ResetFlush, TypeInv, TypeOK
<1>22. CASE ResetEnd
  BY <1>1, <1>2, <1>22 DEF ResetEnd, TypeInv, TypeOK, ElemNumCounts, Bound
<1>23. CASE TcCommand
  <2>1. 1 \in RuleIds
    BY SpecAssumption DEF RuleIds
  <2>2. tcCall' \in Calls
    BY <1>1, <1>23, <2>1 DEF TcCommand, TcAdd, TcDel, TypeOK
  <2>. QED  BY <1>1, <1>23, <2>2 DEF TcCommand, TypeInv, TypeOK, ElemNumCounts, Bound
<1>24. CASE UNCHANGED vars
  BY <1>1, <1>24 DEF vars, TypeInv, TypeOK, ElemNumCounts, Bound
<1>. QED
  BY <1>4, <1>5, <1>6, <1>7, <1>8, <1>9, <1>10, <1>11, <1>12, <1>13, <1>14,
     <1>16, <1>17, <1>18, <1>19, <1>20, <1>21, <1>22, <1>23, <1>24
     DEF Next, Packet, Conntrack, RuleCommand, HashCommand, MarkCommand,
         TableCommand, Halted

\* The state of the table keeps its types, whatever the packets, events and
\* commands: in particular no mark in a node, a rule or the bitmap ever
\* passes max_ip_cnt.
THEOREM TypeCorrect == Spec => []TypeOK
<1>1. TypeInv => TypeOK
  BY DEF TypeInv
<1>. QED  BY TypeInit, TypeStep, <1>1, PTL DEF Spec

-----------------------------------------------------------------------------
(* The inductive invariant.  Isolation alone is not inductive: that a free *)
(* bit belongs to nobody is MarksBacked, that a zero count means no peer is*)
(* RuleCountExact, and that the rule's mark is the peers' is               *)
(* SharedRuleMark.                                                         *)

Apart ==
    \A p, q \in Bound :
        p # q => ( marktbl[p].mark = marktbl[q].mark
                   <=> /\ marktbl[p].id = marktbl[q].id
                       /\ g_ruletbl[marktbl[p].id].mode = SHARE_MODE )

Counted == \A id \in RuleIds : g_ruletbl[id].count = Cardinality(Holders(id))

Stored ==
    \A ip \in Bound :
        g_ruletbl[marktbl[ip].id].mode = SHARE_MODE
            => g_ruletbl[marktbl[ip].id].mark = marktbl[ip].mark

Books == Apart /\ mark_bitmap = UsedMarks /\ Counted /\ Stored

Sound ==
    /\ elem_num <= max_ip_cnt
    /\ panic => ~clean
    /\ clean => Books
    /\ clean /\ reset_flag /\ ~resetting => Bound = {}

IInv == TypeInv /\ Sound

\* The holders of a rule are finitely many.
LEMMA HoldersFinite ==
    ASSUME NEW id
    PROVE  IsFiniteSet(Holders(id)) /\ Cardinality(Holders(id)) \in Nat
BY FiniteAssumption, FS_Subset, FS_CardinalityType DEF Holders

\* A rule that would allocate a new mark has no peer to share one with.
LEMMA NewMarkMeansNoPeer ==
    ASSUME Counted, NEW id \in RuleIds, NeedsNewMark(id),
           g_ruletbl[id].mode # PRIV_MODE
    PROVE  Holders(id) = {}
<1>1. Cardinality(Holders(id)) = 0
  BY DEF Counted, NeedsNewMark
<1>. QED  BY <1>1, HoldersFinite, FS_EmptySet

\* Nothing the books are about changed: the addresses keep rule and mark, and
\* rules with an address their mode and, when shared, their mark.
LEMMA BooksKept ==
    ASSUME TypeOK, Books, UNCHANGED mark_bitmap,
           \A ip \in IPs : /\ marktbl'[ip].id = marktbl[ip].id
                           /\ marktbl'[ip].mark = marktbl[ip].mark,
           \A id \in RuleIds :
             /\ g_ruletbl'[id].count = g_ruletbl[id].count
             /\ Holders(id) # {} =>
                  /\ g_ruletbl'[id].mode = g_ruletbl[id].mode
                  /\ g_ruletbl[id].mode = SHARE_MODE =>
                       g_ruletbl'[id].mark = g_ruletbl[id].mark
    PROVE  Books' /\ Bound' = Bound
<1>1. Bound' = Bound /\ UsedMarks' = UsedMarks
  BY DEF Bound, UsedMarks
<1>2. \A id \in RuleIds : Holders(id)' = Holders(id)
  BY DEF Holders
<1>3. \A ip \in Bound : marktbl[ip].id \in RuleIds /\ ip \in Holders(marktbl[ip].id)
  BY DEF Bound, Holders, TypeOK, NoEntry
<1>4. \A ip \in Bound :
        /\ ip \in IPs
        /\ g_ruletbl'[marktbl[ip].id].mode = g_ruletbl[marktbl[ip].id].mode
        /\ g_ruletbl[marktbl[ip].id].mode = SHARE_MODE =>
             g_ruletbl'[marktbl[ip].id].mark = g_ruletbl[marktbl[ip].id].mark
  BY <1>3 DEF Bound
<1>5. Apart' /\ Stored'
  BY <1>1, <1>4 DEF Books, Apart, Stored
<1>6. Counted'
  BY <1>2 DEF Books, Counted
<1>. QED  BY <1>1, <1>5, <1>6 DEF Books

\* Empty tables are in order.
LEMMA BooksEmpty ==
    ASSUME Bound' = {}, mark_bitmap' = {},
           \A id \in RuleIds : g_ruletbl'[id].count = 0
    PROVE  Books'
<1>1. \A id \in RuleIds : Holders(id)' = {}
  BY DEF Bound, Holders, RuleIds
<1>2. UsedMarks' = {}
  BY DEF UsedMarks
<1>. QED  BY <1>1, <1>2, FS_EmptySet DEF Books, Apart, Stored, Counted

\* Binding one more address.
LEMMA BooksBind ==
    ASSUME TypeInv, Books, NEW ip \in IPs, NEW id \in RuleIds,
           qmark_alloc_mark_auto(ip, id)
    PROVE  Books'
<1>. DEFINE mode == g_ruletbl[id].mode
<1>1. TypeOK /\ Apart /\ Counted /\ Stored /\ mark_bitmap = UsedMarks /\ ip \notin Bound
  BY DEF TypeInv, Books, qmark_alloc_mark_auto
<1>2. PICK m \in MarkFor(id) :
        /\ mark_bitmap' = BitmapWith(id, m)
        /\ HashInsert(ip, id, m)
        /\ g_ruletbl' = [g_ruletbl EXCEPT ![id].mark = RuleMarkWith(id, m),
                                          ![id].count = @ + 1]
  BY DEF qmark_alloc_mark_auto
<1>3. Bound' = Bound \union {ip}
  BY <1>1, <1>2, BoundGrows
<1>4. /\ \A p \in Bound : p # ip /\ p \in IPs /\ marktbl'[p] = marktbl[p]
                         /\ marktbl[p].id \in RuleIds
      /\ marktbl'[ip].id = id /\ marktbl'[ip].mark = m
  BY <1>1, <1>2 DEF HashInsert, Bound, TypeOK, NoEntry
<1>5. /\ \A j \in RuleIds : j # id => g_ruletbl'[j] = g_ruletbl[j]
      /\ \A j \in RuleIds : g_ruletbl'[j].mode = g_ruletbl[j].mode
      /\ g_ruletbl'[id].count = g_ruletbl[id].count + 1
      /\ g_ruletbl'[id].mark = RuleMarkWith(id, m)
  BY <1>1, <1>2 DEF TypeOK
<1>6. /\ \A p \in Bound : marktbl[p].mark = m
                           <=> marktbl[p].id = id /\ mode = SHARE_MODE
      /\ BitmapWith(id, m) = UsedMarks \union {m}
  <2>1. CASE NeedsNewMark(id)
    <3>1. m \notin UsedMarks
      BY <1>1, <1>2, <2>1, AllocMarkFree DEF MarkFor
    <3>2. \A p \in Bound : marktbl[p].mark # m
      BY <3>1 DEF UsedMarks
    <3>3. mode = SHARE_MODE => \A p \in Bound : marktbl[p].id # id
      BY <1>1, <2>1, NewMarkMeansNoPeer DEF PRIV_MODE, SHARE_MODE, Holders, Bound
    <3>. QED  BY <1>1, <2>1, <3>2, <3>3 DEF BitmapWith
  <2>2. CASE ~NeedsNewMark(id)
    <3>1. mode = SHARE_MODE /\ m = g_ruletbl[id].mark
      BY <1>1, <1>2, <2>2 DEF NeedsNewMark, MarkFor, TypeOK
    <3>2. Cardinality(Holders(id)) # 0
      BY <1>1, <2>2 DEF NeedsNewMark, Counted
    <3>3. PICK h \in IPs : marktbl[h].id = id
      BY <3>2, FS_EmptySet DEF Holders
    <3>4. h \in Bound
      BY <3>3 DEF Bound, RuleIds
    <3>5. \A p \in Bound : marktbl[p].id = id => marktbl[p].mark = m
      BY <1>1, <3>1 DEF Stored
    <3>6. marktbl[h].mark = m
      BY <3>3, <3>4, <3>5
    <3>7. \A p \in Bound : marktbl[p].mark = m => marktbl[p].id = id
      BY <1>1, <3>3, <3>4, <3>6 DEF Apart
    <3>8. m \in UsedMarks
      BY <3>4, <3>6 DEF UsedMarks
    <3>. QED  BY <1>1, <2>2, <3>1, <3>5, <3>7, <3>8 DEF BitmapWith
  <2>. QED  BY <2>1, <2>2
<1>7. Apart'
  <2>. SUFFICES ASSUME NEW p \in Bound', NEW q \in Bound', p # q
                PROVE  marktbl'[p].mark = marktbl'[q].mark
                       <=> /\ marktbl'[p].id = marktbl'[q].id
                           /\ g_ruletbl'[marktbl'[p].id].mode = SHARE_MODE
    BY DEF Apart
  <2>1. CASE p \in Bound /\ q \in Bound
    BY <1>1, <1>4, <1>5, <2>1 DEF Apart
  <2>2. CASE p = ip
    <3>1. q \in Bound
      BY <1>3, <2>2
    <3>. QED  BY <1>4, <1>5, <1>6, <2>2, <3>1
  <2>3. CASE q = ip
    <3>1. p \in Bound
      BY <1>3, <2>3
    <3>. QED  BY <1>4, <1>5, <1>6, <2>3, <3>1
  <2>. QED  BY <1>3, <2>1, <2>2, <2>3
<1>8. mark_bitmap' = UsedMarks'
  <2>1. UsedMarks' = UsedMarks \union {m}
    BY <1>3, <1>4 DEF UsedMarks
  <2>. QED  BY <1>2, <1>6, <2>1
<1>9. Counted'
  <2>. SUFFICES ASSUME NEW j \in RuleIds
                PROVE  g_ruletbl'[j].count = Cardinality(Holders(j)')
    BY DEF Counted
  <2>1. ip \notin Holders(j)
    BY <1>1 DEF Holders, Bound, RuleIds
  <2>2. \A p \in IPs : p # ip => marktbl'[p] = marktbl[p]
    BY <1>1, <1>2 DEF HashInsert, TypeOK
  <2>3. CASE j = id
    <3>1. Holders(j)' = Holders(j) \union {ip}
      BY <1>4, <2>2, <2>3 DEF Holders
    <3>. QED  BY <1>1, <1>5, <2>1, <2>3, <3>1, HoldersFinite, FS_AddElement DEF Counted
  <2>4. CASE j # id
    <3>1. Holders(j)' = Holders(j)
      BY <1>4, <2>1, <2>2, <2>4 DEF Holders
    <3>. QED  BY <1>1, <1>5, <2>4, <3>1 DEF Counted
  <2>. QED  BY <2>3, <2>4
<1>10. Stored'
  <2>. SUFFICES ASSUME NEW p \in Bound', g_ruletbl'[marktbl'[p].id].mode = SHARE_MODE
                PROVE  g_ruletbl'[marktbl'[p].id].mark = marktbl'[p].mark
    BY DEF Stored
  <2>1. mode = SHARE_MODE => g_ruletbl'[id].mark = m
    BY <1>5 DEF RuleMarkWith
  <2>2. CASE p = ip
    BY <1>4, <1>5, <2>1, <2>2
  <2>3. CASE p \in Bound /\ marktbl[p].id = id
    BY <1>4, <1>5, <1>6, <2>1, <2>3
  <2>4. CASE p \in Bound /\ marktbl[p].id # id
    BY <1>1, <1>4, <1>5, <2>4 DEF Stored
  <2>. QED  BY <1>3, <2>2, <2>3, <2>4
<1>. QED  BY <1>7, <1>8, <1>9, <1>10 DEF Books

\* Removing a node whose last reference goes, by a DESTROY event or `qmark -D'.
LEMMA BooksRemove ==
    ASSUME TypeInv, Books, NEW ip \in Bound, NEW call, PutEntry(ip, call),
           ~(marktbl[ip].count - 1 > 0)
    PROVE  Books'
<1>0. PICK id, mark : id = marktbl[ip].id /\ mark = marktbl[ip].mark
  OBVIOUS
<1>1. TypeOK /\ Apart /\ Counted /\ Stored /\ mark_bitmap = UsedMarks
  BY DEF TypeInv, Books
<1>2. ip \in IPs /\ id \in RuleIds
  BY <1>0, <1>1 DEF Bound, TypeOK, NoEntry
<1>3. /\ marktbl' = [marktbl EXCEPT ![ip] = NoEntry]
      /\ \/ /\ LastOfRule(id)
            /\ g_ruletbl' = [g_ruletbl EXCEPT ![id].count = @ - 1, ![id].mark = 0]
            /\ mark_bitmap' \in free_mark(mark)
         \/ /\ ~LastOfRule(id)
            /\ g_ruletbl' = [g_ruletbl EXCEPT ![id].count = @ - 1]
            /\ mark_bitmap' = mark_bitmap
  BY <1>0 DEF PutEntry
<1>4. Bound' = Bound \ {ip}
  BY <1>1, <1>3, BoundShrinks
<1>5. \A p \in Bound' : p \in Bound /\ p \in IPs /\ p # ip /\ marktbl'[p] = marktbl[p]
                        /\ marktbl[p].id \in RuleIds
  BY <1>1, <1>3, <1>4 DEF Bound, TypeOK, NoEntry
<1>6. /\ \A j \in RuleIds : j # id => g_ruletbl'[j] = g_ruletbl[j]
      /\ \A j \in RuleIds : g_ruletbl'[j].mode = g_ruletbl[j].mode
      /\ g_ruletbl'[id].count = g_ruletbl[id].count - 1
      /\ ~LastOfRule(id) => g_ruletbl'[id].mark = g_ruletbl[id].mark
  BY <1>1, <1>2, <1>3 DEF TypeOK
<1>7. \A p \in IPs : p # ip => marktbl'[p] = marktbl[p]
  BY <1>1, <1>3 DEF TypeOK
<1>8. /\ marktbl'[ip].id = 0
      /\ \A j \in RuleIds : j # 0
  BY <1>1, <1>2, <1>3 DEF TypeOK, NoEntry, RuleIds
<1>9. /\ Holders(id)' = Holders(id) \ {ip}
      /\ \A j \in RuleIds : j # id => Holders(j)' = Holders(j)
  BY <1>0, <1>2, <1>7, <1>8 DEF Holders
<1>10. g_ruletbl[id].count - 1 = Cardinality(Holders(id) \ {ip})
  <2>1. ip \in Holders(id)
    BY <1>0, <1>2 DEF Holders
  <2>. QED  BY <1>1, <1>2, <2>1, HoldersFinite, FS_RemoveElement DEF Counted
<1>11. Counted'
  <2>. SUFFICES ASSUME NEW j \in RuleIds
                PROVE  g_ruletbl'[j].count = Cardinality(Holders(j)')
    BY DEF Counted
  <2>1. CASE j = id
    BY <1>6, <1>9, <1>10, <2>1
  <2>2. CASE j # id
    BY <1>1, <1>6, <1>9, <2>2 DEF Counted
  <2>. QED  BY <2>1, <2>2
<1>12. Apart'
  BY <1>1, <1>5, <1>6 DEF Apart
<1>13. CASE LastOfRule(id)
  <2>1. g_ruletbl[id].mode = SHARE_MODE => Holders(id) \ {ip} = {}
    <3>1. IsFiniteSet(Holders(id) \ {ip})
      BY HoldersFinite, FS_Subset
    <3>. QED  BY <1>10, <1>13, <3>1, FS_EmptySet DEF LastOfRule, PRIV_MODE, SHARE_MODE
  <2>2. \A p \in Bound' : ~(marktbl[p].id = id /\ g_ruletbl[id].mode = SHARE_MODE)
    BY <1>5, <2>1 DEF Holders
  <2>3. \A p \in Bound' : marktbl[p].mark # mark
    BY <1>0, <1>1, <1>5, <2>2 DEF Apart
  <2>4. UsedMarks' = UsedMarks \ {mark}
    BY <1>0, <1>4, <1>5, <2>3 DEF UsedMarks
  <2>5. mark # 0
    <3>1. mark \in UsedMarks
      BY <1>0 DEF UsedMarks
    <3>2. 0 \notin 1..max_ip_cnt
      BY SpecAssumption, <1>1 DEF TypeOK
    <3>. QED  BY <1>1, <3>1, <3>2 DEF TypeOK
  <2>6. mark_bitmap' = mark_bitmap \ {mark}
    BY <1>3, <1>13, <2>5 DEF free_mark
  <2>7. Stored'
    BY <1>1, <1>5, <1>6, <2>2 DEF Stored
  <2>. QED  BY <1>1, <1>11, <1>12, <2>4, <2>6, <2>7 DEF Books
<1>14. CASE ~LastOfRule(id)
  <2>1. g_ruletbl[id].mode = SHARE_MODE /\ g_ruletbl[id].count - 1 # 0
    BY <1>1, <1>2, <1>14 DEF LastOfRule, TypeOK
  <2>2. PICK q \in Holders(id) : q # ip
    BY <1>10, <2>1, FS_EmptySet
  <2>3. q \in Bound' /\ marktbl[q].id = id
    BY <1>2, <1>4, <2>2 DEF Holders, Bound, RuleIds
  <2>4. marktbl[q].mark = mark
    BY <1>0, <1>1, <1>4, <2>1, <2>2, <2>3 DEF Apart
  <2>5. UsedMarks' = UsedMarks
    BY <1>0, <1>4, <1>5, <2>3, <2>4 DEF UsedMarks
  <2>6. mark_bitmap' = mark_bitmap
    BY <1>3, <1>14
  <2>7. Stored'
    BY <1>1, <1>5, <1>6, <1>14 DEF Stored
  <2>. QED  BY <1>1, <1>11, <1>12, <2>5, <2>6, <2>7 DEF Books
<1>. QED  BY <1>13, <1>14

\* A step that changes nothing the books are about, and leaves no reset.
LEMMA SoundKept ==
    ASSUME IInv, UNCHANGED <<max_ip_cnt, panic, mark_bitmap>>,
           elem_num' <= max_ip_cnt,
           clean' => clean,
           reset_flag' /\ ~resetting' => reset_flag /\ ~resetting,
           clean' =>
             /\ \A ip \in IPs : /\ marktbl'[ip].id = marktbl[ip].id
                               /\ marktbl'[ip].mark = marktbl[ip].mark
             /\ \A id \in RuleIds :
                  /\ g_ruletbl'[id].count = g_ruletbl[id].count
                  /\ Holders(id) # {} =>
                       /\ g_ruletbl'[id].mode = g_ruletbl[id].mode
                       /\ g_ruletbl[id].mode = SHARE_MODE =>
                            g_ruletbl'[id].mark = g_ruletbl[id].mark
    PROVE  Sound'
<1>1. clean' => Books' /\ Bound' = Bound
  BY BooksKept DEF IInv, TypeInv, Sound
<1>. QED  BY <1>1 DEF IInv, Sound

\* The tables are emptied and the counts cleared.
LEMMA SoundEmptied ==
    ASSUME IInv, ~panic', elem_num' = 0, max_ip_cnt' \in IpSpecs,
           marktbl' = [ip \in IPs |-> NoEntry], mark_bitmap' = {},
           \A id \in RuleIds : g_ruletbl'[id].count = 0
    PROVE  Sound'
<1>1. Bound' = {}
  BY TypeEmptied DEF IInv
<1>2. Books'
  BY <1>1, BooksEmpty
<1>3. 0 <= max_ip_cnt'
  BY SpecAssumption
<1>. QED  BY <1>1, <1>2, <1>3 DEF Sound

\* One reference less keeps the books.
LEMMA SoundPutEntry ==
    ASSUME IInv, NEW ip \in Bound, NEW call, PutEntry(ip, call)
    PROVE  Sound'
<1>1. TypeOK /\ TypeInv /\ Sound /\ ip \in IPs /\ elem_num \in Nat /\ max_ip_cnt \in Nat
  BY SpecAssumption DEF IInv, TypeInv, TypeOK, Bound
<1>2. CASE marktbl[ip].count - 1 > 0
  <2>1. /\ marktbl' = [marktbl EXCEPT ![ip].count = @ - 1]
        /\ UNCHANGED <<g_ruletbl, elem_num, mark_bitmap, max_ip_cnt, reset_flag,
                       resetting, panic, clean>>
    BY <1>2 DEF PutEntry
  <2>2. marktbl[ip] \in [id : RuleIds, mark : 0..max_ip_cnt, count : Nat]
    BY <1>1 DEF TypeOK, Bound, NoEntry
  <2>3. \A p \in IPs : /\ marktbl'[p].id = marktbl[p].id
                      /\ marktbl'[p].mark = marktbl[p].mark
    BY <1>1, <2>1, <2>2 DEF TypeOK
  <2>4. elem_num' <= max_ip_cnt
    BY <1>1, <2>1 DEF Sound
  <2>. QED  BY <2>1, <2>3, <2>4, SoundKept
<1>3. CASE ~(marktbl[ip].count - 1 > 0)
  <2>1. /\ marktbl' = [marktbl EXCEPT ![ip] = NoEntry]
        /\ elem_num' = elem_num - 1
        /\ UNCHANGED <<max_ip_cnt, reset_flag, resetting, panic, clean>>
    BY <1>3 DEF PutEntry
  <2>2. clean => Books'
    BY <1>1, <1>3, BooksRemove DEF Sound
  <2>3. elem_num' <= max_ip_cnt'
    BY <1>1, <2>1 DEF Sound
  <2>4. clean => ~(reset_flag /\ ~resetting)
    BY <1>1 DEF Sound
  <2>. QED  BY <1>1, <2>1, <2>2, <2>3, <2>4 DEF Sound
<1>. QED  BY <1>2, <1>3

LEMMA SoundInit == Init => IInv
<1>. SUFFICES ASSUME Init PROVE IInv
  OBVIOUS
<1>1. Bound = {}
  BY DEF Init, Bound, NoEntry
<1>2. UsedMarks = {} /\ \A id \in RuleIds : Holders(id) = {}
  BY <1>1 DEF UsedMarks, Bound, Holders, RuleIds
<1>3. Counted
  BY <1>2, FS_EmptySet DEF Counted, Init, ZeroRule
<1>4. Books
  BY <1>1, <1>2, <1>3 DEF Books, Apart, Stored, Init
<1>5. elem_num <= max_ip_cnt
  BY SpecAssumption DEF Init
<1>. QED  BY <1>1, <1>4, <1>5, TypeInit DEF IInv, Sound, Init

\* Every step preserves the invariant, action by action.
LEMMA SoundStep == IInv /\ [Next]_vars => IInv'
<1>. SUFFICES ASSUME IInv, [Next]_vars PROVE Sound'
  BY TypeStep DEF IInv
<1>1. /\ TypeInv /\ TypeOK /\ Sound
      /\ elem_num \in Nat /\ max_ip_cnt \in Nat
      /\ elem_num <= max_ip_cnt
  BY SpecAssumption DEF IInv, TypeInv, TypeOK, Sound
<1>2. ASSUME NEW ip \in IPs, NEW id \in RuleIds, qmark_alloc_mark_auto(ip, id)
      PROVE  Sound'
  <2>1. /\ ~reset_flag
        /\ elem_num + 1 <= max_ip_cnt
        /\ elem_num' = elem_num + 1
        /\ UNCHANGED <<max_ip_cnt, reset_flag, resetting, panic, clean>>
    BY <1>1, <1>2 DEF qmark_alloc_mark_auto, Misses, elem_over_limit
  <2>2. clean => Books'
    BY <1>1, <1>2, BooksBind DEF Sound
  <2>. QED  BY <1>1, <2>1, <2>2 DEF Sound
<1>3. ASSUME NEW ip \in IPs, NEW id \in RuleIds, AllocMarkAutoFails(ip, id)
      PROVE  Sound'
  <2>1. UNCHANGED <<marktbl, elem_num, mark_bitmap, max_ip_cnt, reset_flag,
                    resetting, panic, clean>>
    BY <1>3 DEF AllocMarkAutoFails
  <2>2. ASSUME clean, NEW j \in RuleIds
        PROVE  /\ g_ruletbl'[j].count = g_ruletbl[j].count
               /\ g_ruletbl'[j].mode = g_ruletbl[j].mode
               /\ Holders(j) # {} /\ g_ruletbl[j].mode = SHARE_MODE =>
                    g_ruletbl'[j].mark = g_ruletbl[j].mark
    <3>1. Counted
      BY <1>1, <2>2 DEF Sound, Books
    <3>2. CASE NeedsNewMark(id)
      <4>1. g_ruletbl' = [g_ruletbl EXCEPT ![id].mark = 0]
        BY <1>3, <3>2 DEF AllocMarkAutoFails
      <4>2. g_ruletbl[id].mode = SHARE_MODE => Holders(id) = {}
        BY <1>3, <3>1, <3>2, NewMarkMeansNoPeer DEF PRIV_MODE, SHARE_MODE
      <4>. QED  BY <1>1, <2>2, <4>1, <4>2 DEF TypeOK
    <3>3. CASE ~NeedsNewMark(id)
      BY <1>3, <3>3 DEF AllocMarkAutoFails
    <3>. QED  BY <3>2, <3>3
  <2>. QED  BY <1>1, <2>1, <2>2, SoundKept
<1>4. ASSUME NEW ip \in IPs, NEW id \in RuleIds, AllocMarkAutoOops(ip, id)
      PROVE  Sound'
  <2>1. /\ ip \in Bound /\ marktbl[ip].mark = 0
        /\ UNCHANGED <<marktbl, elem_num, max_ip_cnt, clean>>
    BY <1>4 DEF AllocMarkAutoOops, Misses
  <2>2. ~clean
    <3>1. 0 \in UsedMarks
      BY <2>1 DEF UsedMarks
    <3>2. 0 \notin mark_bitmap
      BY <1>1 DEF TypeOK
    <3>. QED  BY <1>1, <3>1, <3>2 DEF Sound, Books
  <2>. QED  BY <1>1, <2>1, <2>2 DEF Sound
<1>5. ASSUME NEW ip \in IPs, ConntrackMark(ip)
      PROVE  Sound'
  <2>1. /\ marktbl' = [marktbl EXCEPT ![ip].count = @ + 1]
        /\ ip \in Bound
        /\ UNCHANGED <<g_ruletbl, elem_num, mark_bitmap, max_ip_cnt, reset_flag,
                       resetting, panic, clean>>
    BY <1>5 DEF ConntrackMark
  <2>2. marktbl[ip] \in [id : RuleIds, mark : 0..max_ip_cnt, count : Nat]
    BY <1>1, <2>1 DEF TypeOK, Bound, NoEntry
  <2>3. \A p \in IPs : /\ marktbl'[p].id = marktbl[p].id
                      /\ marktbl'[p].mark = marktbl[p].mark
    BY <1>1, <2>1, <2>2 DEF TypeOK
  <2>. QED  BY <1>1, <2>1, <2>3, SoundKept
<1>6. ASSUME NEW ip \in IPs, ConntrackDestroy(ip)
      PROVE  Sound'
  BY <1>6, SoundPutEntry DEF ConntrackDestroy
<1>7. ASSUME NEW id \in RuleIds, NEW mode, NEW par, qmark_add_rule(id, mode, par)
      PROVE  Sound'
  <2>1. /\ g_ruletbl' = [g_ruletbl EXCEPT ![id].mode = mode, ![id].par = par]
        /\ clean' => clean /\ (Holders(id) = {} \/ mode = g_ruletbl[id].mode)
        /\ UNCHANGED <<marktbl, elem_num, mark_bitmap, max_ip_cnt, reset_flag,
                       resetting, panic>>
    BY <1>7 DEF qmark_add_rule
  <2>2. ASSUME clean', NEW j \in RuleIds
        PROVE  /\ g_ruletbl'[j].count = g_ruletbl[j].count
               /\ g_ruletbl'[j].mark = g_ruletbl[j].mark
               /\ Holders(j) # {} => g_ruletbl'[j].mode = g_ruletbl[j].mode
    BY <1>1, <2>1, <2>2 DEF TypeOK
  <2>. QED  BY <1>1, <2>1, <2>2, SoundKept
<1>8. ASSUME NEW id \in RuleIds, qmark_del_rule(id)
      PROVE  Sound'
  <2>1. /\ g_ruletbl' = [g_ruletbl EXCEPT ![id] = ZeroRule]
        /\ clean' => clean /\ Holders(id) = {}
        /\ UNCHANGED <<marktbl, elem_num, mark_bitmap, max_ip_cnt, reset_flag,
                       resetting, panic>>
    BY <1>8 DEF qmark_del_rule
  <2>2. ASSUME clean', NEW j \in RuleIds
        PROVE  /\ g_ruletbl'[j].count = g_ruletbl[j].count
               /\ Holders(j) # {} => g_ruletbl'[j] = g_ruletbl[j]
    <3>1. clean /\ Holders(id) = {} /\ g_ruletbl[id].count = Cardinality(Holders(id))
      BY <1>1, <2>1, <2>2 DEF Sound, Books, Counted
    <3>2. g_ruletbl[id].count = 0
      BY <3>1, FS_EmptySet
    <3>. QED  BY <1>1, <2>1, <3>1, <3>2 DEF TypeOK, ZeroRule
  <2>. QED  BY <1>1, <2>1, <2>2, SoundKept
<1>9. CASE qmark_flush_rule
  <2>1. /\ g_ruletbl' = [id \in RuleIds |-> ZeroRule]
        /\ clean' => clean /\ Bound = {}
        /\ UNCHANGED <<marktbl, elem_num, mark_bitmap, max_ip_cnt, reset_flag,
                       resetting, panic>>
    BY <1>9 DEF qmark_flush_rule
  <2>2. ASSUME clean', NEW j \in RuleIds
        PROVE  g_ruletbl'[j].count = g_ruletbl[j].count /\ Holders(j) = {}
    <3>1. Holders(j) = {} /\ g_ruletbl[j].count = Cardinality(Holders(j))
      BY <1>1, <2>1, <2>2 DEF Sound, Books, Counted, Holders, Bound, RuleIds
    <3>. QED  BY <2>1, <3>1, FS_EmptySet DEF ZeroRule
  <2>. QED  BY <1>1, <2>1, <2>2, SoundKept
<1>10. ASSUME NEW ip \in IPs, NEW id \in RuleIds, NEW m, qmark_add_hash(ip, id, m)
       PROVE  Sound'
  <2>1. /\ ~clean'
        /\ elem_num + 1 <= max_ip_cnt
        /\ elem_num' \in {elem_num, elem_num + 1}
        /\ UNCHANGED max_ip_cnt
    BY <1>1, <1>10 DEF qmark_add_hash, elem_over_limit
  <2>. QED  BY <1>1, <2>1 DEF Sound
<1>11. ASSUME NEW ip \in IPs, qmark_del_hash(ip)
       PROVE  Sound'
  BY <1>11, SoundPutEntry DEF qmark_del_hash
<1>12. CASE qmark_flush_hash
  <2>1. /\ marktbl' = [ip \in IPs |-> NoEntry]
        /\ elem_num' = 0
        /\ clean' => clean /\ Bound = {}
        /\ UNCHANGED <<g_ruletbl, mark_bitmap, max_ip_cnt, reset_flag, resetting,
                       panic>>
    BY <1>12 DEF qmark_flush_hash
  <2>2. clean' => marktbl' = marktbl
    BY <1>1, <2>1 DEF Bound, TypeOK, RuleIds
  <2>. QED  BY <1>1, <2>1, <2>2, SoundKept
<1>13. CASE BitmapCommand
  <2>1. /\ clean' => clean /\ mark_bitmap' = mark_bitmap
        /\ UNCHANGED <<g_ruletbl, marktbl, elem_num, max_ip_cnt, reset_flag,
                       resetting, panic>>
    BY <1>13 DEF BitmapCommand
  <2>2. CASE clean'
    BY <1>1, <2>1, <2>2, SoundKept
  <2>3. CASE ~clean'
    BY <1>1, <2>1, <2>3 DEF Sound
  <2>. QED  BY <2>2, <2>3
<1>14. ASSUME NEW ip_spec \in IpSpecs, qmark_set_spec(ip_spec), ~panic
       PROVE  Sound'
  BY <1>14, SoundEmptied DEF qmark_set_spec, ZeroRule
<1>15. CASE ResetBegin
  BY <1>1, <1>15, SoundKept DEF ResetBegin
<1>16. CASE ResetFlush /\ ~panic
  <2>1. \A id \in RuleIds : g_ruletbl'[id].count = 0
    BY <1>1, <1>16 DEF ResetFlush, CountsCleared, TypeOK
  <2>. QED  BY <1>1, <1>16, <2>1, SoundEmptied DEF ResetFlush, TypeOK
<1>17. CASE ResetEnd
  BY <1>1, <1>17, SoundKept DEF ResetEnd
<1>18. CASE TcCommand
  BY <1>1, <1>18, SoundKept DEF TcCommand
<1>19. CASE UNCHANGED vars
  BY <1>1, <1>19, SoundKept DEF vars
<1>20. CASE qmark_alloc_mark \/ qmark_flush_mark \/ \E m \in 0..max_ip_cnt : qmark_free_mark(m)
  BY <1>13, <1>20 DEF qmark_alloc_mark, qmark_flush_mark, qmark_free_mark
<1>. QED
  BY <1>2, <1>3, <1>4, <1>5, <1>6, <1>7, <1>8, <1>9, <1>10, <1>11, <1>12,
     <1>14, <1>15, <1>16, <1>17, <1>18, <1>19, <1>20
     DEF Next, Packet, Conntrack, RuleCommand, HashCommand, MarkCommand,
         TableCommand, Halted

-----------------------------------------------------------------------------
(* The properties the runs check, for every instance.                      *)

\* The invariant says what the properties say.
LEMMA SoundImplies ==
    ASSUME IInv
    PROVE  /\ Isolation /\ MarksBacked /\ RuleCountExact /\ SharedRuleMark
           /\ ElemNumExact /\ PanicOnlyAfterRewrite /\ ResetQuiet
<1>1. clean /\ Bound = {} => mark_bitmap = {}
  BY DEF IInv, Sound, Books, UsedMarks
<1>2. Isolation /\ MarksBacked /\ RuleCountExact /\ SharedRuleMark
  BY DEF IInv, Sound, Books, Isolation, Apart, MarksBacked, RuleCountExact, Counted,
         SharedRuleMark, Stored
<1>. QED
  BY <1>1, <1>2 DEF IInv, Sound, TypeInv, ElemNumExact, ElemNumCounts,
         PanicOnlyAfterRewrite, ResetQuiet

THEOREM InvariantHolds == Spec => []IInv
BY SoundInit, SoundStep, PTL DEF Spec

\* The allocator of alloc_mark and the release in the DESTROY handler and in
\* qmark_del_hash never give one mark to addresses of different rules or to
\* two addresses of a private rule.
THEOREM IsolationHolds == Spec => []Isolation
<1>1. IInv => Isolation
  BY SoundImplies
<1>. QED  BY InvariantHolds, <1>1, PTL

\* No mark leaks from the bitmap and none is freed in use, including on the
\* failure path of qmark_alloc_mark_auto.
THEOREM MarksBackedHolds == Spec => []MarksBacked
<1>1. IInv => MarksBacked
  BY SoundImplies
<1>. QED  BY InvariantHolds, <1>1, PTL

\* The count of every rule is the number of its nodes: what the choice
\* between a new and the shared mark, and the last-holder test, rely on.
THEOREM RuleCountHolds == Spec => []RuleCountExact
<1>1. IInv => RuleCountExact
  BY SoundImplies
<1>. QED  BY InvariantHolds, <1>1, PTL

\* A shared rule holds the mark of its nodes, also after the failure paths of
\* qmark_alloc_mark_auto: the next address joins the others.
THEOREM SharedRuleMarkHolds == Spec => []SharedRuleMark
<1>1. IInv => SharedRuleMark
  BY SoundImplies
<1>. QED  BY InvariantHolds, <1>1, PTL

\* elem_num counts the nodes and respects the limit under every command, the
\* ones that rewrite live bookkeeping included.
THEOREM ElemNumHolds == Spec => []ElemNumExact
<1>1. IInv => ElemNumExact
  BY SoundImplies
<1>. QED  BY InvariantHolds, <1>1, PTL

\* Between the flush of qmark_reset(1) and qmark_reset(0) nothing is bound.
THEOREM ResetQuietHolds == Spec => []ResetQuiet
<1>1. IInv => ResetQuiet
  BY SoundImplies
<1>. QED  BY InvariantHolds, <1>1, PTL

\* The NULL node of marktbl_hash_add is reached only after a command rewrote
\* bookkeeping in use.
THEOREM PanicHolds == Spec => []PanicOnlyAfterRewrite
<1>1. IInv => PanicOnlyAfterRewrite
  BY SoundImplies
<1>. QED  BY InvariantHolds, <1>1, PTL

-----------------------------------------------------------------------------
(* What is sent to tc.                                                     *)

\* A removal tells tc about the mark it frees and about no other.
LEMMA TcPutEntry ==
    ASSUME IInv, clean, NEW ip \in Bound, NEW call, PutEntry(ip, call),
           call.op \in {"none", "del"}, call.op = "del" => call.mark = marktbl[ip].mark
    PROVE  /\ UsedMarks' \ UsedMarks = {}
           /\ tcCall'.op = "del" =>
                UsedMarks' = UsedMarks \ {tcCall'.mark} /\ UsedMarks' # UsedMarks
<1>1. /\ TypeOK /\ mark_bitmap = UsedMarks /\ mark_bitmap' = UsedMarks'
      /\ marktbl[ip].mark \in UsedMarks /\ max_ip_cnt \in Nat
  <2>1. clean'
    BY DEF PutEntry
  <2>2. Books'
    BY <2>1, SoundPutEntry DEF Sound
  <2>. QED  BY <2>2, SpecAssumption DEF IInv, TypeInv, TypeOK, Sound, Books, UsedMarks
<1>2. marktbl[ip].mark # 0
  BY <1>1 DEF TypeOK
<1>3. \/ mark_bitmap' = mark_bitmap /\ tcCall' = NoCall
      \/ mark_bitmap' = mark_bitmap \ {marktbl[ip].mark} /\ tcCall' = call
  <2>1. CASE marktbl[ip].count - 1 > 0
    BY <2>1 DEF PutEntry
  <2>2. CASE ~(marktbl[ip].count - 1 > 0)
    BY <1>2, <2>2 DEF PutEntry, free_mark
  <2>. QED  BY <2>1, <2>2
<1>. QED  BY <1>1, <1>3 DEF NoCall

\* The call that goes to tc with each step, action by action.
LEMMA TcStep ==
    ASSUME IInv, IInv', Next, clean, clean', marktbl' # marktbl
    PROVE  /\ UsedMarks' \ UsedMarks # {} =>
                tcCall'.op = "add" /\ UsedMarks' = UsedMarks \union {tcCall'.mark}
           /\ tcCall'.op = "del" =>
                UsedMarks' = UsedMarks \ {tcCall'.mark} /\ UsedMarks' # UsedMarks
<1>. DEFINE Goal ==
        /\ UsedMarks' \ UsedMarks # {} =>
             tcCall'.op = "add" /\ UsedMarks' = UsedMarks \union {tcCall'.mark}
        /\ tcCall'.op = "del" =>
             UsedMarks' = UsedMarks \ {tcCall'.mark} /\ UsedMarks' # UsedMarks
<1>1. /\ TypeOK /\ mark_bitmap = UsedMarks /\ mark_bitmap' = UsedMarks'
  BY DEF IInv, TypeInv, Sound, Books
<1>2. ASSUME NEW ip \in IPs, NEW id \in RuleIds, qmark_alloc_mark_auto(ip, id)
      PROVE  Goal
  <2>1. PICK m : tcCall' = TcAdd(id, m) /\ mark_bitmap' = BitmapWith(id, m)
    BY <1>2 DEF qmark_alloc_mark_auto
  <2>. QED  BY <1>1, <2>1 DEF TcAdd, BitmapWith
<1>3. ASSUME NEW ip \in IPs, ConntrackDestroy(ip)
      PROVE  Goal
  <2>1. ip \in Bound /\ PutEntry(ip, TcDel(marktbl[ip].id, marktbl[ip].mark))
    BY <1>3 DEF ConntrackDestroy
  <2>2. /\ TcDel(marktbl[ip].id, marktbl[ip].mark).op = "del"
        /\ TcDel(marktbl[ip].id, marktbl[ip].mark).mark = marktbl[ip].mark
    BY DEF TcDel
  <2>. QED  BY <2>1, <2>2, TcPutEntry
<1>4. ASSUME NEW ip \in IPs, qmark_del_hash(ip)
      PROVE  Goal
  BY <1>4, TcPutEntry DEF qmark_del_hash, NoCall
<1>5. ASSUME tcCall' = NoCall, UsedMarks' \subseteq UsedMarks
      PROVE  Goal
  BY <1>5 DEF NoCall
<1>6. ASSUME NEW ip \in IPs, ConntrackMark(ip)
      PROVE  Goal
  BY <1>1, <1>5, <1>6 DEF ConntrackMark
<1>7. ASSUME NEW ip \in IPs, NEW id \in RuleIds, NEW m, qmark_add_hash(ip, id, m)
      PROVE  FALSE
  BY <1>7 DEF qmark_add_hash
<1>8. CASE qmark_flush_hash
  BY <1>1, <1>5, <1>8 DEF qmark_flush_hash
<1>9. ASSUME NEW ip_spec \in IpSpecs, qmark_set_spec(ip_spec)
      PROVE  Goal
  BY <1>1, <1>5, <1>9 DEF qmark_set_spec
<1>10. CASE ResetFlush
  BY <1>1, <1>5, <1>10 DEF ResetFlush
<1>11. ASSUME NEW ip, NEW id, AllocMarkAutoFails(ip, id) \/ AllocMarkAutoOops(ip, id)
       PROVE  FALSE
  BY <1>11 DEF AllocMarkAutoFails, AllocMarkAutoOops
<1>12. CASE RuleCommand
  BY <1>12 DEF RuleCommand, qmark_add_rule, qmark_del_rule, qmark_flush_rule
<1>13. CASE MarkCommand
  BY <1>13 DEF MarkCommand, BitmapCommand, qmark_alloc_mark, qmark_free_mark, qmark_flush_mark
<1>14. CASE ResetBegin \/ ResetEnd \/ TcCommand \/ Halted
  BY <1>14 DEF ResetBegin, ResetEnd, TcCommand, Halted, vars
<1>. QED
  BY <1>2, <1>3, <1>4, <1>6, <1>7, <1>8, <1>9, <1>10, <1>11, <1>12, <1>13, <1>14
     DEF Next, Packet, Conntrack, HashCommand, TableCommand

\* The class of a mark is added to tc in the step the mark comes into use, and
\* is deleted, on a removal, only when no address is left in it.
THEOREM TcFollowsMarksHolds == Spec => TcFollowsMarks
<1>1. IInv /\ IInv' /\ [Next]_vars =>
        [ clean /\ clean' /\ marktbl' # marktbl =>
          /\ UsedMarks' \ UsedMarks # {} =>
                tcCall'.op = "add" /\ UsedMarks' = UsedMarks \union {tcCall'.mark}
          /\ tcCall'.op = "del" =>
                UsedMarks' = UsedMarks \ {tcCall'.mark} /\ UsedMarks' # UsedMarks
        ]_vars
  BY TcStep
<1>. QED  BY InvariantHolds, <1>1, PTL DEF Spec, TcFollowsMarks

-----------------------------------------------------------------------------
(* The table implements MarkService: its marks are the classes, its nodes  *)
(* the bindings, and `clean' the promise.                                  *)

Classes == UNION {1..n : n \in IpSpecs}
class == [ip \in IPs |-> marktbl[ip].mark]
ruleof == [ip \in IPs |-> marktbl[ip].id]
shared == {id \in RuleIds : g_ruletbl[id].mode = SHARE_MODE}

ServiceTyped ==
    /\ 1..max_ip_cnt \subseteq Classes
    /\ class \in [IPs -> Classes \union {0}]
    /\ ruleof \in [IPs -> RuleIds \union {0}]
    /\ shared \in SUBSET RuleIds

\* Every mark the table can hold is a class of the abstract service.
LEMMA MarksAreClasses == TypeOK => ServiceTyped
<1>. SUFFICES ASSUME TypeOK PROVE ServiceTyped
  OBVIOUS
<1>1. 1..max_ip_cnt \subseteq Classes
  BY DEF TypeOK, Classes
<1>2. \A ip \in IPs : /\ marktbl[ip].mark \in 0..max_ip_cnt
                      /\ marktbl[ip].id \in RuleIds \union {0}
  <2>1. 0 \in 0..max_ip_cnt
    BY SpecAssumption DEF TypeOK
  <2>. QED  BY <2>1 DEF TypeOK, NoEntry
<1>3. 0..max_ip_cnt \subseteq Classes \union {0}
  BY <1>1, SpecAssumption DEF TypeOK
<1>. QED  BY <1>1, <1>2, <1>3 DEF ServiceTyped, class, ruleof, shared

LEMMA ServiceInit == Init => Service!Init
<1>. SUFFICES ASSUME Init PROVE Service!Init
  OBVIOUS
<1>1. shared = {}
  BY DEF shared, Init, ZeroRule, PRIV_MODE, SHARE_MODE
<1>. QED
  BY <1>1 DEF Service!Init, Service!NoClass, Service!NoRule, Init, NoEntry, shared

\* A step that ends outside the promise.
LEMMA ServiceUnpromised ==
    ASSUME IInv', ~clean', UNCHANGED reset_flag
    PROVE  Service!Unpromised
<1>1. TypeOK'
  BY DEF IInv, TypeInv
<1>2. ServiceTyped'
  BY <1>1, MarksAreClasses, PTL
<1>3. /\ [ip \in IPs |-> marktbl[ip].mark]' \in [IPs -> Classes \union {0}]
      /\ [ip \in IPs |-> marktbl[ip].id]' \in [IPs -> RuleIds \union {0}]
      /\ {id \in RuleIds : g_ruletbl[id].mode = SHARE_MODE}' \in SUBSET RuleIds
  BY <1>2 DEF ServiceTyped, class, ruleof, shared
<1>4. (~reset_flag)' = ~reset_flag
  OBVIOUS
<1>. QED
  BY <1>3, <1>4 DEF Service!Unpromised, Service!NoClass, Service!NoRule, Classes

\* The tables are emptied.
LEMMA ServiceReset ==
    ASSUME IInv', clean', marktbl' = [ip \in IPs |-> NoEntry], UNCHANGED reset_flag
    PROVE  \E new \in SUBSET RuleIds : Service!Reset(new)
<1>1. PICK new : new = shared' /\ new \in SUBSET RuleIds
  BY DEF shared
<1>2. Service!Reset(new)
  BY <1>1 DEF Service!Reset, Service!NoClass, Service!NoRule, NoEntry, shared
<1>. QED  BY <1>1, <1>2

\* A step in which the addresses keep rule and mark, and the rules that have
\* an address their mode.
LEMMA ServiceDeclare ==
    ASSUME IInv, IInv', clean, clean', UNCHANGED reset_flag,
           \A ip \in IPs : /\ marktbl'[ip].id = marktbl[ip].id
                           /\ marktbl'[ip].mark = marktbl[ip].mark,
           \A id \in RuleIds : Holders(id) # {} =>
                                 g_ruletbl'[id].mode = g_ruletbl[id].mode
    PROVE  \E new \in SUBSET RuleIds : Service!Declare(new)
<1>0. PICK new : new = shared' /\ new \in SUBSET RuleIds
  BY DEF shared
<1>1. TypeOK
  BY DEF IInv, TypeInv
<1>2. \A ip \in Bound : g_ruletbl'[marktbl[ip].id].mode = g_ruletbl[marktbl[ip].id].mode
  BY <1>1 DEF Bound, Holders, TypeOK, NoEntry
<1>3. \A ip \in Bound : marktbl[ip].id \in shared <=> marktbl[ip].id \in shared'
  BY <1>2 DEF shared
<1>4. class' = class /\ ruleof' = ruleof
  BY DEF class, ruleof
<1>5. Service!Declare(new)
  BY <1>0, <1>3, <1>4 DEF Service!Declare, Service!Bound, Service!NoRule, Bound,
              class, ruleof, shared
<1>. QED  BY <1>0, <1>5

\* A packet binds its address.
LEMMA ServiceBind ==
    ASSUME IInv, IInv', clean, NEW ip \in IPs, NEW id \in RuleIds,
           qmark_alloc_mark_auto(ip, id)
    PROVE  \E c \in Classes : Service!Bind(ip, id, c)
<1>1. /\ TypeOK /\ TypeOK' /\ ~reset_flag /\ ip \notin Bound
      /\ UNCHANGED <<max_ip_cnt, reset_flag, clean>>
  BY DEF IInv, TypeInv, qmark_alloc_mark_auto, Misses
<1>2. Apart' /\ mark_bitmap' = UsedMarks'
  BY <1>1 DEF IInv, Sound, Books
<1>3. PICK m \in MarkFor(id) :
        /\ HashInsert(ip, id, m)
        /\ g_ruletbl' = [g_ruletbl EXCEPT ![id].mark = RuleMarkWith(id, m),
                                          ![id].count = @ + 1]
  BY DEF qmark_alloc_mark_auto
<1>4. Bound' = Bound \union {ip}
  BY <1>1, <1>3, BoundGrows
<1>5. \A j \in RuleIds : g_ruletbl'[j].mode = g_ruletbl[j].mode
  BY <1>1, <1>3 DEF TypeOK
<1>6. /\ marktbl'[ip].id = id /\ marktbl'[ip].mark = m
      /\ \A p \in IPs : p # ip => marktbl'[p] = marktbl[p]
  BY <1>1, <1>3 DEF HashInsert, TypeOK
<1>7. m \in Classes
  <2>1. m \in UsedMarks'
    BY <1>4, <1>6 DEF UsedMarks
  <2>2. m \in 1..max_ip_cnt
    BY <1>1, <1>2, <2>1 DEF TypeOK
  <2>. QED  BY <1>1, <2>2, MarksAreClasses DEF ServiceTyped
<1>8. \A p \in Bound : marktbl[p].mark = m
                        <=> marktbl[p].id = id /\ id \in shared
  <2>. SUFFICES ASSUME NEW p \in Bound
                PROVE  marktbl[p].mark = m <=> marktbl[p].id = id /\ id \in shared
    OBVIOUS
  <2>1. p \in IPs /\ p # ip /\ p \in Bound' /\ ip \in Bound'
    BY <1>1, <1>4 DEF Bound
  <2>2. marktbl'[p] = marktbl[p]
    BY <1>6, <2>1
  <2>3. marktbl'[ip].mark = marktbl'[p].mark
          <=> /\ marktbl'[ip].id = marktbl'[p].id
              /\ g_ruletbl'[marktbl'[ip].id].mode = SHARE_MODE
    BY <1>2, <2>1 DEF Apart
  <2>. QED  BY <1>5, <1>6, <2>2, <2>3 DEF shared
<1>9. /\ class' = [class EXCEPT ![ip] = m]
      /\ ruleof' = [ruleof EXCEPT ![ip] = id]
      /\ shared' = shared
  BY <1>5, <1>6 DEF class, ruleof, shared
<1>10. Service!Bind(ip, id, m)
  BY <1>1, <1>8, <1>9 DEF Service!Bind, Service!Bound, Service!NoRule, Bound, class,
              ruleof, shared
<1>. QED  BY <1>7, <1>10

\* A reference is put back: the last one releases the address.
LEMMA ServicePutEntry ==
    ASSUME IInv, clean, NEW ip \in Bound, NEW call, PutEntry(ip, call)
    PROVE  \/ Service!Release(ip)
           \/ UNCHANGED <<class, ruleof, shared, reset_flag, clean>>
<1>1. TypeOK /\ ip \in IPs
  BY DEF IInv, TypeInv, Bound
<1>2. marktbl[ip] \in [id : RuleIds, mark : 0..max_ip_cnt, count : Nat]
  BY <1>1 DEF TypeOK, Bound, NoEntry
<1>3. shared' = shared
  <2>1. \A j \in RuleIds : g_ruletbl'[j].mode = g_ruletbl[j].mode
    <3>1. CASE marktbl[ip].count - 1 > 0
      BY <3>1 DEF PutEntry
    <3>2. CASE ~(marktbl[ip].count - 1 > 0) /\ LastOfRule(marktbl[ip].id)
      BY <1>1, <1>2, <3>2 DEF PutEntry, TypeOK
    <3>3. CASE ~(marktbl[ip].count - 1 > 0) /\ ~LastOfRule(marktbl[ip].id)
      BY <1>1, <1>2, <3>3 DEF PutEntry, TypeOK
    <3>. QED  BY <3>1, <3>2, <3>3
  <2>. QED  BY <2>1 DEF shared
<1>4. UNCHANGED <<reset_flag, clean>>
  BY DEF PutEntry
<1>5. CASE marktbl[ip].count - 1 > 0
  <2>1. marktbl' = [marktbl EXCEPT ![ip].count = @ - 1]
    BY <1>5 DEF PutEntry
  <2>2. class' = class /\ ruleof' = ruleof
    BY <1>1, <1>2, <2>1 DEF class, ruleof, TypeOK
  <2>. QED  BY <1>3, <1>4, <2>2
<1>6. CASE ~(marktbl[ip].count - 1 > 0)
  <2>1. marktbl' = [marktbl EXCEPT ![ip] = NoEntry]
    BY <1>6 DEF PutEntry
  <2>2. /\ class' = [class EXCEPT ![ip] = 0]
        /\ ruleof' = [ruleof EXCEPT ![ip] = 0]
    BY <1>1, <2>1 DEF class, ruleof, TypeOK, NoEntry
  <2>. QED
    BY <1>3, <1>4, <2>2 DEF Service!Release, Service!Bound, Service!NoRule,
         Service!NoClass, Bound, class, ruleof, shared
<1>. QED  BY <1>5, <1>6

\* Every step of the table is a step of the service or a stutter, action by
\* action.
LEMMA ServiceStep == IInv /\ IInv' /\ [Next]_vars => [Service!Next]_Service!vars
<1>. DEFINE Same == UNCHANGED <<class, ruleof, shared, reset_flag, clean>>
<1>. SUFFICES ASSUME IInv, IInv', [Next]_vars
              PROVE  [Service!Next]_Service!vars
  OBVIOUS
<1>0. TypeOK /\ TypeOK'
  BY DEF IInv, TypeInv
<1>1. ASSUME Same
      PROVE  UNCHANGED Service!vars
  BY <1>1 DEF Service!vars, class, ruleof, shared
<1>2. ASSUME ~clean', UNCHANGED reset_flag
      PROVE  Service!Next
  BY <1>2, ServiceUnpromised DEF Service!Next
<1>3. ASSUME clean, clean', UNCHANGED reset_flag,
             \A ip \in IPs : /\ marktbl'[ip].id = marktbl[ip].id
                             /\ marktbl'[ip].mark = marktbl[ip].mark,
             \A id \in RuleIds : Holders(id) # {} =>
                                   g_ruletbl'[id].mode = g_ruletbl[id].mode
      PROVE  Service!Next
  <2>1. \E new \in SUBSET RuleIds : Service!Declare(new)
    BY <1>3, ServiceDeclare
  <2>. QED  BY <2>1 DEF Service!Next
<1>4. ASSUME NEW ip \in IPs, NEW id \in RuleIds, qmark_alloc_mark_auto(ip, id)
      PROVE  Service!Next
  <2>1. UNCHANGED <<clean, reset_flag>>
    BY <1>4 DEF qmark_alloc_mark_auto
  <2>2. CASE clean
    <3>1. \E c \in Classes : Service!Bind(ip, id, c)
      BY <1>4, <2>2, ServiceBind
    <3>. QED  BY <3>1 DEF Service!Next, Classes
  <2>3. CASE ~clean
    BY <1>2, <2>1, <2>3
  <2>. QED  BY <2>2, <2>3
<1>5. ASSUME NEW ip \in IPs, NEW id \in RuleIds, AllocMarkAutoFails(ip, id)
      PROVE  Service!Next
  <2>1. UNCHANGED <<marktbl, clean, reset_flag>>
    BY <1>5 DEF AllocMarkAutoFails
  <2>2. \A j \in RuleIds : g_ruletbl'[j].mode = g_ruletbl[j].mode
    BY <1>0, <1>5 DEF AllocMarkAutoFails, TypeOK
  <2>. QED  BY <1>2, <1>3, <2>1, <2>2
<1>6. ASSUME NEW ip \in IPs, NEW id \in RuleIds, AllocMarkAutoOops(ip, id)
      PROVE  Service!Next
  <2>1. panic' /\ UNCHANGED reset_flag
    BY <1>6 DEF AllocMarkAutoOops
  <2>. QED  BY <1>2, <2>1 DEF IInv, Sound
<1>7. ASSUME NEW ip \in IPs, ConntrackMark(ip)
      PROVE  Service!Next
  <2>1. /\ ip \in Bound /\ marktbl' = [marktbl EXCEPT ![ip].count = @ + 1]
        /\ UNCHANGED <<g_ruletbl, clean, reset_flag>>
    BY <1>7 DEF ConntrackMark
  <2>2. marktbl[ip] \in [id : RuleIds, mark : 0..max_ip_cnt, count : Nat]
    BY <1>0, <2>1 DEF TypeOK, Bound, NoEntry
  <2>3. \A p \in IPs : /\ marktbl'[p].id = marktbl[p].id
                      /\ marktbl'[p].mark = marktbl[p].mark
    BY <1>0, <2>1, <2>2 DEF TypeOK
  <2>. QED  BY <1>2, <1>3, <2>1, <2>3
<1>8. ASSUME NEW ip \in Bound, NEW call, PutEntry(ip, call)
      PROVE  [Service!Next]_Service!vars
  <2>1. UNCHANGED <<clean, reset_flag>> /\ ip \in IPs
    BY <1>8 DEF PutEntry, Bound
  <2>2. CASE clean
    BY <1>1, <1>8, <2>1, <2>2, ServicePutEntry DEF Service!Next
  <2>3. CASE ~clean
    BY <1>2, <2>1, <2>3
  <2>. QED  BY <2>2, <2>3
<1>9. ASSUME NEW ip \in IPs, ConntrackDestroy(ip) \/ qmark_del_hash(ip)
      PROVE  [Service!Next]_Service!vars
  BY <1>8, <1>9 DEF ConntrackDestroy, qmark_del_hash
<1>10. ASSUME NEW id \in RuleIds, NEW mode, NEW par, qmark_add_rule(id, mode, par)
       PROVE  Service!Next
  <2>1. /\ g_ruletbl' = [g_ruletbl EXCEPT ![id].mode = mode, ![id].par = par]
        /\ clean' => clean /\ (Holders(id) = {} \/ mode = g_ruletbl[id].mode)
        /\ UNCHANGED <<marktbl, reset_flag>>
    BY <1>10 DEF qmark_add_rule
  <2>2. clean' => \A j \in RuleIds : Holders(j) # {} =>
                                      g_ruletbl'[j].mode = g_ruletbl[j].mode
    BY <1>0, <2>1 DEF TypeOK
  <2>. QED  BY <1>2, <1>3, <2>1, <2>2
<1>11. ASSUME NEW id \in RuleIds, qmark_del_rule(id)
       PROVE  Service!Next
  <2>1. /\ g_ruletbl' = [g_ruletbl EXCEPT ![id] = ZeroRule]
        /\ clean' => clean /\ Holders(id) = {}
        /\ UNCHANGED <<marktbl, reset_flag>>
    BY <1>11 DEF qmark_del_rule
  <2>2. clean' => \A j \in RuleIds : Holders(j) # {} =>
                                      g_ruletbl'[j].mode = g_ruletbl[j].mode
    BY <1>0, <2>1 DEF TypeOK
  <2>. QED  BY <1>2, <1>3, <2>1, <2>2
<1>12. CASE qmark_flush_rule
  <2>1. (clean' => clean /\ Bound = {}) /\ UNCHANGED <<marktbl, reset_flag>>
    BY <1>12 DEF qmark_flush_rule
  <2>2. Bound = {} => \A j \in RuleIds : Holders(j) = {}
    BY DEF Bound, Holders, RuleIds
  <2>. QED  BY <1>2, <1>3, <2>1, <2>2
<1>13. ASSUME NEW ip \in IPs, NEW id \in RuleIds, NEW m, qmark_add_hash(ip, id, m)
       PROVE  Service!Next
  BY <1>2, <1>13 DEF qmark_add_hash
<1>14. CASE qmark_flush_hash
  <2>1. /\ marktbl' = [ip \in IPs |-> NoEntry]
        /\ clean' => clean /\ Bound = {}
        /\ UNCHANGED <<g_ruletbl, reset_flag>>
    BY <1>14 DEF qmark_flush_hash
  <2>2. clean' => marktbl' = marktbl
    BY <1>0, <2>1 DEF Bound, TypeOK, RuleIds
  <2>. QED  BY <1>2, <1>3, <2>1, <2>2
<1>15. CASE BitmapCommand
  <2>1. (clean' => clean) /\ UNCHANGED <<g_ruletbl, marktbl, reset_flag>>
    BY <1>15 DEF BitmapCommand
  <2>. QED  BY <1>2, <1>3, <2>1
<1>16. CASE qmark_alloc_mark \/ qmark_flush_mark \/ \E m \in 0..max_ip_cnt : qmark_free_mark(m)
  BY <1>15, <1>16 DEF qmark_alloc_mark, qmark_flush_mark, qmark_free_mark
<1>17. ASSUME NEW ip_spec \in IpSpecs, qmark_set_spec(ip_spec)
       PROVE  Service!Next
  <2>1. \E new \in SUBSET RuleIds : Service!Reset(new)
    BY <1>17, ServiceReset DEF qmark_set_spec
  <2>. QED  BY <2>1 DEF Service!Next
<1>18. CASE ResetFlush
  <2>1. \E new \in SUBSET RuleIds : Service!Reset(new)
    BY <1>18, ServiceReset DEF ResetFlush
  <2>. QED  BY <2>1 DEF Service!Next
<1>19. CASE ResetBegin \/ ResetEnd
  <2>1. UNCHANGED <<marktbl, g_ruletbl, clean>> /\ reset_flag' \in BOOLEAN
    BY <1>19 DEF ResetBegin, ResetEnd
  <2>2. Service!SetOpen((~reset_flag)')
    BY <2>1 DEF Service!SetOpen
  <2>. QED  BY <2>1, <2>2 DEF Service!Next
<1>20. CASE TcCommand \/ UNCHANGED vars
  BY <1>1, <1>20 DEF TcCommand, vars, class, ruleof, shared
<1>. QED
  BY <1>4, <1>5, <1>6, <1>7, <1>9, <1>10, <1>11, <1>12, <1>13, <1>14, <1>16,
     <1>17, <1>18, <1>19, <1>20
     DEF Next, Packet, Conntrack, RuleCommand, HashCommand, MarkCommand,
         TableCommand, Halted

\* The table is a correct MarkService for every number of addresses, rules and
\* marks: with the packets, events and commands of the code it only ever makes
\* the moves the service allows.
THEOREM ServiceImplemented == Spec => ImplementsService
<1>. QED  BY InvariantHolds, ServiceInit, ServiceStep, PTL
             DEF Spec, ImplementsService, Service!Spec

=============================================================================
