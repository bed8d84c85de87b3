--------------------------- MODULE RechargeProofs ---------------------------
(***************************************************************************)
(* Proofs about Recharge for every set of orders, agents, keys and         *)
(* settlements, any number of handlers at a time, and either isolation.    *)
(***************************************************************************)
EXTENDS Recharge, SumFacts, TLAPS

-----------------------------------------------------------------------------
\* The invariant.  Each part speaks of any tables, so that it can be asked of
\* those a transaction has seen as well as of those there are.

\* A record is of an order that exists.
OfOrders(ord, rec) == \A r \in DOMAIN rec : r \in RecordNos /\ r[2] \in DOMAIN ord

OriginalsOK(rec) ==
  \A r \in DOMAIN rec : r[1] = "COM" =>
    /\ {"status", "from"} \subseteq DOMAIN rec[r]
    /\ rec[r].from = None /\ rec[r].status \in {"settled", "reversed"}

\* A reversal names the original in its place, which is marked.
ReversalsName(rec) ==
  \A r \in DOMAIN rec : r[1] # "COM" =>
    LET original == <<"COM", r[2], r[3]>>
    IN  rec[r].from = original /\ original \in DOMAIN rec /\ rec[original].status = "reversed"

\* An original that is marked has a reversal, of a refund or a recalculation.
ReversedOnce(rec) ==
  \A r \in DOMAIN rec : r[1] = "COM" =>
    /\ rec[r].status = "reversed" =>
         <<"COM-R", r[2], r[3]>> \in DOMAIN rec \/ <<"COM-RC", r[2], r[3]>> \in DOMAIN rec
    /\ ~(<<"COM-R", r[2], r[3]>> \in DOMAIN rec /\ <<"COM-RC", r[2], r[3]>> \in DOMAIN rec)

\* The numbers of an order's originals begin at 1, so that a second settlement
\* would need a number in use; and they are taken back together.
Together(rec) ==
  \A r \in DOMAIN rec : r[1] = "COM" =>
    /\ <<"COM", r[2], 1>> \in DOMAIN rec
    /\ \A q \in DOMAIN rec : q[1] = "COM" /\ q[2] = r[2] => rec[q].status = rec[r].status

RefundedKeepsNone(ord, rec) ==
  \A r \in DOMAIN rec : r[1] = "COM" /\ ord[r[2]].status = "refunded" => rec[r].status = "reversed"

RecordsOK(ord, rec) ==
  /\ OfOrders(ord, rec) /\ OriginalsOK(rec) /\ ReversalsName(rec)
  /\ ReversedOnce(rec) /\ Together(rec) /\ RefundedKeepsNone(ord, rec)

\* What a transaction has seen is still there: of the orders it saw, the very
\* originals it saw, though they may have been taken back since.
SeenStands(seen) ==
  /\ RecordsOK(seen.order, seen.record)
  /\ DOMAIN seen.order \subseteq DOMAIN order
  /\ DOMAIN seen.record \subseteq DOMAIN record
  /\ \A r \in DOMAIN record : r[1] = "COM" /\ r[2] \in DOMAIN seen.order => r \in DOMAIN seen.record

\* Where others may write in between, nothing is recalculated.
NoRecalculation ==
  /\ \A r \in DOMAIN record : r[1] # "COM-RC"
  /\ \A x \in DOMAIN handlers : handlers[x].op # "recalculate"

IInv ==
  /\ setting \in Settings /\ ~RecalculatesOnSnapshot
  /\ RecordsOK(order, record)
  /\ \A x \in DOMAIN handlers : handlers[x].order \in Orders
  /\ setting.isolation = "snapshot" =>
       NoRecalculation /\ \A x \in DOMAIN handlers : SeenStands(handlers[x].seen)

-----------------------------------------------------------------------------
\* Record numbers and the tables they are keys of.

LEMMA RecordNo ==
    /\ \A r \in RecordNos : /\ r = <<r[1], r[2], r[3]>> /\ r[1] \in {"COM", "COM-R", "COM-RC"}
                            /\ r[2] \in Orders /\ r[3] \in Nat \ {0}
    /\ \A kind \in {"COM", "COM-R", "COM-RC"}, o \in Orders, n \in Nat \ {0} :
         <<kind, o, n>> \in RecordNos
  BY DEF RecordNos

LEMMA NoneOutside == None \notin RecordNos
  BY RechargeAssumption DEF RecordNos

LEMMA PlacesOf ==
    ASSUME NEW table, DOMAIN table \subseteq RecordNos, NEW o \in Orders
    PROVE  /\ Places(table, o) \subseteq Nat \ {0}
           /\ \A n : n \in Places(table, o) <=> <<"COM", o, n>> \in DOMAIN table
  <1>1. Places(table, o) \subseteq Nat \ {0}
    BY RecordNo DEF Places
  <1>2. ASSUME NEW n \in Places(table, o) PROVE <<"COM", o, n>> \in DOMAIN table
    <2>1. PICK q \in DOMAIN table : q[1] = "COM" /\ q[2] = o /\ n = q[3]
      BY <1>2 DEF Places
    <2>2. q = <<"COM", o, n>>
      BY <2>1, RecordNo
    <2>3. QED BY <2>1, <2>2
  <1>3. ASSUME NEW n, <<"COM", o, n>> \in DOMAIN table PROVE n \in Places(table, o)
    <2> DEFINE q == <<"COM", o, n>>
    <2>1. q \in DOMAIN table /\ q[1] = "COM" /\ q[2] = o /\ q[3] = n
      BY <1>3
    <2>2. QED BY <2>1 DEF Places
  <1>4. QED BY <1>1, <1>2, <1>3

\* What a settlement inserts: originals numbered from 1.  (callback.go:344-366)
LEMMA SettledRowsFacts ==
    ASSUME NEW t, t.order \in Orders, NEW s \in Settlements \cup {<<>>}
    PROVE  \A r \in DOMAIN SettledRows(t, s) :
             /\ r \in RecordNos /\ r[1] = "COM" /\ r[2] = t.order
             /\ <<"COM", t.order, 1>> \in DOMAIN SettledRows(t, s)
             /\ {"status", "from"} \subseteq DOMAIN SettledRows(t, s)[r]
             /\ SettledRows(t, s)[r].status = "settled" /\ SettledRows(t, s)[r].from = None
  <1>1. s \in Seq([agent : Agents, amount : Nat \ {0}])
    <2>1. CASE s \in Settlements
      BY <2>1, RechargeAssumption, Zenon
    <2>2. CASE s = <<>>
      BY <2>2
    <2>3. QED BY <2>1, <2>2
  <1>2. DOMAIN s \subseteq Nat \ {0} /\ (DOMAIN s # {} => 1 \in DOMAIN s)
    BY <1>1
  <1>3. DOMAIN SettledRows(t, s) = {<<"COM", t.order, n>> : n \in DOMAIN s}
    BY DEF SettledRows, Numbers
  <1>4. ASSUME NEW r \in DOMAIN SettledRows(t, s)
        PROVE /\ {"status", "from"} \subseteq DOMAIN SettledRows(t, s)[r]
              /\ SettledRows(t, s)[r].status = "settled" /\ SettledRows(t, s)[r].from = None
    BY <1>4 DEF SettledRows
  <1>5. ASSUME NEW r \in DOMAIN SettledRows(t, s)
        PROVE /\ r \in RecordNos /\ r[1] = "COM" /\ r[2] = t.order
              /\ <<"COM", t.order, 1>> \in DOMAIN SettledRows(t, s)
    <2>1. PICK n \in DOMAIN s : r = <<"COM", t.order, n>>
      BY <1>3
    <2>2. QED BY <2>1, <1>2, <1>3, RecordNo
  <1>6. QED BY <1>4, <1>5

-----------------------------------------------------------------------------
\* The two ways the records change, and how a refund changes an order.

\* From the first tables to the second, an order gets these new originals.
Settles(ord, rec, ord2, rec2, new, o) ==
  /\ o \in Orders /\ o \in DOMAIN ord2 /\ DOMAIN ord \subseteq DOMAIN ord2
  /\ \A p \in DOMAIN ord : ord2[p].status = ord[p].status
  /\ ord2[o].status # "refunded"
  /\ \A r \in new : /\ r \in RecordNos /\ r[1] = "COM" /\ r[2] = o
                    /\ <<"COM", o, 1>> \in new
  /\ new \cap DOMAIN rec = {} /\ DOMAIN rec2 = new \cup DOMAIN rec
  /\ \A r \in DOMAIN rec : rec2[r] = rec[r]
  /\ \A r \in new : /\ {"status", "from"} \subseteq DOMAIN rec2[r]
                    /\ rec2[r].from = None /\ rec2[r].status = "settled"

\* An order that has originals cannot get any.
LEMMA SettlingKeeps ==
    ASSUME NEW ord, NEW rec, NEW ord2, NEW rec2, NEW new, NEW o,
           RecordsOK(ord, rec), Settles(ord, rec, ord2, rec2, new, o)
    PROVE  RecordsOK(ord2, rec2)
  <1> USE DEF RecordsOK, Settles
  <1>1. ASSUME NEW r \in DOMAIN rec, NEW q \in new, r[1] = "COM" PROVE r[2] # o
    BY <1>1 DEF Together
  <1>2. OfOrders(ord2, rec2)
    BY DEF OfOrders
  <1>3. OriginalsOK(rec2)
    BY DEF OriginalsOK
  <1>4. ReversalsName(rec2)
    BY DEF ReversalsName
  <1>5. ReversedOnce(rec2)
    <2>1. ASSUME NEW r \in new
          PROVE <<"COM-R", r[2], r[3]>> \notin DOMAIN rec2 /\ <<"COM-RC", r[2], r[3]>> \notin DOMAIN rec2
      <3>1. \A kind \in {"COM-R", "COM-RC"} : <<kind, r[2], r[3]>> \in DOMAIN rec => r \in DOMAIN rec
        <4> SUFFICES ASSUME NEW kind \in {"COM-R", "COM-RC"}, <<kind, r[2], r[3]>> \in DOMAIN rec
                     PROVE  r \in DOMAIN rec
          OBVIOUS
        <4> DEFINE q == <<kind, r[2], r[3]>>
        <4>1. q[1] # "COM" /\ q[2] = r[2] /\ q[3] = r[3]
          OBVIOUS
        <4>2. <<"COM", r[2], r[3]>> \in DOMAIN rec
          BY <4>1 DEF ReversalsName
        <4>3. QED BY <4>2, <2>1, RecordNo
      <3>2. QED BY <3>1, <2>1
    <2>2. QED BY <2>1 DEF ReversedOnce
  <1>6. Together(rec2)
    BY <1>1 DEF Together
  <1>7. RefundedKeepsNone(ord2, rec2)
    BY DEF RefundedKeepsNone, OfOrders
  <1>8. QED BY <1>2, <1>3, <1>4, <1>5, <1>6, <1>7

\* From the first tables to the second, an order's originals are all taken
\* back, by reversals of one kind.
TakesBack(ord, rec, ord2, rec2, back, o, kind) ==
  /\ o \in Orders /\ kind \in {"COM-R", "COM-RC"} /\ DOMAIN ord \subseteq DOMAIN ord2
  /\ \A p \in DOMAIN ord \ {o} : ord2[p].status = ord[p].status
  /\ back = {r \in DOMAIN rec : r[1] = "COM" /\ r[2] = o}
  /\ \A r \in back : rec[r].status = "settled"
  /\ DOMAIN rec2 = DOMAIN rec \cup {<<kind, o, r[3]>> : r \in back}
  /\ \A r \in DOMAIN rec \ back : rec2[r] = rec[r]
  /\ \A r \in back : /\ {"status", "from"} \subseteq DOMAIN rec2[r]
                     /\ rec2[r].from = None /\ rec2[r].status = "reversed"
                     /\ rec2[<<kind, o, r[3]>>].from = r

LEMMA TakingBackKeeps ==
    ASSUME NEW ord, NEW rec, NEW ord2, NEW rec2, NEW back, NEW o, NEW kind,
           RecordsOK(ord, rec), TakesBack(ord, rec, ord2, rec2, back, o, kind)
    PROVE  RecordsOK(ord2, rec2)
  <1> USE DEF RecordsOK, TakesBack
  <1>1. \A r \in back : /\ r = <<"COM", o, r[3]>> /\ r[3] \in Nat \ {0}
                        /\ <<kind, o, r[3]>> \in RecordNos
    BY RecordNo DEF OfOrders
  <1>2. \A r \in back : /\ <<"COM-R", o, r[3]>> \notin DOMAIN rec
                        /\ <<"COM-RC", o, r[3]>> \notin DOMAIN rec
    <2> SUFFICES ASSUME NEW r \in back, NEW k \in {"COM-R", "COM-RC"}, <<k, o, r[3]>> \in DOMAIN rec
                 PROVE  FALSE
      OBVIOUS
    <2> DEFINE q == <<k, o, r[3]>>
    <2>1. q \in DOMAIN rec /\ q[1] # "COM" /\ q[2] = o /\ q[3] = r[3]
      OBVIOUS
    <2>2. rec[<<"COM", o, r[3]>>].status = "reversed"
      BY <2>1 DEF ReversalsName
    <2>3. QED BY <2>2, <1>1
  <1> DEFINE added == {<<kind, o, r[3]>> : r \in back}
  <1>3. \A v \in DOMAIN rec2 : v \in DOMAIN rec \/ (\E r \in back : v = <<kind, o, r[3]>>)
    OBVIOUS
  <1>4. \A v \in added : v[1] = kind /\ v[2] = o /\ \E r \in back : v[3] = r[3]
    OBVIOUS
  <1>5. OfOrders(ord2, rec2)
    BY <1>1, <1>3 DEF OfOrders
  <1>originals. ASSUME NEW r \in DOMAIN rec2, r[1] = "COM"
                PROVE  /\ r \in DOMAIN rec
                       /\ r[2] = o => /\ {"status", "from"} \subseteq DOMAIN rec2[r]
                                      /\ rec2[r].from = None /\ rec2[r].status = "reversed"
                       /\ r[2] # o => rec2[r] = rec[r]
    <2>1. r \in DOMAIN rec
      BY <1>3, <1>originals
    <2>2. QED BY <2>1, <1>originals
  <1>6. OriginalsOK(rec2)
    BY ONLY <1>originals, RecordsOK(ord, rec) DEF OriginalsOK, RecordsOK
  <1>7. ReversalsName(rec2)
    <2> SUFFICES ASSUME NEW v \in DOMAIN rec2, v[1] # "COM"
                 PROVE  /\ rec2[v].from = <<"COM", v[2], v[3]>> /\ <<"COM", v[2], v[3]>> \in DOMAIN rec2
                        /\ rec2[<<"COM", v[2], v[3]>>].status = "reversed"
      BY DEF ReversalsName
    <2>1. CASE v \in DOMAIN rec
      BY <2>1 DEF ReversalsName
    <2>2. CASE \E r \in back : v = <<kind, o, r[3]>>
      <3>1. PICK r \in back : v = <<kind, o, r[3]>>
        BY <2>2
      <3>2. r = <<"COM", v[2], v[3]>>
        BY <3>1, <1>1
      <3>3. QED BY <3>1, <3>2
    <2>3. QED BY <2>1, <2>2, <1>3
  <1>8. ReversedOnce(rec2)
    <2> SUFFICES ASSUME NEW r \in DOMAIN rec2, r[1] = "COM"
                 PROVE  /\ rec2[r].status = "reversed" =>
                             \/ <<"COM-R", r[2], r[3]>> \in DOMAIN rec2
                             \/ <<"COM-RC", r[2], r[3]>> \in DOMAIN rec2
                        /\ ~(/\ <<"COM-R", r[2], r[3]>> \in DOMAIN rec2
                             /\ <<"COM-RC", r[2], r[3]>> \in DOMAIN rec2)
      BY DEF ReversedOnce
    <2>1. r \in DOMAIN rec
      BY <1>3
    <2>2. CASE r \in back
      BY <2>2, <1>1, <1>2, <1>3
    <2>3. CASE r \notin back
      <3>1. r[2] # o
        BY <2>1, <2>3
      <3>2. \A k \in {"COM-R", "COM-RC"} : <<k, r[2], r[3]>> \in DOMAIN rec2 => <<k, r[2], r[3]>> \in DOMAIN rec
        BY <3>1, <1>3
      <3>3. QED BY <2>1, <2>3, <3>2 DEF ReversedOnce
    <2>4. QED BY <2>2, <2>3
  <1>9. Together(rec2)
    <2>1. DOMAIN rec \subseteq DOMAIN rec2
      BY ONLY TakesBack(ord, rec, ord2, rec2, back, o, kind) DEF TakesBack
    <2>2. QED BY ONLY <1>originals, <2>1, RecordsOK(ord, rec) DEF Together, RecordsOK
  <1>10. RefundedKeepsNone(ord2, rec2)
    <2>1. \A p \in DOMAIN ord \ {o} : ord2[p].status = ord[p].status
      BY ONLY TakesBack(ord, rec, ord2, rec2, back, o, kind) DEF TakesBack
    <2>2. QED BY ONLY <1>originals, <2>1, RecordsOK(ord, rec)
               DEF RefundedKeepsNone, OfOrders, RecordsOK
  <1>11. QED BY <1>5, <1>6, <1>7, <1>8, <1>9, <1>10

\* An order whose originals are all taken back is marked.
LEMMA MarkingKeeps ==
    ASSUME NEW ord, NEW rec, NEW ord2, NEW o \in Orders, RecordsOK(ord, rec),
           DOMAIN ord \subseteq DOMAIN ord2, \A p \in DOMAIN ord \ {o} : ord2[p].status = ord[p].status,
           \A r \in DOMAIN rec : r[1] = "COM" /\ r[2] = o => rec[r].status = "reversed"
    PROVE  RecordsOK(ord2, rec)
  BY DEF RecordsOK, OfOrders, RefundedKeepsNone

LEMMA SameRecords ==
    ASSUME NEW ord, NEW rec, NEW rec2, RecordsOK(ord, rec),
           DOMAIN rec2 = DOMAIN rec, \A r \in DOMAIN rec : rec2[r] = rec[r]
    PROVE  RecordsOK(ord, rec2)
  <1>1. OfOrders(ord, rec2) /\ OriginalsOK(rec2)
    BY DEF RecordsOK, OfOrders, OriginalsOK
  <1>2. ReversalsName(rec2)
    BY DEF RecordsOK, ReversalsName
  <1>3. ReversedOnce(rec2)
    BY DEF RecordsOK, ReversedOnce
  <1>4. Together(rec2) /\ RefundedKeepsNone(ord, rec2)
    BY DEF RecordsOK, Together, RefundedKeepsNone
  <1>5. QED BY <1>1, <1>2, <1>3, <1>4 DEF RecordsOK

-----------------------------------------------------------------------------
\* The property, and what a transaction may rely on.

LEMMA InvImplies == IInv => CommissionTakenBack
  <1> SUFFICES ASSUME IInv, NEW r \in DOMAIN record, r[1] = "COM"
               PROVE  /\ r[2] \in DOMAIN order
                      /\ order[r[2]].status = "refunded" => record[r].status = "reversed"
                      /\ record[r].status = "reversed" <=> \E v \in DOMAIN record : record[v].from = r
                      /\ \A v, w \in DOMAIN record : record[v].from = r /\ record[w].from = r => v = w
    BY DEF CommissionTakenBack
  <1> USE DEF IInv, RecordsOK
  <1>1. r \in RecordNos /\ r = <<"COM", r[2], r[3]>> /\ r # None
    BY RecordNo, NoneOutside DEF OfOrders
  <1>2. ASSUME NEW v \in DOMAIN record, record[v].from = r
        PROVE  v = <<"COM-R", r[2], r[3]>> \/ v = <<"COM-RC", r[2], r[3]>>
    <2>1. v \in RecordNos /\ v = <<v[1], v[2], v[3]>> /\ v[1] \in {"COM", "COM-R", "COM-RC"}
      BY RecordNo DEF OfOrders
    <2>2. v[1] # "COM"
      BY <1>1, <1>2 DEF OriginalsOK
    <2>3. r = <<"COM", v[2], v[3]>>
      BY <1>2, <2>2 DEF ReversalsName
    <2>4. v[2] = r[2] /\ v[3] = r[3]
      BY <2>3
    <2>5. QED BY <2>1, <2>2, <2>4
  <1>3. ASSUME NEW kind \in {"COM-R", "COM-RC"}, <<kind, r[2], r[3]>> \in DOMAIN record
        PROVE  record[<<kind, r[2], r[3]>>].from = r /\ record[r].status = "reversed"
    <2> DEFINE v == <<kind, r[2], r[3]>>
    <2>1. v \in DOMAIN record /\ v[1] # "COM" /\ v[2] = r[2] /\ v[3] = r[3]
      BY <1>3
    <2>2. QED BY <1>1, <2>1 DEF ReversalsName
  <1>4. r[2] \in DOMAIN order /\ (order[r[2]].status = "refunded" => record[r].status = "reversed")
    BY DEF OfOrders, RefundedKeepsNone
  <1>5. record[r].status = "reversed" => \E v \in DOMAIN record : record[v].from = r
    BY <1>3 DEF ReversedOnce
  <1>6. (\E v \in DOMAIN record : record[v].from = r) => record[r].status = "reversed"
    BY <1>2, <1>3
  <1>7. ASSUME NEW v \in DOMAIN record, NEW w \in DOMAIN record, record[v].from = r, record[w].from = r
        PROVE  v = w
    <2>1. ~(<<"COM-R", r[2], r[3]>> \in DOMAIN record /\ <<"COM-RC", r[2], r[3]>> \in DOMAIN record)
      BY DEF ReversedOnce
    <2>2. (v = <<"COM-R", r[2], r[3]>> \/ v = <<"COM-RC", r[2], r[3]>>)
          /\ (w = <<"COM-R", r[2], r[3]>> \/ w = <<"COM-RC", r[2], r[3]>>)
      BY <1>2, <1>7
    <2>3. QED BY <2>1, <2>2
  <1>8. QED BY <1>4, <1>5, <1>6, <1>7

LEMMA Isolation == IInv => setting.isolation \in {"serial", "snapshot"}
  BY RechargeAssumption DEF IInv

\* What a transaction that can write has seen stands, on either database.
LEMMA WritableStands ==
    ASSUME IInv, NEW x \in DOMAIN handlers, Writable(handlers[x])
    PROVE  /\ SeenStands(handlers[x].seen)
           /\ setting.isolation = "serial" =>
                handlers[x].seen.order = order /\ handlers[x].seen.record = record
  <1>1. CASE setting.isolation = "serial"
    <2>1. handlers[x].seen = Tables
      BY <1>1 DEF Writable
    <2>2. handlers[x].seen.order = order /\ handlers[x].seen.record = record
      BY <2>1 DEF Tables
    <2>3. QED BY <2>2 DEF SeenStands, IInv, RecordsOK, OfOrders
  <1>2. CASE setting.isolation = "snapshot"
    BY <1>2 DEF IInv
  <1>3. QED BY <1>1, <1>2, Isolation

\* A transaction that ends leaves the invariant if its records are right and
\* what it inserts is not of an order another has seen.
LEMMA EndKeeps ==
    ASSUME IInv, NEW x, End(x), setting' = setting, RecordsOK(order', record'),
           DOMAIN order \subseteq DOMAIN order', DOMAIN record \subseteq DOMAIN record',
           setting.isolation = "snapshot" =>
             \A r \in DOMAIN record' \ DOMAIN record :
               r[1] # "COM-RC" /\ (r[1] = "COM" => r[2] \notin DOMAIN order)
    PROVE  IInv'
  <1>1. \A y \in DOMAIN handlers' : y \in DOMAIN handlers /\ handlers'[y] = handlers[y]
    BY DEF End
  <1>2. ASSUME setting.isolation = "snapshot" PROVE NoRecalculation'
    BY <1>1, <1>2 DEF IInv, NoRecalculation
  <1>3. ASSUME setting.isolation = "snapshot", NEW y \in DOMAIN handlers'
        PROVE  SeenStands(handlers[y].seen)'
    <2>1. SeenStands(handlers[y].seen)
      BY <1>1, <1>3 DEF IInv
    <2>2. QED BY <1>1, <1>3, <2>1 DEF SeenStands
  <1>4. QED BY <1>1, <1>2, <1>3 DEF IInv, RecalculatesOnSnapshot

-----------------------------------------------------------------------------
\* The steps.

LEMMA InitHolds == Init /\ ~RecalculatesOnSnapshot => IInv
  BY DEF Init, IInv, RecordsOK, OfOrders, OriginalsOK, ReversalsName, ReversedOnce, Together,
         RefundedKeepsNone, NoRecalculation

LEMMA BeginHolds ==
    ASSUME IInv, NEW x, NEW op, NEW o \in Orders, NEW key, Begin(x, op, o, key)
    PROVE  IInv'
  <1> DEFINE t == [op |-> op, order |-> o, key |-> key, seen |-> Tables]
  <1>1. /\ setting' = setting /\ order' = order /\ record' = record
        /\ DOMAIN handlers' = DOMAIN handlers \cup {x} /\ handlers'[x] = t
        /\ \A y \in DOMAIN handlers : y # x /\ handlers'[y] = handlers[y]
    BY DEF Begin, tables, Put
  <1>2. setting' \in Settings /\ RecordsOK(order', record')
    BY <1>1 DEF IInv
  <1>3. \A y \in DOMAIN handlers' : handlers'[y].order \in Orders
    BY <1>1 DEF IInv
  <1>4. ASSUME setting.isolation = "snapshot" PROVE NoRecalculation'
    <2>1. op # "recalculate"
      BY <1>4 DEF Begin, IInv, RecalculatesOnSnapshot
    <2>2. QED BY <1>1, <1>4, <2>1 DEF IInv, NoRecalculation
  <1>5. ASSUME setting.isolation = "snapshot", NEW y \in DOMAIN handlers'
        PROVE  SeenStands(handlers[y].seen)'
    <2>1. CASE y = x
      <3>1. handlers'[y].seen.order = order /\ handlers'[y].seen.record = record
        BY <1>1, <2>1 DEF Tables
      <3>2. QED BY <1>1, <3>1 DEF SeenStands, IInv, RecordsOK, OfOrders
    <2>2. CASE y # x
      <3>1. y \in DOMAIN handlers /\ handlers'[y] = handlers[y]
        BY <1>1, <2>2
      <3>2. SeenStands(handlers[y].seen)
        BY <1>5, <3>1 DEF IInv
      <3>3. QED BY <1>1, <3>1, <3>2 DEF SeenStands
    <2>3. QED BY <2>1, <2>2
  <1>6. QED BY <1>1, <1>2, <1>3, <1>4, <1>5 DEF IInv, RecalculatesOnSnapshot

LEMMA UnchangedHolds ==
    ASSUME IInv, NEW x, End(x), UNCHANGED <<setting, order, record>>
    PROVE  IInv'
  BY EndKeeps DEF IInv

LEMMA PayOrderHolds ==
    ASSUME IInv, NEW x, PayOrder(x)
    PROVE  IInv'
  <1> DEFINE t == handlers[x]
             o == t.order
  <1>1. x \in DOMAIN handlers /\ o \in Orders
    BY DEF PayOrder, At, IInv
  <1>2. PICK bound \in BOOLEAN, s \in Settlements \cup {<<>>} :
          /\ DOMAIN SettledRows(t, s) \cap DOMAIN record = {}
          /\ order' = Put(order, o, [key |-> t.key, status |-> "paid", bound |-> bound])
          /\ record' = Inserted(SettledRows(t, s), record)
    BY DEF PayOrder
  <1> DEFINE new == DOMAIN SettledRows(t, s)
  <1>3. \A r \in new : /\ r \in RecordNos /\ r[1] = "COM" /\ r[2] = o /\ <<"COM", o, 1>> \in new
                       /\ {"status", "from"} \subseteq DOMAIN SettledRows(t, s)[r]
                       /\ SettledRows(t, s)[r].status = "settled" /\ SettledRows(t, s)[r].from = None
    BY <1>1, SettledRowsFacts
  <1>4. /\ DOMAIN record' = new \cup DOMAIN record
        /\ \A r \in new : record'[r] = SettledRows(t, s)[r]
        /\ \A r \in DOMAIN record : record'[r] = record[r]
    <2> HIDE DEF t, o
    <2>1. new \cap DOMAIN record = {} /\ record' = Inserted(SettledRows(t, s), record)
      BY <1>2
    <2>2. QED BY ONLY <2>1 DEF Inserted, new
  <1>5. /\ o \notin DOMAIN order /\ o \in DOMAIN order' /\ DOMAIN order \subseteq DOMAIN order'
        /\ \A p \in DOMAIN order : order'[p].status = order[p].status
        /\ order'[o].status # "refunded"
    BY <1>2 DEF PayOrder, Put
  <1>6. RecordsOK(order', record')
    <2> HIDE DEF new, o
    <2>1. RecordsOK(order, record)
      BY DEF IInv
    <2>2. \A r \in new : /\ {"status", "from"} \subseteq DOMAIN record'[r]
                         /\ record'[r].from = None /\ record'[r].status = "settled"
      BY <1>3, <1>4
    <2>3. new \cap DOMAIN record = {}
      BY <1>2 DEF new
    <2>4. Settles(order, record, order', record', new, o)
      BY ONLY <1>1, <1>3, <1>4, <1>5, <2>2, <2>3 DEF Settles
    <2>5. QED BY ONLY <2>1, <2>4, SettlingKeeps
  <1>7. \A r \in DOMAIN record' \ DOMAIN record : r[1] = "COM" /\ r[2] \notin DOMAIN order
    BY <1>3, <1>4, <1>5
  <1>8. End(x) /\ setting' = setting
    BY DEF PayOrder
  <1>9. QED BY <1>4, <1>5, <1>6, <1>7, <1>8, EndKeeps

\* Seeing a reversal, a transaction knows that all is taken back.
LEMMA MarkRefundedHolds ==
    ASSUME IInv, NEW x, MarkRefunded(x)
    PROVE  IInv'
  <1> DEFINE t == handlers[x]
             o == t.order
  <1>1. x \in DOMAIN handlers /\ o \in Orders /\ Writable(t) /\ SeesReversal(t) /\ o \in DOMAIN t.seen.order
    BY DEF MarkRefunded, At, IInv, Refundable
  <1>2. SeenStands(t.seen)
    BY <1>1, WritableStands
  <1>3. PICK v \in DOMAIN t.seen.record : v[2] = o /\ t.seen.record[v].from # None
    BY <1>1 DEF SeesReversal
  <1>4. v[1] # "COM" /\ v \in DOMAIN record
    BY <1>2, <1>3 DEF SeenStands, RecordsOK, OriginalsOK
  <1>5. <<"COM", o, v[3]>> \in DOMAIN record /\ record[<<"COM", o, v[3]>>].status = "reversed"
    BY <1>3, <1>4 DEF IInv, RecordsOK, ReversalsName
  <1>6. \A r \in DOMAIN record : r[1] = "COM" /\ r[2] = o => record[r].status = "reversed"
    <2> DEFINE q == <<"COM", o, v[3]>>
    <2>1. q \in DOMAIN record /\ q[1] = "COM" /\ q[2] = o /\ record[q].status = "reversed"
      BY <1>5
    <2>2. QED BY <2>1 DEF IInv, RecordsOK, Together
  <1>7. /\ DOMAIN order' = DOMAIN order
        /\ \A p \in DOMAIN order \ {o} : order'[p].status = order[p].status
    BY DEF MarkRefunded, SetRefunded
  <1>8. record' = record /\ End(x) /\ setting' = setting
    BY DEF MarkRefunded
  <1>9. RecordsOK(order', record')
    BY <1>1, <1>6, <1>7, <1>8, MarkingKeeps DEF IInv
  <1>10. QED BY <1>7, <1>8, <1>9, EndKeeps

\* The rows of a reversal are inserted, the originals at these places being
\* all there are, and settled.
Reverses(t, kind, places, rec2, ord2) ==
  /\ kind \in {"COM-R", "COM-RC"} /\ t.order \in Orders /\ DOMAIN t.seen.record \subseteq RecordNos
  /\ places = Places(record, t.order) /\ places = Places(t.seen.record, t.order)
  /\ \A n \in places : /\ record[<<"COM", t.order, n>>].status = "settled"
                       /\ "from" \in DOMAIN t.seen.record[<<"COM", t.order, n>>]
                       /\ <<kind, t.order, n>> \notin DOMAIN record
  /\ rec2 = Inserted(Reversals(t, kind, places), Inserted(Marked(t, places), record))
  /\ DOMAIN order \subseteq DOMAIN ord2
  /\ \A p \in DOMAIN order \ {t.order} : ord2[p].status = order[p].status

LEMMA ReversedRows ==
    ASSUME NEW t, NEW kind, NEW places, NEW rec2, NEW ord2,
           RecordsOK(order, record), Reverses(t, kind, places, rec2, ord2)
    PROVE  /\ RecordsOK(ord2, rec2)
           /\ DOMAIN rec2 = DOMAIN record \cup {<<kind, t.order, n>> : n \in places}
           /\ \A r \in DOMAIN record : r[2] # t.order => rec2[r] = record[r]
  <1> USE DEF Reverses
  <1> DEFINE o == t.order
             back == {r \in DOMAIN record : r[1] = "COM" /\ r[2] = o}
             originals == {<<"COM", o, n>> : n \in places}
             reversals == {<<kind, o, n>> : n \in places}
  <1>1. DOMAIN record \subseteq RecordNos
    BY DEF RecordsOK, OfOrders
  <1>2. \A n : n \in places <=> <<"COM", o, n>> \in DOMAIN record
    BY <1>1, PlacesOf
  <1>3. \A r \in back : r = <<"COM", o, r[3]>> /\ r[3] \in places
    BY <1>1, <1>2, RecordNo
  <1>4. \A n \in places : <<"COM", o, n>> \in back
    <2> SUFFICES ASSUME NEW n \in places PROVE <<"COM", o, n>> \in back
      OBVIOUS
    <2> DEFINE r == <<"COM", o, n>>
    <2>1. r \in DOMAIN record /\ r[1] = "COM" /\ r[2] = o
      BY <1>2
    <2>2. QED BY <2>1
  <1>5. back = originals
    BY <1>3, <1>4
  <1>6. {<<kind, o, r[3]>> : r \in back} = reversals
    <2>1. \A r \in back : <<kind, o, r[3]>> \in reversals
      BY <1>3
    <2>2. ASSUME NEW n \in places PROVE <<kind, o, n>> \in {<<kind, o, r[3]>> : r \in back}
      <3> DEFINE r == <<"COM", o, n>>
      <3>1. r \in back /\ r[3] = n
        BY <1>4
      <3>2. QED BY <3>1
    <2>3. QED BY <2>1, <2>2
  <1> DEFINE revs == Reversals(t, kind, places)
             marked == Marked(t, places)
             mid == Inserted(marked, record)
  <1>7. DOMAIN revs = reversals /\ DOMAIN marked = originals
    BY DEF Reversals, Marked
  <1>8. \A n \in places : revs[<<kind, o, n>>].from = <<"COM", o, n>>
    <2> SUFFICES ASSUME NEW n \in places PROVE revs[<<kind, o, n>>].from = <<"COM", o, n>>
      OBVIOUS
    <2> DEFINE v == <<kind, o, n>>
               original == <<"COM", o, n>>
    <2>1. v \in reversals /\ v[3] = n
      OBVIOUS
    <2>2. revs[v] = [t.seen.record[original] EXCEPT !.amount = -@, !.status = "reversed", !.from = original]
      BY <2>1 DEF Reversals
    <2>3. "from" \in DOMAIN t.seen.record[original]
      OBVIOUS
    <2>4. QED BY <2>2, <2>3
  <1>9. \A r \in back : /\ {"status", "from"} \subseteq DOMAIN marked[r]
                        /\ marked[r].status = "reversed" /\ marked[r].from = None
    <2> SUFFICES ASSUME NEW r \in back
                 PROVE  /\ {"status", "from"} \subseteq DOMAIN marked[r]
                        /\ marked[r].status = "reversed" /\ marked[r].from = None
      OBVIOUS
    <2>1. {"status", "from"} \subseteq DOMAIN record[r] /\ record[r].from = None
      BY DEF RecordsOK, OriginalsOK
    <2>2. marked[r] = [record[r] EXCEPT !.status = "reversed"]
      BY <1>5, <1>7 DEF Marked
    <2>3. QED BY <2>1, <2>2
  <1>10. /\ DOMAIN mid = DOMAIN record
         /\ \A r \in back : mid[r] = marked[r]
         /\ \A r \in DOMAIN record \ back : mid[r] = record[r]
    <2> HIDE DEF back, marked
    <2>1. DOMAIN marked = back /\ back \subseteq DOMAIN record
      BY <1>5, <1>7 DEF back
    <2>2. QED BY ONLY <2>1 DEF Inserted
  <1>11. /\ DOMAIN rec2 = DOMAIN record \cup reversals
         /\ \A r \in DOMAIN record : rec2[r] = mid[r]
         /\ \A v \in reversals : rec2[v] = revs[v]
    <2> HIDE DEF revs, mid, reversals
    <2>1. rec2 = Inserted(revs, mid) /\ DOMAIN revs = reversals /\ DOMAIN mid = DOMAIN record
      BY <1>7, <1>10 DEF revs, mid
    <2>2. reversals \cap DOMAIN record = {}
      BY DEF reversals
    <2>3. QED BY ONLY <2>1, <2>2 DEF Inserted
  <1>12. \A r \in back : record[r].status = "settled"
    BY <1>3
  <1>13. \A r \in back : rec2[<<kind, o, r[3]>>].from = r
    <2> HIDE DEF back, reversals, revs
    <2> SUFFICES ASSUME NEW r \in back PROVE rec2[<<kind, o, r[3]>>].from = r
      OBVIOUS
    <2>1. r = <<"COM", o, r[3]>> /\ r[3] \in places
      BY <1>3
    <2>2. <<kind, o, r[3]>> \in reversals
      BY <1>6
    <2>3. revs[<<kind, o, r[3]>>].from = <<"COM", o, r[3]>>
      BY <1>8, <2>1
    <2>4. QED BY <1>11, <2>1, <2>2, <2>3
  <1>14. TakesBack(order, record, ord2, rec2, back, o, kind)
    <2> HIDE DEF marked, revs, mid
    <2>1. \A r \in DOMAIN record \ back : rec2[r] = record[r]
      BY <1>10, <1>11
    <2>2. \A r \in back : /\ {"status", "from"} \subseteq DOMAIN rec2[r]
                          /\ rec2[r].from = None /\ rec2[r].status = "reversed"
      BY <1>9, <1>10, <1>11
    <2>3. DOMAIN rec2 = DOMAIN record \cup {<<kind, o, r[3]>> : r \in back}
      BY <1>6, <1>11
    <2>4. QED BY <1>12, <1>13, <2>1, <2>2, <2>3 DEF TakesBack
  <1>15. RecordsOK(ord2, rec2)
    BY ONLY <1>14, TakingBackKeeps, RecordsOK(order, record)
  <1>16. \A r \in DOMAIN record : r[2] # o => rec2[r] = record[r]
    BY <1>10, <1>11
  <1>17. QED BY <1>11, <1>15, <1>16

\* A refund that sees no reversal finds all originals settled, or all taken
\* back by another refund since, and then does nothing.
LEMMA ReverseOrderHolds ==
    ASSUME IInv, NEW x, ReverseOrder(x)
    PROVE  IInv'
  <1> DEFINE t == handlers[x]
             o == t.order
             taken == {n \in Settled(t) : <<"COM-R", o, n>> \in DOMAIN record}
             done == {n \in Settled(t) : \A m \in taken : n < m}
  <1>1. /\ x \in DOMAIN handlers /\ o \in Orders /\ Writable(t) /\ ~SeesReversal(t)
        /\ o \in DOMAIN t.seen.order /\ End(x) /\ setting' = setting
        /\ record' = Inserted(Reversals(t, "COM-R", done), Inserted(Marked(t, done), record))
        /\ IF taken = {} THEN SetRefunded(o) ELSE order' = order
    BY DEF ReverseOrder, At, IInv, Refundable
  <1> HIDE DEF t
  <1>2. /\ SeenStands(t.seen)
        /\ setting.isolation = "serial" => t.seen.order = order /\ t.seen.record = record
    BY <1>1, WritableStands DEF t
  <1>3. RecordsOK(order, record) /\ RecordsOK(t.seen.order, t.seen.record)
    BY <1>2 DEF IInv, SeenStands
  <1>4. DOMAIN record \subseteq RecordNos /\ DOMAIN t.seen.record \subseteq RecordNos
    BY <1>3 DEF RecordsOK, OfOrders
  <1>5. /\ Places(record, o) \subseteq Nat \ {0}
        /\ \A n : n \in Places(record, o) <=> <<"COM", o, n>> \in DOMAIN record
        /\ \A n : n \in Places(t.seen.record, o) <=> <<"COM", o, n>> \in DOMAIN t.seen.record
    BY <1>1, <1>4, PlacesOf
  <1>6. Places(record, o) = Places(t.seen.record, o)
    <2>1. ASSUME NEW n \in Places(record, o) PROVE n \in Places(t.seen.record, o)
      <3> DEFINE r == <<"COM", o, n>>
      <3>1. r \in DOMAIN record /\ r[1] = "COM" /\ r[2] = o
        BY <1>5, <2>1
      <3>2. r \in DOMAIN t.seen.record
        BY <1>1, <1>2, <3>1 DEF SeenStands
      <3>3. QED BY <1>5, <3>2
    <2>2. ASSUME NEW n \in Places(t.seen.record, o) PROVE n \in Places(record, o)
      BY <1>2, <1>5, <2>2 DEF SeenStands
    <2>3. QED BY <2>1, <2>2
  <1>7. ASSUME NEW v \in DOMAIN t.seen.record, v[2] = o PROVE v[1] = "COM"
    <2>1. t.seen.record[v].from = None
      BY <1>1, <1>7 DEF SeesReversal
    <2>2. <<"COM", v[2], v[3]>> \in RecordNos
      BY <1>4, RecordNo
    <2>3. QED BY <1>3, <2>1, <2>2, NoneOutside DEF RecordsOK, ReversalsName
  <1>8. ASSUME NEW n \in Places(t.seen.record, o)
        PROVE  /\ t.seen.record[<<"COM", o, n>>].status = "settled"
               /\ "from" \in DOMAIN t.seen.record[<<"COM", o, n>>]
    <2> DEFINE r == <<"COM", o, n>>
    <2>1. r \in DOMAIN t.seen.record /\ r[1] = "COM" /\ r[2] = o /\ r[3] = n
      BY <1>5, <1>8
    <2>2. ASSUME NEW kind \in {"COM-R", "COM-RC"} PROVE <<kind, o, n>> \notin DOMAIN t.seen.record
      <3> DEFINE v == <<kind, o, n>>
      <3>1. v[1] # "COM" /\ v[2] = o
        OBVIOUS
      <3>2. QED BY <1>7, <3>1
    <2>3. t.seen.record[r].status # "reversed"
      BY <1>3, <2>1, <2>2 DEF RecordsOK, ReversedOnce
    <2>4. QED BY <1>3, <2>1, <2>3 DEF RecordsOK, OriginalsOK
  <1>9. Settled(t) = Places(record, o)
    BY <1>6, <1>8 DEF Settled
  <1>10. \A n \in Places(record, o) : <<"COM-RC", o, n>> \notin DOMAIN record
    <2> SUFFICES ASSUME NEW n \in Places(record, o), <<"COM-RC", o, n>> \in DOMAIN record PROVE FALSE
      OBVIOUS
    <2> DEFINE v == <<"COM-RC", o, n>>
    <2>1. v[1] = "COM-RC" /\ v[2] = o
      OBVIOUS
    <2>2. CASE setting.isolation = "serial"
      BY <1>2, <1>7, <2>1, <2>2
    <2>3. CASE setting.isolation = "snapshot"
      BY <2>1, <2>3 DEF IInv, NoRecalculation
    <2>4. QED BY <2>2, <2>3, Isolation
  <1>11. CASE taken = {}
    <2>1. done = Places(record, o)
      BY <1>9, <1>11
    <2>2. \A n \in Places(record, o) : <<"COM-R", o, n>> \notin DOMAIN record
      BY <1>9, <1>11
    <2>3. ASSUME NEW n \in Places(record, o) PROVE record[<<"COM", o, n>>].status = "settled"
      <3> DEFINE r == <<"COM", o, n>>
      <3>1. r \in DOMAIN record /\ r[1] = "COM" /\ r[2] = o /\ r[3] = n
        BY <1>5, <2>3
      <3>2. record[r].status # "reversed"
        BY <1>3, <1>10, <2>2, <2>3, <3>1 DEF RecordsOK, ReversedOnce
      <3>3. QED BY <1>3, <3>1, <3>2 DEF RecordsOK, OriginalsOK
    <2>4. DOMAIN order' = DOMAIN order /\ \A p \in DOMAIN order \ {o} : order'[p].status = order[p].status
      BY <1>1, <1>11 DEF SetRefunded
    <2> DEFINE places == Places(record, o)
    <2>5. record' = Inserted(Reversals(t, "COM-R", places), Inserted(Marked(t, places), record))
      BY <1>1, <2>1
    <2>6. /\ RecordsOK(order', record')
          /\ DOMAIN record' = DOMAIN record \cup {<<"COM-R", o, n>> : n \in places}
      <3> HIDE DEF places
      <3>1. places = Places(record, t.order) /\ places = Places(t.seen.record, t.order)
        BY <1>6 DEF places
      <3>2. \A n \in places : /\ record[<<"COM", t.order, n>>].status = "settled"
                              /\ "from" \in DOMAIN t.seen.record[<<"COM", t.order, n>>]
                              /\ <<"COM-R", t.order, n>> \notin DOMAIN record
        BY <1>6, <1>8, <2>2, <2>3 DEF places
      <3>3. Reverses(t, "COM-R", places, record', order')
        BY ONLY <1>1, <1>4, <2>4, <2>5, <3>1, <3>2 DEF Reverses
      <3>4. QED BY ONLY <1>3, <3>3, ReversedRows
    <2>7. \A v \in DOMAIN record' \ DOMAIN record : v[1] = "COM-R"
      BY <2>6
    <2>8. QED BY <1>1, <2>4, <2>6, <2>7, EndKeeps
  <1>12. CASE taken # {}
    <2>1. PICK m \in Settled(t) : <<"COM-R", o, m>> \in DOMAIN record
      BY <1>12
    <2> DEFINE q == <<"COM", o, m>>
    <2>2. q \in DOMAIN record /\ q[1] = "COM" /\ q[2] = o /\ record[q].status = "reversed"
      <3> DEFINE v == <<"COM-R", o, m>>
      <3>1. v \in DOMAIN record /\ v[1] # "COM" /\ v[2] = o /\ v[3] = m
        BY <2>1
      <3>2. QED BY <1>3, <3>1 DEF RecordsOK, ReversalsName
    <2>3. ASSUME NEW n \in Settled(t) PROVE n \in taken
      <3> DEFINE r == <<"COM", o, n>>
      <3>1. r \in DOMAIN record /\ r[1] = "COM" /\ r[2] = o /\ r[3] = n
        BY <1>5, <1>9
      <3>2. record[r].status = "reversed"
        BY <1>3, <2>2, <3>1 DEF RecordsOK, Together
      <3>3. QED BY <1>3, <1>9, <1>10, <3>1, <3>2 DEF RecordsOK, ReversedOnce
    <2>4. Settled(t) \subseteq Nat
      BY <1>5, <1>9
    <2>5. done = {}
      <3> SUFFICES ASSUME NEW n \in done PROVE FALSE
        OBVIOUS
      <3>1. n \in Settled(t) /\ \A k \in taken : n < k
        OBVIOUS
      <3>2. n \in taken
        BY <2>3, <3>1
      <3>3. n < n
        BY ONLY <3>1, <3>2
      <3>4. n \in Nat
        BY ONLY <2>4, <3>1
      <3>5. QED BY ONLY <3>3, <3>4
    <2>6. DOMAIN Reversals(t, "COM-R", {}) = {} /\ DOMAIN Marked(t, {}) = {}
      BY DEF Reversals, Marked
    <2>7. DOMAIN record' = DOMAIN record /\ \A r \in DOMAIN record : record'[r] = record[r]
      <3>1. record' = Inserted(Reversals(t, "COM-R", {}), Inserted(Marked(t, {}), record))
        BY <1>1, <2>5
      <3>2. QED BY ONLY <2>6, <3>1 DEF Inserted
    <2>8. order' = order
      BY <1>1, <1>12
    <2>9. RecordsOK(order', record')
      BY ONLY <1>3, <2>7, <2>8, SameRecords
    <2>10. QED BY <1>1, <2>7, <2>8, <2>9, EndKeeps
  <1>13. QED BY <1>11, <1>12

\* A recalculation takes back what is settled; the new settlement is then of
\* an order that never had any.
LEMMA RecalculateHolds ==
    ASSUME IInv, NEW x, Recalculate(x)
    PROVE  IInv'
  <1> DEFINE t == handlers[x]
             o == t.order
             back == Settled(t)
             rows == Reversals(t, "COM-RC", back)
             mid == Inserted(rows, Inserted(Marked(t, back), record))
  <1>1. /\ x \in DOMAIN handlers /\ t.op = "recalculate" /\ o \in Orders /\ Writable(t)
        /\ o \in DOMAIN t.seen.order /\ t.seen.order[o].status = "paid"
        /\ DOMAIN rows \cap DOMAIN record = {} /\ order' = order
        /\ End(x) /\ setting' = setting
    BY DEF Recalculate, At, IInv
  <1>2. PICK s \in Settlements \cup {<<>>} :
          /\ DOMAIN SettledRows(t, s) \cap DOMAIN record = {}
          /\ record' = Inserted(SettledRows(t, s), mid)
    BY DEF Recalculate
  <1>3. setting.isolation = "serial"
    BY <1>1, Isolation DEF IInv, NoRecalculation
  <1>4. t.seen.order = order /\ t.seen.record = record
    BY <1>1, <1>3, WritableStands
  <1>5. RecordsOK(order, record) /\ o \in DOMAIN order /\ order[o].status = "paid"
    BY <1>1, <1>4 DEF IInv
  <1> HIDE DEF t, o, back, rows, mid
  <1>6. DOMAIN record \subseteq RecordNos
    BY <1>5 DEF RecordsOK, OfOrders
  <1>7. /\ Places(record, o) \subseteq Nat \ {0}
        /\ \A n : n \in Places(record, o) <=> <<"COM", o, n>> \in DOMAIN record
    BY <1>1, <1>6, PlacesOf
  <1>8. back = {n \in Places(record, o) : record[<<"COM", o, n>>].status = "settled"}
    BY <1>4 DEF Settled, back, o
  <1>9. /\ RecordsOK(order, mid) /\ DOMAIN record \subseteq DOMAIN mid
        /\ \A v \in DOMAIN mid \ DOMAIN record : v[1] = "COM-RC"
    <2>1. CASE back = {}
      <3>1. mid = Inserted(Reversals(t, "COM-RC", {}), Inserted(Marked(t, {}), record))
        BY <2>1 DEF mid, rows
      <3>2. DOMAIN Reversals(t, "COM-RC", {}) = {} /\ DOMAIN Marked(t, {}) = {}
        BY DEF Reversals, Marked
      <3>3. DOMAIN mid = DOMAIN record /\ \A r \in DOMAIN record : mid[r] = record[r]
        BY ONLY <3>1, <3>2 DEF Inserted
      <3>4. RecordsOK(order, mid)
        BY ONLY <1>5, <3>3, SameRecords
      <3>5. QED BY <3>3, <3>4
    <2>2. CASE back # {}
      <3>1. PICK m \in Places(record, o) : record[<<"COM", o, m>>].status = "settled"
        BY <1>8, <2>2
      <3> DEFINE q == <<"COM", o, m>>
      <3>2. q \in DOMAIN record /\ q[1] = "COM" /\ q[2] = o /\ record[q].status = "settled"
        BY <1>7, <3>1
      <3>3. ASSUME NEW n \in Places(record, o)
            PROVE  /\ record[<<"COM", o, n>>].status = "settled"
                   /\ "from" \in DOMAIN record[<<"COM", o, n>>]
        <4> DEFINE r == <<"COM", o, n>>
        <4>1. r \in DOMAIN record /\ r[1] = "COM" /\ r[2] = o
          BY <1>7, <3>3
        <4>2. record[r].status = record[q].status
          BY ONLY <1>5, <3>2, <4>1 DEF RecordsOK, Together
        <4>3. QED BY <1>5, <3>2, <4>1, <4>2 DEF RecordsOK, OriginalsOK
      <3>4. back = Places(record, o)
        BY <1>8, <3>3
      <3> DEFINE places == Places(record, o)
      <3>5. mid = Inserted(Reversals(t, "COM-RC", places), Inserted(Marked(t, places), record))
        BY <3>4 DEF mid, rows
      <3>6. DOMAIN rows = {<<"COM-RC", o, n>> : n \in places}
        BY <3>4 DEF rows, Reversals, o
      <3>7. \A n \in places : <<"COM-RC", o, n>> \notin DOMAIN record
        BY <1>1, <3>6
      <3>8. /\ RecordsOK(order, mid)
            /\ DOMAIN mid = DOMAIN record \cup {<<"COM-RC", o, n>> : n \in places}
        <4> HIDE DEF places
        <4>1. places = Places(record, t.order) /\ places = Places(t.seen.record, t.order)
          BY <1>4 DEF places, o
        <4>2. t.order \in Orders /\ DOMAIN t.seen.record \subseteq RecordNos
          BY <1>1, <1>4, <1>6 DEF o
        <4>3. \A n \in places : /\ record[<<"COM", t.order, n>>].status = "settled"
                                /\ "from" \in DOMAIN t.seen.record[<<"COM", t.order, n>>]
                                /\ <<"COM-RC", t.order, n>> \notin DOMAIN record
          BY <1>4, <3>3, <3>7 DEF places, o
        <4>4. /\ DOMAIN order \subseteq DOMAIN order'
              /\ \A p \in DOMAIN order \ {t.order} : order'[p].status = order[p].status
          BY <1>1
        <4>5. Reverses(t, "COM-RC", places, mid, order')
          BY ONLY <3>5, <4>1, <4>2, <4>3, <4>4 DEF Reverses
        <4>6. RecordsOK(order', mid)
              /\ DOMAIN mid = DOMAIN record \cup {<<"COM-RC", t.order, n>> : n \in places}
          BY ONLY <1>5, <4>5, ReversedRows
        <4>7. QED BY <1>1, <4>6 DEF o
      <3>9. \A v \in DOMAIN mid \ DOMAIN record : v[1] = "COM-RC"
        BY <3>8
      <3>10. QED BY <3>8, <3>9
    <2>3. QED BY <2>1, <2>2
  <1> DEFINE new == DOMAIN SettledRows(t, s)
  <1>10. \A r \in new : /\ r \in RecordNos /\ r[1] = "COM" /\ r[2] = o /\ <<"COM", o, 1>> \in new
                        /\ {"status", "from"} \subseteq DOMAIN SettledRows(t, s)[r]
                        /\ SettledRows(t, s)[r].status = "settled" /\ SettledRows(t, s)[r].from = None
    BY <1>1, SettledRowsFacts DEF o
  <1>11. new \cap DOMAIN mid = {}
    BY <1>2, <1>9, <1>10
  <1>12. /\ DOMAIN record' = new \cup DOMAIN mid
         /\ \A r \in new : record'[r] = SettledRows(t, s)[r]
         /\ \A r \in DOMAIN mid : record'[r] = mid[r]
    BY ONLY <1>2, <1>11 DEF Inserted
  <1>13. Settles(order, mid, order, record', new, o)
    <2> HIDE DEF new
    <2>1. \A r \in new : /\ {"status", "from"} \subseteq DOMAIN record'[r]
                         /\ record'[r].from = None /\ record'[r].status = "settled"
      BY <1>10, <1>12
    <2>2. QED BY ONLY <1>1, <1>5, <1>10, <1>11, <1>12, <2>1 DEF Settles
  <1>14. RecordsOK(order, record')
    BY ONLY <1>9, <1>13, SettlingKeeps
  <1>15. QED BY <1>1, <1>3, <1>9, <1>12, <1>14, EndKeeps

LEMMA StepHolds == IInv /\ [Next]_vars => IInv'
  <1> SUFFICES ASSUME IInv, [Next]_vars PROVE IInv'
    OBVIOUS
  <1>1. ASSUME NEW x \in Handlers, NEW op \in {"paid", "refund"}, NEW o \in Orders,
               NEW key \in CallbackKeys \cup {NoKey}, Begin(x, op, o, key)
        PROVE  IInv'
    BY <1>1, BeginHolds
  <1>2. ASSUME NEW x \in Handlers, NEW o \in Orders, Begin(x, "recalculate", o, NoKey) PROVE IInv'
    BY <1>2, BeginHolds
  <1>3. ASSUME NEW x \in Handlers, AnswerDuplicate(x) PROVE IInv'
    BY <1>3, UnchangedHolds DEF AnswerDuplicate, tables
  <1>4. ASSUME NEW x \in Handlers, PayOrder(x) PROVE IInv'
    BY <1>4, PayOrderHolds
  <1>5. ASSUME NEW x \in Handlers, MarkRefunded(x) PROVE IInv'
    BY <1>5, MarkRefundedHolds
  <1>6. ASSUME NEW x \in Handlers, ReverseOrder(x) PROVE IInv'
    BY <1>6, ReverseOrderHolds
  <1>7. ASSUME NEW x \in Handlers, Recalculate(x) PROVE IInv'
    BY <1>7, RecalculateHolds
  <1>8. ASSUME NEW x \in Handlers, Fail(x) PROVE IInv'
    BY <1>8, UnchangedHolds DEF Fail, tables
  <1>9. ASSUME UNCHANGED <<setting, order, record, handlers>> PROVE IInv'
    BY <1>9 DEF IInv, RecalculatesOnSnapshot, NoRecalculation, SeenStands
  <1>10. ASSUME NEW a \in Agents, PayOut(a) PROVE IInv'
    BY <1>9, <1>10 DEF PayOut
  <1>11. CASE UNCHANGED vars
    BY <1>9, <1>11 DEF vars, tables
  <1>12. QED BY <1>1, <1>2, <1>3, <1>4, <1>5, <1>6, <1>7, <1>8, <1>10, <1>11 DEF Next

-----------------------------------------------------------------------------
\* A refunded order keeps no commission and every commission is taken back at
\* most once, by one record that names it, however callbacks, their
\* repetitions and recalculations interleave, in every behaviour but those that
\* recalculate on a database that gives each transaction a snapshot: there the
\* code does not keep it.  (callback.go:113-150, 436-545;
\* recalculation/service.go:316-428)
THEOREM TakenBackOnce == Spec /\ ~RecalculatesOnSnapshot => []CommissionTakenBack
  <1>1. Init /\ ~RecalculatesOnSnapshot => IInv
    BY InitHolds
  <1>2. IInv /\ [Next]_vars => IInv'
    BY StepHolds
  <1>3. IInv => CommissionTakenBack
    BY InvImplies
  <1>4. QED BY <1>1, <1>2, <1>3, PTL DEF Spec

-----------------------------------------------------------------------------
\* The books: what the records say the agents were given, what the ledger says
\* was written off, and the balances.  Each part again speaks of any tables, so
\* that a transaction may be taken in two: what it takes back, what it gives.

RecordsTyped(rec) ==
  /\ IsFiniteSet(DOMAIN rec) /\ DOMAIN rec \subseteq RecordNos
  /\ \A r \in DOMAIN rec :
       /\ rec[r] \in Record
       /\ IF r[1] = "COM" THEN rec[r].from = None /\ rec[r].amount > 0
          ELSE rec[r].from # None /\ rec[r].amount < 0

JournalTyped(jour) ==
  /\ IsFiniteSet(DOMAIN jour) /\ DOMAIN jour \subseteq LedgerKeys
  /\ \A k \in DOMAIN jour : jour[k] \in LedgerRow

\* The record a ledger row was inserted with.
RecordOf(k) ==
  <<CASE k[1] = "LEDGER" -> "COM" [] k[1] = "LEDGER-R" -> "COM-R" [] OTHER -> "COM-RC", k[2], k[3]>>

\* No ledger key is in use whose record is not: new rows have new keys.
JournalFollows(rec, jour) == \A k \in DOMAIN jour : RecordOf(k) \in DOMAIN rec

\* An order gives no agent two commissions, so that one row says what a
\* transaction does to a balance.
OneEach(rec) ==
  \A q, r \in DOMAIN rec :
    q[1] = "COM" /\ r[1] = "COM" /\ q[2] = r[2] /\ rec[q].agent = rec[r].agent => q = r

Books(rec, jour) ==
  RecordsTyped(rec) /\ JournalTyped(jour) /\ JournalFollows(rec, jour) /\ OneEach(rec)

Of(rec, a) == {r \in DOMAIN rec : rec[r].agent = a}
Recorded(rec, a) == SumFunctionOnSet([r \in DOMAIN rec |-> rec[r].amount], Of(rec, a))
OffBy(jour, k) == jour[k].after - jour[k].before - jour[k].amount
Off(jour, a) == SumFunctionOnSet([k \in DOMAIN jour |-> OffBy(jour, k)], Of(jour, a))
Explained(rec, jour, held, a) == held[a] + paidOut[a] - Off(jour, a) = Recorded(rec, a)

Carries(k, row) ==
  \/ row.after = row.before + row.amount
  \/ k[1] = "LEDGER-R" /\ row.after = 0 /\ row.before + row.amount < 0

TablesTyped(seen) ==
  /\ DOMAIN seen.order \subseteq Orders /\ \A o \in DOMAIN seen.order : seen.order[o] \in Order
  /\ RecordsTyped(seen.record)
  /\ seen.balance \in [Agents -> Int]

BooksInv ==
  /\ DOMAIN order \subseteq Orders /\ \A o \in DOMAIN order : order[o] \in Order
  /\ balance \in [Agents -> Int] /\ paidOut \in [Agents -> Nat]
  /\ events \subseteq {"recharge.paid", "recharge.refunded"} \X Orders
  /\ Books(record, journal)
  /\ \A x \in DOMAIN handlers : /\ x \in Handlers /\ handlers[x].order \in Orders
                                /\ handlers[x].key \in CallbackKeys \cup {NoKey}
                                /\ TablesTyped(handlers[x].seen)
  /\ setting.isolation = "serial" =>
       /\ \A k \in DOMAIN journal : Carries(k, journal[k])
       /\ \A a \in Agents : Explained(record, journal, balance, a)

LEMMA BooksImply == IInv /\ BooksInv => RechargeTypeOK /\ BalanceExplained
  <1> SUFFICES ASSUME IInv, BooksInv PROVE RechargeTypeOK /\ BalanceExplained
    OBVIOUS
  <1>1. RechargeTypeOK
    BY DEF RechargeTypeOK, IInv, BooksInv, Books, RecordsTyped, JournalTyped
  <1>2. ASSUME NEW k \in DOMAIN journal, Carries(k, journal[k]) PROVE CarriesAmount(k)
    BY <1>2 DEF Carries, CarriesAmount
  <1>3. ASSUME NEW a, Explained(record, journal, balance, a)
        PROVE  balance[a] + paidOut[a] - WrittenOff(a)
                 = SumFunctionOnSet([r \in DOMAIN record |-> record[r].amount],
                                    {r \in DOMAIN record : record[r].agent = a})
    BY <1>3 DEF Explained, WrittenOff, Off, OffBy, Of, Recorded
  <1>4. BalanceExplained
    <2> SUFFICES ASSUME setting.isolation = "serial"
                 PROVE  /\ \A k \in DOMAIN journal : CarriesAmount(k)
                        /\ \A a \in Agents :
                             balance[a] + paidOut[a] - WrittenOff(a)
                               = SumFunctionOnSet([r \in DOMAIN record |-> record[r].amount],
                                                  {r \in DOMAIN record : record[r].agent = a})
      BY DEF BalanceExplained
    <2>1. \A k \in DOMAIN journal : Carries(k, journal[k])
      BY DEF BooksInv
    <2>2. \A a \in Agents : Explained(record, journal, balance, a)
      BY DEF BooksInv
    <2>3. QED BY <1>2, <1>3, <2>1, <2>2
  <1>5. QED BY <1>1, <1>4

-----------------------------------------------------------------------------
\* Sums over the rows of an agent, when rows are inserted.

LEMMA InsertedFacts ==
    ASSUME NEW rows, NEW table
    PROVE  /\ DOMAIN Inserted(rows, table) = DOMAIN rows \cup DOMAIN table
           /\ \A k \in DOMAIN rows : Inserted(rows, table)[k] = rows[k]
           /\ \A k \in DOMAIN table : k \notin DOMAIN rows => Inserted(rows, table)[k] = table[k]
  BY DEF Inserted

\* From rec to rec2 rows are inserted, and no agent or amount changes.
LEMMA RecordedAdds ==
    ASSUME NEW rec, NEW rec2, NEW a, RecordsTyped(rec), RecordsTyped(rec2),
           DOMAIN rec \subseteq DOMAIN rec2,
           \A r \in DOMAIN rec : rec2[r].agent = rec[r].agent /\ rec2[r].amount = rec[r].amount
    PROVE  /\ Recorded(rec, a) \in Int
           /\ (\A r \in DOMAIN rec2 \ DOMAIN rec : rec2[r].agent # a)
                => Recorded(rec2, a) = Recorded(rec, a)
           /\ \A n \in DOMAIN rec2 \ DOMAIN rec :
                /\ rec2[n].agent = a
                /\ \A r \in DOMAIN rec2 \ DOMAIN rec : rec2[r].agent = a => r = n
                => Recorded(rec2, a) = Recorded(rec, a) + rec2[n].amount
  <1> DEFINE S == Of(rec, a)
             S2 == Of(rec2, a)
             f == [r \in DOMAIN rec |-> rec[r].amount]
             f2 == [r \in DOMAIN rec2 |-> rec2[r].amount]
  <1>1. IsFiniteSet(S) /\ IsFiniteSet(S2)
    BY FS_Subset DEF Of, RecordsTyped
  <1>2. /\ \A r \in S : f[r] \in Int /\ f2[r] = f[r]
        /\ \A r \in S2 : f2[r] \in Int
    BY DEF Of, RecordsTyped, Record
  <1>3. SumFunctionOnSet(f2, S) = SumFunctionOnSet(f, S) /\ SumFunctionOnSet(f, S) \in Int
    <2> HIDE DEF S, f, f2
    <2>1. \A r \in S : f2[r] = f[r] /\ f[r] \in Int
      BY <1>2
    <2>2. QED BY <1>1, <2>1, SumSame, SumInt
  <1>4. ASSUME \A r \in DOMAIN rec2 \ DOMAIN rec : rec2[r].agent # a
        PROVE  S2 = S
    BY <1>4 DEF Of
  <1>5. ASSUME NEW n \in DOMAIN rec2 \ DOMAIN rec, rec2[n].agent = a,
               \A r \in DOMAIN rec2 \ DOMAIN rec : rec2[r].agent = a => r = n
        PROVE  SumFunctionOnSet(f2, S2) = SumFunctionOnSet(f2, S) + rec2[n].amount
    <2>1. S2 = S \cup {n} /\ n \notin S /\ f2[n] = rec2[n].amount
      BY <1>5 DEF Of
    <2>2. \A r \in S \cup {n} : f2[r] \in Int
      BY <1>2, <2>1
    <2> HIDE DEF S, S2, f2
    <2>3. SumFunctionOnSet(f2, S \cup {n}) = SumFunctionOnSet(f2, S) + f2[n]
      BY <1>1, <2>1, <2>2, SumPutIn
    <2>4. QED BY <2>1, <2>3
  <1>6. Recorded(rec, a) = SumFunctionOnSet(f, S) /\ Recorded(rec2, a) = SumFunctionOnSet(f2, S2)
    BY DEF Recorded
  <1> HIDE DEF S, S2, f, f2
  <1>7. QED BY <1>3, <1>4, <1>5, <1>6

\* The same of ledger rows, of which nothing changes.
LEMMA OffAdds ==
    ASSUME NEW jour, NEW jour2, NEW a, JournalTyped(jour), JournalTyped(jour2),
           DOMAIN jour \subseteq DOMAIN jour2, \A k \in DOMAIN jour : jour2[k] = jour[k]
    PROVE  /\ Off(jour, a) \in Int
           /\ (\A k \in DOMAIN jour2 \ DOMAIN jour : jour2[k].agent # a) => Off(jour2, a) = Off(jour, a)
           /\ \A n \in DOMAIN jour2 \ DOMAIN jour :
                /\ jour2[n].agent = a
                /\ \A k \in DOMAIN jour2 \ DOMAIN jour : jour2[k].agent = a => k = n
                => Off(jour2, a) = Off(jour, a) + OffBy(jour2, n)
  <1> DEFINE S == Of(jour, a)
             S2 == Of(jour2, a)
             f == [k \in DOMAIN jour |-> OffBy(jour, k)]
             f2 == [k \in DOMAIN jour2 |-> OffBy(jour2, k)]
  <1>1. IsFiniteSet(S) /\ IsFiniteSet(S2)
    BY FS_Subset DEF Of, JournalTyped
  <1>2. /\ \A k \in S : f[k] \in Int /\ f2[k] = f[k]
        /\ \A k \in S2 : f2[k] \in Int
    BY DEF Of, OffBy, JournalTyped, LedgerRow
  <1>3. SumFunctionOnSet(f2, S) = SumFunctionOnSet(f, S) /\ SumFunctionOnSet(f, S) \in Int
    <2> HIDE DEF S, f, f2
    <2>1. \A k \in S : f2[k] = f[k] /\ f[k] \in Int
      BY <1>2
    <2>2. QED BY <1>1, <2>1, SumSame, SumInt
  <1>4. ASSUME \A k \in DOMAIN jour2 \ DOMAIN jour : jour2[k].agent # a
        PROVE  S2 = S
    BY <1>4 DEF Of
  <1>5. ASSUME NEW n \in DOMAIN jour2 \ DOMAIN jour, jour2[n].agent = a,
               \A k \in DOMAIN jour2 \ DOMAIN jour : jour2[k].agent = a => k = n
        PROVE  SumFunctionOnSet(f2, S2) = SumFunctionOnSet(f2, S) + OffBy(jour2, n)
    <2>1. S2 = S \cup {n} /\ n \notin S /\ f2[n] = OffBy(jour2, n)
      BY <1>5 DEF Of
    <2>2. \A k \in S \cup {n} : f2[k] \in Int
      BY <1>2, <2>1
    <2> HIDE DEF S, S2, f2
    <2>3. SumFunctionOnSet(f2, S \cup {n}) = SumFunctionOnSet(f2, S) + f2[n]
      BY <1>1, <2>1, <2>2, SumPutIn
    <2>4. QED BY <2>1, <2>3
  <1>6. Off(jour, a) = SumFunctionOnSet(f, S) /\ Off(jour2, a) = SumFunctionOnSet(f2, S2)
    BY DEF Off
  <1> HIDE DEF S, S2, f, f2
  <1>7. QED BY <1>3, <1>4, <1>5, <1>6

\* Rows of records and of the ledger are inserted in pairs; each agent has at
\* most one pair, whose ledger row says what becomes of the balance.
Entered(rec, jour, held, rec2, jour2, held2) ==
  /\ DOMAIN rec \subseteq DOMAIN rec2 /\ DOMAIN jour \subseteq DOMAIN jour2
  /\ \A r \in DOMAIN rec : rec2[r].agent = rec[r].agent /\ rec2[r].amount = rec[r].amount
  /\ \A k \in DOMAIN jour : jour2[k] = jour[k]
  /\ \A r \in DOMAIN rec2 \ DOMAIN rec : \E k \in DOMAIN jour2 \ DOMAIN jour : r = RecordOf(k)
  /\ \A k \in DOMAIN jour2 \ DOMAIN jour :
       /\ RecordOf(k) \in DOMAIN rec2 \ DOMAIN rec
       /\ rec2[RecordOf(k)].agent = jour2[k].agent /\ rec2[RecordOf(k)].amount = jour2[k].amount
       /\ held[jour2[k].agent] = jour2[k].before /\ held2[jour2[k].agent] = jour2[k].after
       /\ \A l \in DOMAIN jour2 \ DOMAIN jour : jour2[l].agent = jour2[k].agent => l = k
  /\ \A a \in Agents : (\A k \in DOMAIN jour2 \ DOMAIN jour : jour2[k].agent # a) => held2[a] = held[a]

LEMMA EnteringExplains ==
    ASSUME NEW rec, NEW jour, NEW held \in [Agents -> Int], NEW rec2, NEW jour2,
           NEW held2 \in [Agents -> Int], NEW a \in Agents, paidOut \in [Agents -> Nat],
           Books(rec, jour), Books(rec2, jour2), Entered(rec, jour, held, rec2, jour2, held2),
           Explained(rec, jour, held, a)
    PROVE  Explained(rec2, jour2, held2, a)
  <1> DEFINE R == DOMAIN rec2 \ DOMAIN rec
             J == DOMAIN jour2 \ DOMAIN jour
  <1>1. /\ Recorded(rec, a) \in Int
        /\ (\A r \in R : rec2[r].agent # a) => Recorded(rec2, a) = Recorded(rec, a)
        /\ \A n \in R : rec2[n].agent = a /\ (\A r \in R : rec2[r].agent = a => r = n)
                        => Recorded(rec2, a) = Recorded(rec, a) + rec2[n].amount
    BY RecordedAdds DEF Books, Entered
  <1>2. /\ Off(jour, a) \in Int
        /\ (\A k \in J : jour2[k].agent # a) => Off(jour2, a) = Off(jour, a)
        /\ \A n \in J : jour2[n].agent = a /\ (\A k \in J : jour2[k].agent = a => k = n)
                        => Off(jour2, a) = Off(jour, a) + OffBy(jour2, n)
    BY OffAdds DEF Books, Entered
  <1>3. /\ \A r \in R : \E k \in J : r = RecordOf(k)
        /\ \A k \in J : RecordOf(k) \in R /\ rec2[RecordOf(k)].agent = jour2[k].agent
    BY DEF Entered
  <1>4. CASE \A k \in J : jour2[k].agent # a
    <2>1. \A r \in R : rec2[r].agent # a
      BY <1>3, <1>4
    <2>2. held2[a] = held[a]
      BY <1>4 DEF Entered
    <2>3. QED BY <1>1, <1>2, <1>4, <2>1, <2>2 DEF Explained
  <1>5. CASE \E k \in J : jour2[k].agent = a
    <2>1. PICK k \in J : jour2[k].agent = a
      BY <1>5
    <2> DEFINE n == RecordOf(k)
               row == jour2[k]
    <2>2. \A l \in J : jour2[l].agent = a => l = k
      BY <2>1 DEF Entered
    <2>3. n \in R /\ rec2[n].agent = a /\ rec2[n].amount = row.amount
          /\ held[a] = row.before /\ held2[a] = row.after
      BY <2>1 DEF Entered
    <2>4. \A r \in R : rec2[r].agent = a => r = n
      BY <1>3, <2>2
    <2>5. Recorded(rec2, a) = Recorded(rec, a) + row.amount
      BY <1>1, <2>3, <2>4
    <2>6. Off(jour2, a) = Off(jour, a) + (row.after - row.before - row.amount)
      BY <1>2, <2>1, <2>2 DEF OffBy
    <2>7. row.amount \in Int /\ row.before \in Int /\ row.after \in Int /\ paidOut[a] \in Int
      BY DEF Books, JournalTyped, LedgerRow
    <2> HIDE DEF row
    <2>8. row.before + paidOut[a] - Off(jour, a) = Recorded(rec, a)
      BY <2>3 DEF Explained
    <2>9. row.after + paidOut[a] - Off(jour2, a) = Recorded(rec2, a)
      BY <1>1, <1>2, <2>5, <2>6, <2>7, <2>8
    <2>10. QED BY <2>3, <2>9 DEF Explained
  <1>6. QED BY <1>4, <1>5

-----------------------------------------------------------------------------
\* What a settlement gives.

LEMMA SettlementFacts ==
    ASSUME NEW s \in Settlements \cup {<<>>}
    PROVE  /\ s \in Seq([agent : Agents, amount : Nat \ {0}])
           /\ DOMAIN s \subseteq Nat \ {0} /\ IsFiniteSet(DOMAIN s)
           /\ \A m, n \in DOMAIN s : s[m].agent = s[n].agent => m = n
  <1>1. CASE s \in Settlements
    <2>1. /\ s \in Seq([agent : Agents, amount : Nat \ {0}])
          /\ \A m, n \in DOMAIN s : s[m].agent = s[n].agent => m = n
      BY <1>1, RechargeAssumption
    <2>2. DOMAIN s = 1..Len(s) /\ Len(s) \in Nat
      BY <2>1
    <2>3. IsFiniteSet(1..Len(s))
      BY <2>2, FS_Interval
    <2>4. QED BY <2>1, <2>2, <2>3
  <1>2. CASE s = <<>>
    BY <1>2, FS_EmptySet
  <1>3. QED BY <1>1, <1>2

\* The rows of the record and of the ledger, and those at a place.
LEMMA RowsAt ==
    ASSUME NEW t, NEW s \in Settlements \cup {<<>>}, NEW held
    PROVE  /\ DOMAIN SettledRows(t, s) = {<<"COM", t.order, n>> : n \in DOMAIN s}
           /\ DOMAIN CreditRows(t, s, held) = {<<"LEDGER", t.order, n>> : n \in DOMAIN s}
  <1>1. DOMAIN SettledRows(t, s) = {<<"COM", t.order, n>> : n \in DOMAIN s}
    BY DEF SettledRows, Numbers
  <1>2. \A n \in DOMAIN s : Numbers(t, s)[n][3] = n
    BY DEF Numbers
  <1>3. DOMAIN CreditRows(t, s, held) = {<<"LEDGER", t.order, Numbers(t, s)[n][3]>> : n \in DOMAIN s}
    BY DEF CreditRows
  <1>4. QED BY <1>1, <1>2, <1>3

LEMMA SettledAt ==
    ASSUME NEW t, NEW s \in Settlements \cup {<<>>}, NEW n \in DOMAIN s
    PROVE  SettledRows(t, s)[<<"COM", t.order, n>>]
             = [agent |-> s[n].agent, amount |-> s[n].amount, status |-> "settled", from |-> None]
  <1> DEFINE r == <<"COM", t.order, n>>
             m == CHOOSE k \in DOMAIN s : Numbers(t, s)[k] = r
  <1>1. \A k \in DOMAIN s : Numbers(t, s)[k] = <<"COM", t.order, k>>
    BY DEF Numbers
  <1>2. m \in DOMAIN s /\ Numbers(t, s)[m] = r
    BY <1>1
  <1>3. <<"COM", t.order, m>> = <<"COM", t.order, n>>
    BY <1>1, <1>2
  <1>4. m = n
    BY ONLY <1>3
  <1>5. r \in {Numbers(t, s)[k] : k \in DOMAIN s}
    BY <1>1
  <1>6. SettledRows(t, s)[r]
          = [agent |-> s[m].agent, amount |-> s[m].amount, status |-> "settled", from |-> None]
    BY <1>5 DEF SettledRows
  <1> HIDE DEF m
  <1>7. QED BY <1>4, <1>6

LEMMA CreditAt ==
    ASSUME NEW t, NEW s \in Settlements \cup {<<>>}, NEW held, NEW n \in DOMAIN s
    PROVE  CreditRows(t, s, held)[<<"LEDGER", t.order, n>>]
             = [agent |-> s[n].agent, amount |-> s[n].amount, before |-> held[s[n].agent],
                after |-> held[s[n].agent] + s[n].amount]
  <1> DEFINE r == <<"LEDGER", t.order, n>>
             m == CHOOSE k \in DOMAIN s : Numbers(t, s)[k][3] = r[3]
  <1>1. \A k \in DOMAIN s : Numbers(t, s)[k][3] = k
    BY DEF Numbers
  <1>2. r[3] = n
    OBVIOUS
  <1>3. m = n
    BY <1>1, <1>2
  <1>4. r \in {<<"LEDGER", t.order, Numbers(t, s)[k][3]>> : k \in DOMAIN s}
    BY <1>1
  <1>5. CreditRows(t, s, held)[r]
          = [agent |-> s[m].agent, amount |-> s[m].amount, before |-> held[s[m].agent],
             after |-> held[s[m].agent] + s[m].amount]
    BY <1>4 DEF CreditRows
  <1> HIDE DEF m
  <1>6. QED BY <1>3, <1>5

LEMMA ShareFacts ==
    ASSUME NEW s \in Settlements \cup {<<>>}
    PROVE  /\ \A n \in DOMAIN s : Share(s, s[n].agent) = s[n].amount
           /\ \A a : Share(s, a) \in Nat
           /\ \A a : (\A n \in DOMAIN s : s[n].agent # a) => Share(s, a) = 0 /\ a \notin Paid(s)
           /\ \A n \in DOMAIN s : s[n].agent \in Paid(s) /\ s[n].agent \in Agents
                                  /\ s[n].amount \in Nat \ {0}
  <1>1. /\ s \in Seq([agent : Agents, amount : Nat \ {0}])
        /\ \A m, n \in DOMAIN s : s[m].agent = s[n].agent => m = n
    BY SettlementFacts
  <1>2. \A n \in DOMAIN s : s[n].agent \in Agents /\ s[n].amount \in Nat \ {0}
    <2> DEFINE X == [agent : Agents, amount : Nat \ {0}]
    <2>1. s \in Seq(X)
      BY <1>1
    <2> HIDE DEF X
    <2>2. \A n \in DOMAIN s : s[n] \in X
      BY <2>1
    <2>3. QED BY <2>2 DEF X
  <1>3. ASSUME NEW n \in DOMAIN s PROVE Share(s, s[n].agent) = s[n].amount
    BY <1>1 DEF Share
  <1>4. ASSUME NEW a, \A n \in DOMAIN s : s[n].agent # a PROVE Share(s, a) = 0 /\ a \notin Paid(s)
    BY <1>4 DEF Share, Paid
  <1>5. ASSUME NEW a PROVE Share(s, a) \in Nat
    <2>1. CASE \E n \in DOMAIN s : s[n].agent = a
      BY <1>2, <1>3, <2>1
    <2>2. CASE \A n \in DOMAIN s : s[n].agent # a
      BY <1>4, <2>2
    <2>3. QED BY <2>1, <2>2
  <1>6. \A n \in DOMAIN s : s[n].agent \in Paid(s)
    BY DEF Paid
  <1>7. QED BY <1>2, <1>3, <1>4, <1>5, <1>6

\* The same, field by field.
LEMMA RowFields ==
    ASSUME NEW t, NEW s \in Settlements \cup {<<>>}, NEW held \in [Agents -> Int], NEW n \in DOMAIN s
    PROVE  LET row == SettledRows(t, s)[<<"COM", t.order, n>>]
               credit == CreditRows(t, s, held)[<<"LEDGER", t.order, n>>]
           IN  /\ row \in Record /\ row.from = None /\ row.amount = s[n].amount /\ row.agent = s[n].agent
               /\ credit \in LedgerRow /\ credit.agent = s[n].agent /\ credit.amount = s[n].amount
               /\ credit.before = held[s[n].agent] /\ credit.after = held[s[n].agent] + s[n].amount
  <1> DEFINE row == SettledRows(t, s)[<<"COM", t.order, n>>]
             credit == CreditRows(t, s, held)[<<"LEDGER", t.order, n>>]
             a == s[n].agent
             m == s[n].amount
  <1>1. row = [agent |-> a, amount |-> m, status |-> "settled", from |-> None]
    BY SettledAt
  <1>2. credit = [agent |-> a, amount |-> m, before |-> held[a], after |-> held[a] + m]
    BY CreditAt
  <1>3. a \in Agents /\ m \in Nat \ {0}
    BY ShareFacts
  <1> HIDE DEF row, credit, a, m
  <1>4. row \in Record /\ row.from = None /\ row.amount = m /\ row.agent = a
    BY <1>1, <1>3 DEF Record
  <1>5. /\ credit \in LedgerRow /\ credit.agent = a /\ credit.amount = m
        /\ credit.before = held[a] /\ credit.after = held[a] + m
    BY <1>2, <1>3 DEF LedgerRow
  <1>6. QED BY <1>4, <1>5 DEF row, credit, a, m

\* The kinds of record and ledger row that are inserted together.
Paired(kind, led) ==
  \/ kind = "COM" /\ led = "LEDGER"
  \/ kind = "COM-R" /\ led = "LEDGER-R"
  \/ kind = "COM-RC" /\ led = "RC-REV"

LEMMA LedgerKey ==
    ASSUME NEW kind, NEW led, Paired(kind, led), NEW o \in Orders, NEW n \in Nat \ {0}
    PROVE  /\ <<led, o, n>> \in LedgerKeys /\ <<kind, o, n>> \in RecordNos
           /\ RecordOf(<<led, o, n>>) = <<kind, o, n>>
  <1>1. <<led, o, n>> \in LedgerKeys /\ <<kind, o, n>> \in RecordNos
    BY DEF LedgerKeys, RecordNos, Paired
  <1>2. RecordOf(<<led, o, n>>) = <<kind, o, n>>
    BY DEF RecordOf, Paired
  <1>3. QED BY <1>1, <1>2

\* A settlement of an order without originals enters a pair for each agent.
LEMMA SettlingEnters ==
    ASSUME NEW t, t.order \in Orders, NEW s \in Settlements \cup {<<>>}, NEW rec, NEW jour,
           NEW held \in [Agents -> Int], Books(rec, jour),
           DOMAIN SettledRows(t, s) \cap DOMAIN rec = {},
           \A r \in DOMAIN rec : r[1] = "COM" /\ r[2] = t.order => s = <<>>,
           NEW held2 \in [Agents -> Int], \A a \in Agents : held2[a] = held[a] + Share(s, a),
           NEW rec2, rec2 = Inserted(SettledRows(t, s), rec),
           NEW jour2, jour2 = Inserted(CreditRows(t, s, held), jour)
    PROVE  /\ Books(rec2, jour2) /\ Entered(rec, jour, held, rec2, jour2, held2)
           /\ \A k \in DOMAIN jour2 \ DOMAIN jour : Carries(k, jour2[k])
  <1> DEFINE o == t.order
             rows == SettledRows(t, s)
             credits == CreditRows(t, s, held)
             R == {<<"COM", o, n>> : n \in DOMAIN s}
             J == {<<"LEDGER", o, n>> : n \in DOMAIN s}
  <1>1. DOMAIN rows = R /\ DOMAIN credits = J
    BY RowsAt
  <1>2. \A n \in DOMAIN s :
          LET row == rows[<<"COM", o, n>>]
              credit == credits[<<"LEDGER", o, n>>]
          IN  /\ row \in Record /\ row.from = None /\ row.amount = s[n].amount /\ row.agent = s[n].agent
              /\ credit \in LedgerRow /\ credit.agent = s[n].agent /\ credit.amount = s[n].amount
              /\ credit.before = held[s[n].agent] /\ credit.after = held[s[n].agent] + s[n].amount
    BY RowFields
  <1>3. /\ DOMAIN s \subseteq Nat \ {0} /\ IsFiniteSet(DOMAIN s)
        /\ \A m, n \in DOMAIN s : s[m].agent = s[n].agent => m = n
    BY SettlementFacts
  <1>4. \A n \in DOMAIN s : s[n].agent \in Agents /\ s[n].amount \in Nat \ {0}
    BY ShareFacts
  <1>5. R \cap DOMAIN rec = {}
    BY <1>1
  <1>6. \A n \in DOMAIN s : /\ <<"LEDGER", o, n>> \in LedgerKeys /\ <<"COM", o, n>> \in RecordNos
                            /\ RecordOf(<<"LEDGER", o, n>>) = <<"COM", o, n>>
    <2>1. Paired("COM", "LEDGER")
      BY DEF Paired
    <2>2. QED BY <1>3, <2>1, LedgerKey
  <1>7. J \cap DOMAIN jour = {}
    <2> SUFFICES ASSUME NEW n \in DOMAIN s, <<"LEDGER", o, n>> \in DOMAIN jour PROVE FALSE
      OBVIOUS
    <2>1. <<"COM", o, n>> \in DOMAIN rec
      BY <1>6 DEF Books, JournalFollows
    <2>2. QED BY <1>5, <2>1
  <1> HIDE DEF rows, credits
  <1>8. /\ DOMAIN rec2 = R \cup DOMAIN rec /\ \A r \in DOMAIN rec : rec2[r] = rec[r]
        /\ \A r \in R : rec2[r] = rows[r]
    <2>1. rec2 = Inserted(rows, rec)
      BY DEF rows
    <2> HIDE DEF R
    <2>2. QED BY ONLY <1>1, <1>5, <2>1 DEF Inserted
  <1>9. /\ DOMAIN jour2 = J \cup DOMAIN jour /\ \A k \in DOMAIN jour : jour2[k] = jour[k]
        /\ \A k \in J : jour2[k] = credits[k]
    <2>1. jour2 = Inserted(credits, jour)
      BY DEF credits
    <2> HIDE DEF J
    <2>2. QED BY ONLY <1>1, <1>7, <2>1 DEF Inserted
  <1>10. \A n \in DOMAIN s :
          LET row == rec2[<<"COM", o, n>>]
              credit == jour2[<<"LEDGER", o, n>>]
          IN  /\ <<"COM", o, n>> \in R /\ <<"LEDGER", o, n>> \in J
              /\ row \in Record /\ row.from = None /\ row.amount = s[n].amount /\ row.agent = s[n].agent
              /\ credit \in LedgerRow /\ credit.agent = s[n].agent /\ credit.amount = s[n].amount
              /\ credit.before = held[s[n].agent] /\ credit.after = held[s[n].agent] + s[n].amount
    BY <1>2, <1>8, <1>9
  <1>11. RecordsTyped(rec2)
    <2>1. IsFiniteSet(R)
      <3> DEFINE f == [n \in DOMAIN s |-> <<"COM", o, n>>]
      <3>1. f \in [DOMAIN s -> R] /\ \A r \in R : \E n \in DOMAIN s : f[n] = r
        OBVIOUS
      <3> HIDE DEF R, f
      <3>2. f \in Surjection(DOMAIN s, R)
        BY <3>1 DEF Surjection
      <3>3. QED BY <1>3, <3>2, FS_Surjection
    <2>2. IsFiniteSet(DOMAIN rec2)
      <3> HIDE DEF R
      <3>1. IsFiniteSet(DOMAIN rec)
        BY DEF Books, RecordsTyped
      <3>2. IsFiniteSet(R \cup DOMAIN rec)
        BY <2>1, <3>1, FS_Union
      <3>3. QED BY <1>8, <3>2
    <2>4. ASSUME NEW r \in R
          PROVE  r \in RecordNos /\ r[1] = "COM" /\ rec2[r] \in Record /\ rec2[r].from = None /\ rec2[r].amount > 0
      <3>1. PICK n \in DOMAIN s : r = <<"COM", o, n>>
        BY <2>4
      <3>2. r \in RecordNos /\ r[1] = "COM"
        BY <1>6, <3>1
      <3>3. rec2[r] \in Record /\ rec2[r].from = None /\ rec2[r].amount = s[n].amount
        BY <1>10, <3>1
      <3>4. QED BY <1>4, <3>2, <3>3
    <2> HIDE DEF R
    <2>5. QED BY <1>8, <2>2, <2>4 DEF Books, RecordsTyped
  <1>12. JournalTyped(jour2)
    <2>1. IsFiniteSet(J)
      <3> DEFINE f == [n \in DOMAIN s |-> <<"LEDGER", o, n>>]
      <3>1. f \in [DOMAIN s -> J] /\ \A k \in J : \E n \in DOMAIN s : f[n] = k
        OBVIOUS
      <3> HIDE DEF J, f
      <3>2. f \in Surjection(DOMAIN s, J)
        BY <3>1 DEF Surjection
      <3>3. QED BY <1>3, <3>2, FS_Surjection
    <2>2. IsFiniteSet(DOMAIN jour2)
      <3> HIDE DEF J
      <3>1. IsFiniteSet(DOMAIN jour)
        BY DEF Books, JournalTyped
      <3>2. IsFiniteSet(J \cup DOMAIN jour)
        BY <2>1, <3>1, FS_Union
      <3>3. QED BY <1>9, <3>2
    <2>3. ASSUME NEW n \in DOMAIN s
          PROVE  <<"LEDGER", o, n>> \in LedgerKeys /\ jour2[<<"LEDGER", o, n>>] \in LedgerRow
      BY <1>4, <1>6, <1>10 DEF LedgerRow
    <2>4. \A k \in J : k \in LedgerKeys /\ jour2[k] \in LedgerRow
      BY <2>3
    <2> HIDE DEF J
    <2>5. QED BY <1>9, <2>2, <2>4 DEF Books, JournalTyped
  <1>13. JournalFollows(rec2, jour2)
    <2>1. \A k \in J : RecordOf(k) \in R
      BY <1>6
    <2> HIDE DEF J, R
    <2>2. QED BY <1>8, <1>9, <2>1 DEF Books, JournalFollows
  <1>14. OneEach(rec2)
    <2> SUFFICES ASSUME NEW q \in DOMAIN rec2, NEW r \in DOMAIN rec2, q[1] = "COM", r[1] = "COM",
                        q[2] = r[2], rec2[q].agent = rec2[r].agent
                 PROVE  q = r
      BY DEF OneEach
    <2>1. CASE q \in R /\ r \in R
      <3>1. PICK m \in DOMAIN s : q = <<"COM", o, m>>
        BY <2>1
      <3>2. PICK n \in DOMAIN s : r = <<"COM", o, n>>
        BY <2>1
      <3>3. s[m].agent = s[n].agent
        BY <1>10, <3>1, <3>2
      <3>4. QED BY <1>3, <3>1, <3>2, <3>3
    <2>2. CASE q \in DOMAIN rec /\ r \in DOMAIN rec
      BY <1>8, <2>2 DEF Books, OneEach
    <2>3. ASSUME NEW v \in R, NEW w \in DOMAIN rec, w[1] = "COM", w[2] = v[2] PROVE FALSE
      <3>1. PICK n \in DOMAIN s : v = <<"COM", o, n>>
        BY <2>3
      <3>2. w[2] = o
        BY <2>3, <3>1
      <3>3. s = <<>>
        BY <2>3, <3>2
      <3>4. QED BY <3>3
    <2>4. QED BY <1>8, <2>1, <2>2, <2>3
  <1>15. Books(rec2, jour2)
    BY <1>11, <1>12, <1>13, <1>14 DEF Books
  <1>16. DOMAIN rec2 \ DOMAIN rec = R /\ DOMAIN jour2 \ DOMAIN jour = J
    BY <1>5, <1>7, <1>8, <1>9
  <1>17. \A r \in R : \E k \in J : r = RecordOf(k)
    BY <1>6
  <1>18. ASSUME NEW k \in J
         PROVE  /\ RecordOf(k) \in R
                /\ rec2[RecordOf(k)].agent = jour2[k].agent /\ rec2[RecordOf(k)].amount = jour2[k].amount
                /\ held[jour2[k].agent] = jour2[k].before /\ held2[jour2[k].agent] = jour2[k].after
                /\ \A l \in J : jour2[l].agent = jour2[k].agent => l = k
                /\ Carries(k, jour2[k])
    <2>1. PICK n \in DOMAIN s : k = <<"LEDGER", o, n>>
      BY <1>18
    <2>2. RecordOf(k) = <<"COM", o, n>> /\ RecordOf(k) \in R
      BY <1>6, <2>1
    <2>3. /\ rec2[RecordOf(k)].agent = s[n].agent /\ rec2[RecordOf(k)].amount = s[n].amount
          /\ jour2[k].agent = s[n].agent /\ jour2[k].amount = s[n].amount
          /\ jour2[k].before = held[s[n].agent] /\ jour2[k].after = held[s[n].agent] + s[n].amount
      BY <1>10, <2>1, <2>2
    <2>4. held2[s[n].agent] = held[s[n].agent] + s[n].amount
      BY <1>4, ShareFacts
    <2>5. ASSUME NEW l \in J, jour2[l].agent = jour2[k].agent PROVE l = k
      <3>1. PICK m \in DOMAIN s : l = <<"LEDGER", o, m>>
        BY <2>5
      <3>2. s[m].agent = s[n].agent
        BY <1>10, <2>3, <2>5, <3>1
      <3>3. QED BY <1>3, <2>1, <3>1, <3>2
    <2>6. Carries(k, jour2[k])
      BY <2>3 DEF Carries
    <2> HIDE DEF J, R
    <2>7. QED BY <2>2, <2>3, <2>4, <2>5, <2>6
  <1>19. ASSUME NEW a \in Agents, \A k \in J : jour2[k].agent # a PROVE held2[a] = held[a]
    <2>1. \A n \in DOMAIN s : s[n].agent # a
      BY <1>10, <1>19
    <2>2. Share(s, a) = 0 /\ held[a] \in Int
      BY <2>1, ShareFacts
    <2>3. QED BY <2>2
  <1>20. Entered(rec, jour, held, rec2, jour2, held2)
    <2> HIDE DEF J, R
    <2>1. DOMAIN rec \subseteq DOMAIN rec2 /\ DOMAIN jour \subseteq DOMAIN jour2
      BY <1>8, <1>9
    <2>2. QED BY ONLY <1>8, <1>9, <1>16, <1>17, <1>18, <1>19, <2>1 DEF Entered
  <1>21. QED BY <1>15, <1>16, <1>18, <1>20

-----------------------------------------------------------------------------
\* What is taken back.

\* The ledger rows of the reversals at these places.
DebitRows(t, led, places, after) ==
  [k \in {<<led, t.order, n>> : n \in places} |->
     LET original == t.seen.record[<<"COM", t.order, k[3]>>]
     IN  [agent |-> original.agent, amount |-> -original.amount,
          before |-> t.seen.balance[original.agent], after |-> after[original.agent]]]

\* The originals at places a transaction has seen.
LEMMA OriginalAt ==
    ASSUME NEW t, t.order \in Orders, RecordsTyped(t.seen.record),
           NEW n \in Places(t.seen.record, t.order)
    PROVE  LET r == <<"COM", t.order, n>>
           IN  /\ r \in DOMAIN t.seen.record /\ r \in RecordNos /\ n \in Nat \ {0} /\ r # None
               /\ t.seen.record[r] \in Record /\ t.seen.record[r].agent \in Agents
               /\ t.seen.record[r].amount \in Int /\ t.seen.record[r].amount > 0
               /\ t.seen.record[r].from = None
  <1> DEFINE r == <<"COM", t.order, n>>
  <1>1. DOMAIN t.seen.record \subseteq RecordNos
    BY DEF RecordsTyped
  <1>2. n \in Nat \ {0} /\ r \in DOMAIN t.seen.record
    BY <1>1, PlacesOf
  <1>3. r \in RecordNos /\ r # None /\ r[1] = "COM"
    BY <1>1, <1>2, NoneOutside
  <1>4. t.seen.record[r] \in Record /\ t.seen.record[r].from = None /\ t.seen.record[r].amount > 0
    BY <1>2, <1>3 DEF RecordsTyped
  <1> HIDE DEF r
  <1>5. t.seen.record[r].agent \in Agents /\ t.seen.record[r].amount \in Int
    BY <1>4 DEF Record
  <1>6. QED BY <1>2, <1>3, <1>4, <1>5 DEF r

LEMMA PlacesFinite ==
    ASSUME NEW rec, NEW o \in Orders, RecordsTyped(rec)
    PROVE  IsFiniteSet(Places(rec, o))
  <1> DEFINE R == {r \in DOMAIN rec : r[1] = "COM" /\ r[2] = o}
             f == [r \in R |-> r[3]]
             P == Places(rec, o)
  <1>1. IsFiniteSet(R)
    BY FS_Subset DEF RecordsTyped
  <1>2. f \in [R -> P] /\ \A n \in P : \E r \in R : f[r] = n
    BY DEF Places
  <1> HIDE DEF R, f, P
  <1>3. f \in Surjection(R, P)
    BY <1>2 DEF Surjection
  <1>4. QED BY <1>1, <1>3, FS_Surjection DEF P

\* A reversal row, the original it marks, and the ledger row.
LEMMA ReversalAt ==
    ASSUME NEW t, t.order \in Orders, RecordsTyped(t.seen.record), NEW kind \in {"COM-R", "COM-RC"},
           NEW places \in SUBSET Places(t.seen.record, t.order), NEW n \in places
    PROVE  LET row == Reversals(t, kind, places)[<<kind, t.order, n>>]
               original == t.seen.record[<<"COM", t.order, n>>]
           IN  /\ row \in Record /\ row.agent = original.agent /\ row.amount = -original.amount
               /\ row.from # None /\ row.amount < 0
  <1> DEFINE v == <<kind, t.order, n>>
             q == <<"COM", t.order, n>>
             original == t.seen.record[q]
             row == Reversals(t, kind, places)[v]
  <1>1. v \in {<<kind, t.order, m>> : m \in places} /\ v[3] = n
    OBVIOUS
  <1>2. row = [original EXCEPT !.amount = -@, !.status = "reversed", !.from = q]
    BY <1>1 DEF Reversals
  <1>3. /\ q \in RecordNos /\ q # None /\ original \in Record /\ original.amount \in Int
        /\ original.amount > 0
    BY OriginalAt
  <1> HIDE DEF row, original, q, v
  <1>4. row.agent = original.agent /\ row.amount = -original.amount /\ row.from = q
    BY <1>2, <1>3 DEF Record
  <1>5. row \in Record
    <2>1. row = [agent |-> original.agent, amount |-> -original.amount, status |-> "reversed", from |-> q]
      BY <1>2, <1>3 DEF Record
    <2>2. original.agent \in Agents /\ -original.amount \in Int
      BY <1>3 DEF Record
    <2>3. QED BY <1>3, <2>1, <2>2 DEF Record
  <1>6. row.amount < 0
    BY <1>3, <1>4
  <1>7. QED BY <1>3, <1>4, <1>5, <1>6 DEF row, original, q, v

LEMMA MarkedAt ==
    ASSUME NEW t, NEW places, RecordsTyped(record), NEW n \in places,
           <<"COM", t.order, n>> \in DOMAIN record
    PROVE  LET r == <<"COM", t.order, n>>
               row == Marked(t, places)[r]
           IN  /\ row \in Record /\ row.agent = record[r].agent /\ row.amount = record[r].amount
               /\ row.from = record[r].from
  <1> DEFINE r == <<"COM", t.order, n>>
             row == Marked(t, places)[r]
  <1>1. row = [record[r] EXCEPT !.status = "reversed"]
    BY DEF Marked
  <1> DEFINE was == record[r]
  <1>2. was \in Record
    BY DEF RecordsTyped
  <1>3. row = [was EXCEPT !.status = "reversed"]
    BY <1>1
  <1> HIDE DEF r, row, was
  <1>4. /\ row = [agent |-> was.agent, amount |-> was.amount, status |-> "reversed", from |-> was.from]
        /\ was.agent \in Agents /\ was.amount \in Int /\ was.from \in RecordNos \cup {None}
    BY <1>2, <1>3 DEF Record
  <1>5. row \in Record /\ row.agent = was.agent /\ row.amount = was.amount /\ row.from = was.from
    BY <1>4 DEF Record
  <1>6. QED BY <1>5 DEF r, row, was

LEMMA DebitAt ==
    ASSUME NEW t, t.order \in Orders, RecordsTyped(t.seen.record), NEW led,
           NEW places \in SUBSET Places(t.seen.record, t.order), NEW n \in places,
           t.seen.balance \in [Agents -> Int], NEW after \in [Agents -> Int]
    PROVE  LET row == DebitRows(t, led, places, after)[<<led, t.order, n>>]
               original == t.seen.record[<<"COM", t.order, n>>]
           IN  /\ row \in LedgerRow /\ row.agent = original.agent /\ row.amount = -original.amount
               /\ row.before = t.seen.balance[original.agent] /\ row.after = after[original.agent]
  <1> DEFINE k == <<led, t.order, n>>
             original == t.seen.record[<<"COM", t.order, n>>]
             row == DebitRows(t, led, places, after)[k]
  <1>1. k \in {<<led, t.order, m>> : m \in places} /\ k[3] = n
    OBVIOUS
  <1>2. row = [agent |-> original.agent, amount |-> -original.amount,
               before |-> t.seen.balance[original.agent], after |-> after[original.agent]]
    BY <1>1 DEF DebitRows
  <1>3. original.agent \in Agents /\ original.amount \in Int
    BY OriginalAt
  <1> HIDE DEF row, original, k
  <1>4. QED BY <1>2, <1>3 DEF LedgerRow, row, original, k

\* Every new ledger row debits the agent of an original at one of the places.
Debited(t, led, places, after, jour2) ==
  \A k \in DOMAIN jour2 \ DOMAIN journal : \E n \in places :
    LET original == t.seen.record[<<"COM", t.order, n>>]
    IN  /\ k[1] = led /\ jour2[k].agent = original.agent /\ jour2[k].amount = -original.amount
        /\ jour2[k].before = t.seen.balance[original.agent]
        /\ jour2[k].after = after[original.agent]

\* The balances after it, if only those are written that are debited.
Lowered(t, places, after, held2) ==
  /\ t.seen.record = record /\ t.seen.balance = balance /\ held2 \in [Agents -> Int]
  /\ \A a \in Agents : held2[a] = IF a \in AgentsAt(t, places) THEN after[a] ELSE balance[a]

\* Taking back at these places enters a pair for each, if it sees the tables as
\* they are; the tables stay typed whatever it sees.
LEMMA ReversingEnters ==
    ASSUME NEW t, t.order \in Orders, TablesTyped(t.seen), DOMAIN t.seen.record \subseteq DOMAIN record,
           Books(record, journal), NEW kind \in {"COM-R", "COM-RC"}, NEW led,
           Paired(kind, led),
           NEW places \in SUBSET Places(t.seen.record, t.order),
           \A n \in places : <<kind, t.order, n>> \notin DOMAIN record,
           NEW after \in [Agents -> Int],
           NEW rec2, rec2 = Inserted(Reversals(t, kind, places), Inserted(Marked(t, places), record)),
           NEW jour2, jour2 = Inserted(DebitRows(t, led, places, after), journal)
    PROVE  /\ Books(rec2, jour2) /\ Debited(t, led, places, after, jour2)
           /\ \A held2 : Lowered(t, places, after, held2)
                => Entered(record, journal, balance, rec2, jour2, held2)
  <1> DEFINE o == t.order
             seen == t.seen.record
             revs == Reversals(t, kind, places)
             marked == Marked(t, places)
             mid == Inserted(marked, record)
             debits == DebitRows(t, led, places, after)
             Q == {<<"COM", o, n>> : n \in places}
             R == {<<kind, o, n>> : n \in places}
             J == {<<led, o, n>> : n \in places}
  <1>1. RecordsTyped(seen) /\ RecordsTyped(record) /\ t.seen.balance \in [Agents -> Int]
    BY DEF TablesTyped, Books
  <1>2. /\ \A n \in places : n \in Nat \ {0} /\ <<"COM", o, n>> \in DOMAIN seen
        /\ \A n \in places : <<"COM", o, n>> \in DOMAIN record
    BY <1>1, OriginalAt
  <1>3. IsFiniteSet(places)
    BY <1>1, PlacesFinite, FS_Subset
  <1>4. \A n \in places : /\ <<led, o, n>> \in LedgerKeys /\ <<kind, o, n>> \in RecordNos
                          /\ RecordOf(<<led, o, n>>) = <<kind, o, n>>
    <2> SUFFICES ASSUME NEW n \in places
                 PROVE  /\ <<led, o, n>> \in LedgerKeys /\ <<kind, o, n>> \in RecordNos
                        /\ RecordOf(<<led, o, n>>) = <<kind, o, n>>
      OBVIOUS
    <2>1. n \in Nat \ {0} /\ o \in Orders
      BY <1>2
    <2>2. QED BY ONLY <2>1, Paired(kind, led), LedgerKey
  <1>5. DOMAIN revs = R /\ DOMAIN marked = Q /\ DOMAIN debits = J
    BY DEF Reversals, Marked, DebitRows
  <1>6. Q \subseteq DOMAIN record /\ R \cap DOMAIN record = {}
    BY <1>2
  <1>7. J \cap DOMAIN journal = {}
    <2> SUFFICES ASSUME NEW n \in places, <<led, o, n>> \in DOMAIN journal PROVE FALSE
      OBVIOUS
    <2>1. <<kind, o, n>> \in DOMAIN record
      BY <1>4 DEF Books, JournalFollows
    <2>2. QED BY <2>1
  <1>8. \A n \in places :
          LET row == revs[<<kind, o, n>>]
              original == seen[<<"COM", o, n>>]
          IN  /\ row \in Record /\ row.agent = original.agent /\ row.amount = -original.amount
              /\ row.from # None /\ row.amount < 0
    BY <1>1, ReversalAt
  <1>9. \A n \in places :
          LET r == <<"COM", o, n>>
              row == marked[r]
          IN  /\ row \in Record /\ row.agent = record[r].agent /\ row.amount = record[r].amount
              /\ row.from = record[r].from
    BY <1>1, <1>2, MarkedAt
  <1>10. \A n \in places :
           LET row == debits[<<led, o, n>>]
               original == seen[<<"COM", o, n>>]
           IN  /\ row \in LedgerRow /\ row.agent = original.agent /\ row.amount = -original.amount
               /\ row.before = t.seen.balance[original.agent] /\ row.after = after[original.agent]
    BY <1>1, DebitAt
  <1> HIDE DEF revs, marked, debits
  <1>11. /\ DOMAIN mid = DOMAIN record
         /\ \A r \in DOMAIN record \ Q : mid[r] = record[r]
         /\ \A r \in Q : mid[r] = marked[r]
    <2> HIDE DEF Q
    <2>1. QED BY ONLY <1>5, <1>6 DEF Inserted
  <1>12. /\ DOMAIN rec2 = R \cup DOMAIN record /\ \A r \in DOMAIN record : rec2[r] = mid[r]
         /\ \A r \in R : rec2[r] = revs[r]
    <2>1. rec2 = Inserted(revs, mid)
      BY DEF revs, marked
    <2> HIDE DEF R, mid
    <2>2. QED BY ONLY <1>5, <1>6, <1>11, <2>1 DEF Inserted
  <1>13. /\ DOMAIN jour2 = J \cup DOMAIN journal /\ \A k \in DOMAIN journal : jour2[k] = journal[k]
         /\ \A k \in J : jour2[k] = debits[k]
    <2>1. jour2 = Inserted(debits, journal)
      BY DEF debits
    <2> HIDE DEF J
    <2>2. QED BY ONLY <1>5, <1>7, <2>1 DEF Inserted
  <1> HIDE DEF mid
  <1>14. ASSUME NEW r \in DOMAIN record
         PROVE  /\ rec2[r] \in Record /\ rec2[r].agent = record[r].agent
                /\ rec2[r].amount = record[r].amount /\ rec2[r].from = record[r].from
    <2>1. CASE r \in Q
      <3>1. PICK n \in places : r = <<"COM", o, n>>
        BY <2>1
      <3>2. rec2[r] = marked[r]
        BY <1>11, <1>12, <2>1
      <3>3. QED BY <1>9, <3>1, <3>2
    <2>2. CASE r \notin Q
      <3>1. rec2[r] = record[r]
        BY <1>11, <1>12, <2>2
      <3>2. record[r] \in Record
        BY <1>1 DEF RecordsTyped
      <3>3. QED BY <3>1, <3>2
    <2>3. QED BY <2>1, <2>2
  <1>15. ASSUME NEW n \in places
         PROVE  LET row == rec2[<<kind, o, n>>]
                    debit == jour2[<<led, o, n>>]
                    original == seen[<<"COM", o, n>>]
                IN  /\ <<kind, o, n>> \in R /\ <<led, o, n>> \in J
                    /\ row \in Record /\ row.agent = original.agent /\ row.amount = -original.amount
                    /\ row.from # None /\ row.amount < 0
                    /\ debit \in LedgerRow /\ debit.agent = original.agent
                    /\ debit.amount = -original.amount
                    /\ debit.before = t.seen.balance[original.agent]
                    /\ debit.after = after[original.agent]
    <2>1. <<kind, o, n>> \in R /\ <<led, o, n>> \in J
      OBVIOUS
    <2>2. rec2[<<kind, o, n>>] = revs[<<kind, o, n>>] /\ jour2[<<led, o, n>>] = debits[<<led, o, n>>]
      BY <1>12, <1>13, <2>1
    <2>3. QED BY <1>8, <1>10, <2>1, <2>2
  <1>16. RecordsTyped(rec2)
    <2>1. IsFiniteSet(R)
      <3> DEFINE f == [n \in places |-> <<kind, o, n>>]
      <3>1. f \in [places -> R] /\ \A r \in R : \E n \in places : f[n] = r
        OBVIOUS
      <3> HIDE DEF R, f
      <3>2. f \in Surjection(places, R)
        BY <3>1 DEF Surjection
      <3>3. QED BY <1>3, <3>2, FS_Surjection
    <2>2. IsFiniteSet(DOMAIN rec2)
      <3> HIDE DEF R
      <3>1. IsFiniteSet(DOMAIN record)
        BY <1>1 DEF RecordsTyped
      <3>2. IsFiniteSet(R \cup DOMAIN record)
        BY <2>1, <3>1, FS_Union
      <3>3. QED BY <1>12, <3>2
    <2>3. ASSUME NEW r \in R
          PROVE  r \in RecordNos /\ r[1] # "COM" /\ rec2[r] \in Record /\ rec2[r].from # None /\ rec2[r].amount < 0
      <3>1. PICK n \in places : r = <<kind, o, n>>
        BY <2>3
      <3>2. r \in RecordNos /\ r[1] # "COM"
        BY <1>4, <3>1
      <3>3. QED BY <1>15, <3>1, <3>2
    <2>4. ASSUME NEW r \in DOMAIN record
          PROVE  /\ r \in RecordNos /\ rec2[r] \in Record
                 /\ IF r[1] = "COM" THEN rec2[r].from = None /\ rec2[r].amount > 0
                    ELSE rec2[r].from # None /\ rec2[r].amount < 0
      BY <1>1, <1>14, <2>4 DEF RecordsTyped
    <2> HIDE DEF R
    <2>5. QED BY ONLY <1>12, <2>2, <2>3, <2>4 DEF RecordsTyped
  <1>17. JournalTyped(jour2)
    <2>1. IsFiniteSet(J)
      <3> DEFINE f == [n \in places |-> <<led, o, n>>]
      <3>1. f \in [places -> J] /\ \A k \in J : \E n \in places : f[n] = k
        OBVIOUS
      <3> HIDE DEF J, f
      <3>2. f \in Surjection(places, J)
        BY <3>1 DEF Surjection
      <3>3. QED BY <1>3, <3>2, FS_Surjection
    <2>2. IsFiniteSet(DOMAIN jour2)
      <3> HIDE DEF J
      <3>1. IsFiniteSet(DOMAIN journal)
        BY DEF Books, JournalTyped
      <3>2. IsFiniteSet(J \cup DOMAIN journal)
        BY <2>1, <3>1, FS_Union
      <3>3. QED BY <1>13, <3>2
    <2>3. \A k \in J : k \in LedgerKeys /\ jour2[k] \in LedgerRow
      BY <1>4, <1>15
    <2> HIDE DEF J
    <2>4. QED BY <1>13, <2>2, <2>3 DEF Books, JournalTyped
  <1>18. JournalFollows(rec2, jour2)
    <2>1. \A k \in J : RecordOf(k) \in R
      BY <1>4
    <2> HIDE DEF J, R
    <2>2. QED BY <1>12, <1>13, <2>1 DEF Books, JournalFollows
  <1>19. OneEach(rec2)
    <2>1. \A r \in R : r[1] # "COM"
      OBVIOUS
    <2> HIDE DEF R
    <2>2. \A r \in DOMAIN rec2 : r[1] = "COM" => r \in DOMAIN record /\ rec2[r].agent = record[r].agent
      BY <1>12, <1>14, <2>1
    <2>3. QED BY <2>2 DEF Books, OneEach
  <1>20. Books(rec2, jour2)
    BY <1>16, <1>17, <1>18, <1>19 DEF Books
  <1>21. DOMAIN rec2 \ DOMAIN record = R /\ DOMAIN jour2 \ DOMAIN journal = J
    BY <1>6, <1>7, <1>12, <1>13
  <1>22. ASSUME NEW k \in DOMAIN jour2 \ DOMAIN journal
         PROVE  \E n \in places :
                  LET original == t.seen.record[<<"COM", t.order, n>>]
                  IN  /\ k[1] = led /\ jour2[k].agent = original.agent /\ jour2[k].amount = -original.amount
                      /\ jour2[k].before = t.seen.balance[original.agent]
                      /\ jour2[k].after = after[original.agent]
    <2>1. PICK n \in places : k = <<led, o, n>>
      BY <1>21, <1>22
    <2>2. QED BY <1>15, <2>1
  <1>23. ASSUME NEW held2 \in [Agents -> Int], seen = record, t.seen.balance = balance,
                \A a \in Agents : held2[a] = IF a \in AgentsAt(t, places) THEN after[a] ELSE balance[a]
         PROVE  Entered(record, journal, balance, rec2, jour2, held2)
    <2>1. \A n \in places : /\ seen[<<"COM", o, n>>].agent \in Agents
                            /\ seen[<<"COM", o, n>>].agent \in AgentsAt(t, places)
      BY <1>1, OriginalAt DEF AgentsAt
    <2>2. ASSUME NEW m \in places, NEW n \in places, seen[<<"COM", o, m>>].agent = seen[<<"COM", o, n>>].agent
          PROVE  m = n
      <3> DEFINE q == <<"COM", o, m>>
                 r == <<"COM", o, n>>
      <3>1. /\ q \in DOMAIN record /\ r \in DOMAIN record /\ q[1] = "COM" /\ r[1] = "COM" /\ q[2] = r[2]
            /\ record[q].agent = record[r].agent /\ q[3] = m /\ r[3] = n
        BY <1>2, <1>23, <2>2
      <3>2. q = r
        BY <3>1 DEF Books, OneEach
      <3>3. QED BY <3>1, <3>2
    <2>3. ASSUME NEW k \in J
          PROVE  /\ RecordOf(k) \in R
                 /\ rec2[RecordOf(k)].agent = jour2[k].agent /\ rec2[RecordOf(k)].amount = jour2[k].amount
                 /\ balance[jour2[k].agent] = jour2[k].before /\ held2[jour2[k].agent] = jour2[k].after
                 /\ \A l \in J : jour2[l].agent = jour2[k].agent => l = k
      <3>1. PICK n \in places : k = <<led, o, n>>
        BY <2>3
      <3>2. RecordOf(k) = <<kind, o, n>> /\ RecordOf(k) \in R
        BY <1>4, <3>1
      <3> DEFINE original == seen[<<"COM", o, n>>]
      <3>3. /\ rec2[RecordOf(k)].agent = original.agent /\ rec2[RecordOf(k)].amount = -original.amount
            /\ jour2[k].agent = original.agent /\ jour2[k].amount = -original.amount
            /\ jour2[k].before = balance[original.agent] /\ jour2[k].after = after[original.agent]
        BY <1>15, <1>23, <3>1, <3>2
      <3>4. held2[original.agent] = after[original.agent]
        BY <1>23, <2>1
      <3>5. ASSUME NEW l \in J, jour2[l].agent = jour2[k].agent PROVE l = k
        <4>1. PICK m \in places : l = <<led, o, m>>
          BY <3>5
        <4>2. jour2[l].agent = seen[<<"COM", o, m>>].agent
          BY <1>15, <4>1
        <4>3. QED BY <2>2, <3>1, <3>3, <3>5, <4>1, <4>2
      <3> HIDE DEF J, R, original
      <3>6. QED BY <3>2, <3>3, <3>4, <3>5
    <2>4. ASSUME NEW a \in Agents, \A k \in J : jour2[k].agent # a PROVE held2[a] = balance[a]
      <3>1. \A n \in places : seen[<<"COM", o, n>>].agent # a
        BY <1>15, <2>4
      <3>2. a \notin AgentsAt(t, places)
        BY <3>1 DEF AgentsAt
      <3>3. QED BY <1>23, <3>2
    <2>5. \A r \in R : \E k \in J : r = RecordOf(k)
      BY <1>4
    <2> HIDE DEF J, R
    <2>6. DOMAIN record \subseteq DOMAIN rec2 /\ DOMAIN journal \subseteq DOMAIN jour2
      BY <1>12, <1>13
    <2>7. QED BY ONLY <1>13, <1>14, <1>21, <2>3, <2>4, <2>5, <2>6 DEF Entered
  <1>24. Debited(t, led, places, after, jour2)
    BY ONLY <1>22 DEF Debited
  <1>25. ASSUME NEW held2, Lowered(t, places, after, held2)
         PROVE  Entered(record, journal, balance, rec2, jour2, held2)
    <2>1. /\ held2 \in [Agents -> Int] /\ seen = record /\ t.seen.balance = balance
          /\ \A a \in Agents : held2[a] = IF a \in AgentsAt(t, places) THEN after[a] ELSE balance[a]
      BY <1>25 DEF Lowered
    <2>2. QED BY ONLY <1>23, <2>1
  <1>26. QED BY ONLY <1>20, <1>24, <1>25

-----------------------------------------------------------------------------
\* What a transaction takes from an agent.

LEMMA GivenFacts ==
    ASSUME NEW t, t.order \in Orders, RecordsTyped(t.seen.record),
           NEW places \in SUBSET Places(t.seen.record, t.order)
    PROVE  /\ \A a : Given(t, places, a) \in Int
           /\ \A a : a \notin AgentsAt(t, places) => Given(t, places, a) = 0
           /\ OneEach(t.seen.record) =>
                \A n \in places : LET original == t.seen.record[<<"COM", t.order, n>>]
                                  IN  Given(t, places, original.agent) = original.amount
  <1> DEFINE o == t.order
             seen == t.seen.record
             f == [n \in places |-> seen[<<"COM", o, n>>].amount]
             his(a) == {n \in places : seen[<<"COM", o, n>>].agent = a}
  <1>1. IsFiniteSet(places)
    BY PlacesFinite, FS_Subset
  <1>2. \A a : IsFiniteSet(his(a))
    BY <1>1, FS_Subset
  <1>3. \A n \in places : seen[<<"COM", o, n>>].amount \in Int /\ <<"COM", o, n>> \in DOMAIN seen
    BY OriginalAt
  <1>4. \A n \in places : f[n] \in Int
    BY <1>3
  <1>5. \A a : Given(t, places, a) = SumFunctionOnSet(f, his(a))
    BY DEF Given
  <1>6. \A a : his(a) \subseteq places
    OBVIOUS
  <1>7. ASSUME NEW a PROVE Given(t, places, a) \in Int
    <2> DEFINE S == his(a)
    <2>1. IsFiniteSet(S) /\ \A n \in S : f[n] \in Int
      BY <1>2, <1>4, <1>6
    <2> HIDE DEF S, f
    <2>2. SumFunctionOnSet(f, S) \in Int
      BY <2>1, SumInt
    <2>3. QED BY <1>5, <2>2 DEF S
  <1>8. ASSUME NEW a, a \notin AgentsAt(t, places) PROVE Given(t, places, a) = 0
    <2>1. his(a) = {}
      BY <1>8 DEF AgentsAt
    <2> HIDE DEF f, his
    <2>2. QED BY <1>5, <2>1, SumEmpty
  <1>9. ASSUME OneEach(seen), NEW n \in places
        PROVE  Given(t, places, seen[<<"COM", o, n>>].agent) = seen[<<"COM", o, n>>].amount
    <2> DEFINE a == seen[<<"COM", o, n>>].agent
    <2>1. ASSUME NEW m \in his(a) PROVE m = n
      <3> DEFINE q == <<"COM", o, m>>
                 r == <<"COM", o, n>>
      <3>1. /\ q \in DOMAIN seen /\ r \in DOMAIN seen /\ q[1] = "COM" /\ r[1] = "COM" /\ q[2] = r[2]
            /\ seen[q].agent = seen[r].agent /\ q[3] = m /\ r[3] = n
        BY <1>3, <2>1
      <3>2. q = r
        BY <1>9, <3>1 DEF OneEach
      <3>3. QED BY <3>1, <3>2
    <2>2. n \in his(a) /\ his(a) \ {n} = {}
      BY <2>1
    <2>3. \A m \in his(a) : f[m] \in Int
      BY <1>4, <1>6
    <2>4. f[n] = seen[<<"COM", o, n>>].amount /\ f[n] \in Int
      BY <1>4
    <2> DEFINE S == his(a)
    <2>5. SumFunctionOnSet(f, S) = f[n] + SumFunctionOnSet(f, S \ {n})
      <3>1. IsFiniteSet(S) /\ n \in S /\ \A m \in S : f[m] \in Int
        BY <1>2, <2>2, <2>3
      <3> HIDE DEF S, f
      <3>2. QED BY <3>1, SumTakeOff
    <2>6. SumFunctionOnSet(f, S \ {n}) = 0
      <3> HIDE DEF f
      <3>1. QED BY <2>2, SumEmpty
    <2>7. SumFunctionOnSet(f, his(a)) = f[n]
      <3> HIDE DEF f, his
      <3>1. QED BY <2>4, <2>5, <2>6
    <2>8. QED BY <1>5, <2>4, <2>7
  <1>10. QED BY <1>7, <1>8, <1>9

-----------------------------------------------------------------------------
\* The books are right after every step.

LEMMA BooksInitially == Init => BooksInv
  <1> SUFFICES ASSUME Init PROVE BooksInv
    OBVIOUS
  <1>1. /\ DOMAIN order = {} /\ DOMAIN record = {} /\ DOMAIN journal = {} /\ DOMAIN handlers = {}
        /\ events = {} /\ balance = [a \in Agents |-> 0] /\ paidOut = [a \in Agents |-> 0]
    BY DEF Init
  <1>2. Books(record, journal)
    BY <1>1, FS_EmptySet DEF Books, RecordsTyped, JournalTyped, JournalFollows, OneEach
  <1>3. ASSUME NEW a \in Agents PROVE Explained(record, journal, balance, a)
    <2> DEFINE f == [r \in DOMAIN record |-> record[r].amount]
               g == [k \in DOMAIN journal |-> OffBy(journal, k)]
    <2>1. Of(record, a) = {} /\ Of(journal, a) = {}
      BY <1>1 DEF Of
    <2>2. Recorded(record, a) = SumFunctionOnSet(f, {}) /\ Off(journal, a) = SumFunctionOnSet(g, {})
      BY <2>1 DEF Recorded, Off
    <2> HIDE DEF f, g
    <2>3. Recorded(record, a) = 0 /\ Off(journal, a) = 0
      BY <2>2, SumEmpty
    <2>4. QED BY <1>1, <2>3 DEF Explained
  <1>4. QED BY <1>1, <1>2, <1>3 DEF BooksInv

\* What a transaction that can write has seen, on a serialising database.
LEMMA WritableSees ==
    ASSUME NEW t, Writable(t), setting.isolation = "serial"
    PROVE  t.seen.order = order /\ t.seen.record = record /\ t.seen.balance = balance
  BY DEF Writable, Tables

LEMMA EndBooks ==
    ASSUME IInv, BooksInv, NEW x, End(x), setting' = setting, paidOut' = paidOut,
           DOMAIN order' \subseteq Orders, \A o \in DOMAIN order' : order'[o] \in Order,
           balance' \in [Agents -> Int],
           events' \subseteq {"recharge.paid", "recharge.refunded"} \X Orders,
           Books(record', journal'),
           ASSUME setting.isolation = "serial"
           PROVE  /\ \A k \in DOMAIN journal' : Carries(k, journal'[k])
                  /\ \A a \in Agents : Explained(record', journal', balance', a)
    PROVE  BooksInv'
  <1>1. \A y \in DOMAIN handlers' : y \in DOMAIN handlers /\ handlers'[y] = handlers[y]
    BY DEF End
  <1>2. \A y \in DOMAIN handlers' : /\ y \in Handlers /\ handlers'[y].order \in Orders
                                    /\ handlers'[y].key \in CallbackKeys \cup {NoKey}
                                    /\ TablesTyped(handlers'[y].seen)
    BY <1>1 DEF BooksInv
  <1>3. paidOut' \in [Agents -> Nat]
    BY DEF BooksInv
  <1>4. ASSUME setting'.isolation = "serial"
        PROVE  /\ \A k \in DOMAIN journal' : Carries(k, journal'[k])
               /\ \A a \in Agents : Explained(record, journal, balance, a)'
    <2>1. /\ \A k \in DOMAIN journal' : Carries(k, journal'[k])
          /\ \A a \in Agents : Explained(record', journal', balance', a)
      BY <1>4
    <2>2. QED BY <2>1 DEF Explained, Recorded, Off, Of, OffBy
  <1>5. Books(record, journal)'
    BY DEF Books, RecordsTyped, JournalTyped, JournalFollows, OneEach
  <1>6. (\A y \in DOMAIN handlers : TablesTyped(handlers[y].seen))'
    BY <1>2 DEF TablesTyped, RecordsTyped
  <1>7. (\A k \in DOMAIN journal : Carries(k, journal[k]))' <=> \A k \in DOMAIN journal' : Carries(k, journal'[k])
    BY DEF Carries
  <1>8. QED BY <1>2, <1>3, <1>4, <1>5, <1>6, <1>7 DEF BooksInv

\* Nothing but the handler and perhaps the events changes.
LEMMA BooksUntouched ==
    ASSUME IInv, BooksInv, NEW x, End(x), UNCHANGED <<setting, tables, paidOut>>,
           events' \subseteq {"recharge.paid", "recharge.refunded"} \X Orders
    PROVE  BooksInv'
  <1>1. ASSUME setting.isolation = "serial"
        PROVE  /\ \A k \in DOMAIN journal' : Carries(k, journal'[k])
               /\ \A a \in Agents : Explained(record', journal', balance', a)
    BY <1>1 DEF BooksInv, tables
  <1>2. Books(record', journal')
    BY DEF BooksInv, tables
  <1>3. QED BY <1>1, <1>2, EndBooks DEF BooksInv, tables

LEMMA BooksBegin ==
    ASSUME IInv, BooksInv, NEW x \in Handlers, NEW op, NEW o \in Orders,
           NEW key \in CallbackKeys \cup {NoKey}, Begin(x, op, o, key)
    PROVE  BooksInv'
  <1> DEFINE t == [op |-> op, order |-> o, key |-> key, seen |-> Tables]
  <1>1. /\ UNCHANGED <<setting, order, record, journal, balance, paidOut, events>>
        /\ DOMAIN handlers' = DOMAIN handlers \cup {x} /\ handlers'[x] = t
        /\ \A y \in DOMAIN handlers : y # x /\ handlers'[y] = handlers[y]
    BY DEF Begin, tables, Put
  <1>2. TablesTyped(Tables)
    BY DEF BooksInv, Books, TablesTyped, Tables
  <1>3. ASSUME NEW y \in DOMAIN handlers'
        PROVE  /\ y \in Handlers /\ handlers'[y].order \in Orders
               /\ handlers'[y].key \in CallbackKeys \cup {NoKey} /\ TablesTyped(handlers'[y].seen)
    <2>1. CASE y = x
      BY <1>1, <1>2, <2>1
    <2>2. CASE y # x
      BY <1>1, <2>2 DEF BooksInv
    <2>3. QED BY <2>1, <2>2
  <1>4. (\A y \in DOMAIN handlers : TablesTyped(handlers[y].seen))'
    BY <1>3 DEF TablesTyped, RecordsTyped
  <1>5. QED BY <1>1, <1>3, <1>4 DEF BooksInv, Books, RecordsTyped, JournalTyped, JournalFollows, OneEach,
                                    Explained, Recorded, Off, Of, OffBy, Carries

LEMMA PayOrderBooks ==
    ASSUME IInv, BooksInv, NEW x, PayOrder(x)
    PROVE  BooksInv'
  <1> DEFINE t == handlers[x]
             o == t.order
             held == t.seen.balance
  <1>1. /\ x \in DOMAIN handlers /\ o \in Orders /\ t.key \in CallbackKeys \cup {NoKey}
        /\ held \in [Agents -> Int] /\ Writable(t) /\ o \notin DOMAIN order
        /\ End(x) /\ setting' = setting /\ paidOut' = paidOut
        /\ events' = events \cup {<<"recharge.paid", o>>}
    BY DEF PayOrder, At, BooksInv, TablesTyped
  <1>2. PICK bound \in BOOLEAN, s \in Settlements \cup {<<>>} :
          /\ DOMAIN SettledRows(t, s) \cap DOMAIN record = {}
          /\ order' = Put(order, o, [key |-> t.key, status |-> "paid", bound |-> bound])
          /\ record' = Inserted(SettledRows(t, s), record)
          /\ journal' = Inserted(CreditRows(t, s, held), journal)
          /\ balance' = [a \in Agents |-> IF a \in Paid(s) THEN held[a] + Share(s, a) ELSE balance[a]]
    BY DEF PayOrder
  <1> DEFINE held2 == [a \in Agents |-> held[a] + Share(s, a)]
  <1> HIDE DEF t
  <1>3. DOMAIN order' \subseteq Orders /\ \A p \in DOMAIN order' : order'[p] \in Order
    BY <1>1, <1>2 DEF Put, Order, BooksInv
  <1>4. events' \subseteq {"recharge.paid", "recharge.refunded"} \X Orders
    BY <1>1 DEF BooksInv
  <1>5. \A a \in Agents : Share(s, a) \in Nat /\ (a \notin Paid(s) => Share(s, a) = 0)
    BY ShareFacts DEF Paid
  <1>6. balance \in [Agents -> Int] /\ Books(record, journal)
    BY DEF BooksInv
  <1>7. balance' \in [Agents -> Int] /\ held2 \in [Agents -> Int]
    BY <1>1, <1>2, <1>5, <1>6
  <1>8. \A r \in DOMAIN record : r[1] = "COM" /\ r[2] = o => s = <<>>
    BY <1>1 DEF IInv, RecordsOK, OfOrders
  <1>9. \A a \in Agents : held2[a] = held[a] + Share(s, a)
    OBVIOUS
  <1> HIDE DEF held, held2
  <1>10. /\ Books(record', journal') /\ Entered(record, journal, held, record', journal', held2)
         /\ \A k \in DOMAIN journal' \ DOMAIN journal : Carries(k, journal'[k])
    <2>1. /\ t.order \in Orders /\ held \in [Agents -> Int] /\ held2 \in [Agents -> Int]
          /\ Books(record, journal) /\ DOMAIN SettledRows(t, s) \cap DOMAIN record = {}
          /\ \A r \in DOMAIN record : r[1] = "COM" /\ r[2] = t.order => s = <<>>
          /\ record' = Inserted(SettledRows(t, s), record)
          /\ journal' = Inserted(CreditRows(t, s, held), journal)
      BY <1>1, <1>2, <1>6, <1>7, <1>8
    <2>2. QED BY ONLY <1>9, <2>1, s \in Settlements \cup {<<>>}, SettlingEnters
  <1>11. ASSUME setting.isolation = "serial"
         PROVE  /\ \A k \in DOMAIN journal' : Carries(k, journal'[k])
                /\ \A a \in Agents : Explained(record', journal', balance', a)
    <2>1. held = balance
      BY <1>1, <1>11, WritableSees DEF held
    <2>2. balance' = held2
      <3>1. \A a \in Agents : balance'[a] = held2[a]
        BY <1>1, <1>2, <1>5, <1>6, <1>9, <2>1
      <3>2. QED BY <1>7, <3>1
    <2>3. \A k \in DOMAIN journal : journal'[k] = journal[k] /\ Carries(k, journal[k])
      BY <1>10, <1>11 DEF Entered, BooksInv
    <2>4. ASSUME NEW a \in Agents PROVE Explained(record', journal', balance', a)
      <3>1. Explained(record, journal, held, a) /\ paidOut \in [Agents -> Nat]
        BY <1>11, <2>1 DEF BooksInv
      <3>2. Explained(record', journal', held2, a)
        BY <1>1, <1>6, <1>7, <1>10, <3>1, EnteringExplains
      <3>3. QED BY <2>2, <3>2
    <2>5. QED BY <1>10, <2>3, <2>4
  <1>12. QED BY <1>1, <1>3, <1>4, <1>7, <1>10, <1>11, EndBooks

LEMMA MarkRefundedBooks ==
    ASSUME IInv, BooksInv, NEW x, MarkRefunded(x)
    PROVE  BooksInv'
  <1> DEFINE o == handlers[x].order
  <1>1. /\ o \in Orders /\ End(x) /\ setting' = setting /\ paidOut' = paidOut
        /\ record' = record /\ journal' = journal /\ balance' = balance
        /\ order' = [order EXCEPT ![o].status = "refunded"]
        /\ events' = events \cup {<<"recharge.refunded", o>>}
    BY DEF MarkRefunded, SetRefunded, At, BooksInv
  <1>2. DOMAIN order' \subseteq Orders /\ \A p \in DOMAIN order' : order'[p] \in Order
    BY <1>1 DEF BooksInv, Order
  <1>3. events' \subseteq {"recharge.paid", "recharge.refunded"} \X Orders
    BY <1>1 DEF BooksInv
  <1>4. balance' \in [Agents -> Int] /\ Books(record', journal')
    BY <1>1 DEF BooksInv
  <1>5. ASSUME setting.isolation = "serial"
        PROVE  /\ \A k \in DOMAIN journal' : Carries(k, journal'[k])
               /\ \A a \in Agents : Explained(record', journal', balance', a)
    BY <1>1, <1>5 DEF BooksInv
  <1> HIDE DEF o
  <1>6. QED BY <1>1, <1>2, <1>3, <1>4, <1>5, EndBooks

LEMMA ReverseOrderBooks ==
    ASSUME IInv, BooksInv, NEW x, ReverseOrder(x)
    PROVE  BooksInv'
  <1> DEFINE t == handlers[x]
             o == t.order
             taken == {n \in Settled(t) : <<"COM-R", o, n>> \in DOMAIN record}
             done == {n \in Settled(t) : \A m \in taken : n < m}
             Less(a) == LET left == t.seen.balance[a] - Given(t, done, a) IN IF left < 0 THEN 0 ELSE left
             after == [a \in Agents |-> Less(a)]
             rows == [k \in {<<"LEDGER-R", o, n>> : n \in done} |->
                        LET original == t.seen.record[<<"COM", o, k[3]>>]
                        IN  [agent |-> original.agent, amount |-> -original.amount,
                             before |-> t.seen.balance[original.agent], after |-> Less(original.agent)]]
  <1>1. /\ x \in DOMAIN handlers /\ o \in Orders /\ Writable(t)
        /\ End(x) /\ setting' = setting /\ paidOut' = paidOut
        /\ record' = Inserted(Reversals(t, "COM-R", done), Inserted(Marked(t, done), record))
        /\ journal' = Inserted(rows, journal)
        /\ balance' = [a \in Agents |-> IF a \in AgentsAt(t, done) THEN Less(a) ELSE balance[a]]
        /\ order' = order \/ order' = [order EXCEPT ![o].status = "refunded"]
        /\ events' = events \cup {<<"recharge.refunded", o>>}
    BY DEF ReverseOrder, At, BooksInv, SetRefunded
  <1>2. SeenStands(t.seen) /\ TablesTyped(t.seen)
    BY <1>1, WritableStands DEF BooksInv
  <1> HIDE DEF t
  <1>3. /\ RecordsTyped(t.seen.record) /\ t.seen.balance \in [Agents -> Int]
        /\ DOMAIN t.seen.record \subseteq DOMAIN record
    BY <1>2 DEF SeenStands, TablesTyped
  <1>4. done \in SUBSET Places(t.seen.record, o)
    BY DEF Settled
  <1>5. \A n \in done : <<"COM-R", o, n>> \notin DOMAIN record
    <2> SUFFICES ASSUME NEW n \in done, <<"COM-R", o, n>> \in DOMAIN record PROVE FALSE
      OBVIOUS
    <2>1. n \in taken
      OBVIOUS
    <2>2. n < n
      BY <2>1
    <2>3. n \in Nat
      BY <1>1, <1>3, <1>4, OriginalAt DEF o
    <2>4. QED BY ONLY <2>2, <2>3
  <1>6. \A a : Given(t, done, a) \in Int
    BY <1>1, <1>3, <1>4, GivenFacts
  <1>7. \A a \in Agents : Less(a) \in Int
    BY <1>3, <1>6
  <1>8. after \in [Agents -> Int]
    BY <1>7
  <1>9. rows = DebitRows(t, "LEDGER-R", done, after)
    <2>1. \A n \in done : t.seen.record[<<"COM", o, n>>].agent \in Agents
      BY <1>1, <1>3, <1>4, OriginalAt
    <2>2. \A k \in {<<"LEDGER-R", o, n>> : n \in done} :
            after[t.seen.record[<<"COM", o, k[3]>>].agent] = Less(t.seen.record[<<"COM", o, k[3]>>].agent)
      BY <2>1
    <2> HIDE DEF after, Less, done
    <2>3. QED BY <2>2 DEF DebitRows
  <1> HIDE DEF done, taken, rows
  <1>10. Books(record, journal) /\ balance \in [Agents -> Int]
    BY DEF BooksInv
  <1>11. balance' \in [Agents -> Int]
    BY <1>1, <1>7, <1>10
  <1>12. \A a \in Agents : balance'[a] = IF a \in AgentsAt(t, done) THEN after[a] ELSE balance[a]
    BY <1>1
  <1> HIDE DEF after, Less
  <1>13. /\ Books(record', journal') /\ Debited(t, "LEDGER-R", done, after, journal')
         /\ Lowered(t, done, after, balance')
              => Entered(record, journal, balance, record', journal', balance')
    <2>1. /\ t.order \in Orders /\ done \in SUBSET Places(t.seen.record, t.order)
          /\ \A n \in done : <<"COM-R", t.order, n>> \notin DOMAIN record
          /\ record' = Inserted(Reversals(t, "COM-R", done), Inserted(Marked(t, done), record))
          /\ journal' = Inserted(DebitRows(t, "LEDGER-R", done, after), journal)
      BY <1>1, <1>4, <1>5, <1>9
    <2>2. Paired("COM-R", "LEDGER-R")
      BY DEF Paired
    <2> HIDE DEF o
    <2>3. QED BY ONLY <1>2, <1>3, <1>8, <1>10, <2>1, <2>2, ReversingEnters
  <1>14. ASSUME setting.isolation = "serial"
         PROVE  /\ \A k \in DOMAIN journal' : Carries(k, journal'[k])
                /\ \A a \in Agents : Explained(record', journal', balance', a)
    <2>1. t.seen.record = record /\ t.seen.balance = balance
      BY <1>1, <1>14, WritableSees
    <2>2. Entered(record, journal, balance, record', journal', balance')
      BY <1>11, <1>12, <1>13, <2>1 DEF Lowered
    <2>3. \A k \in DOMAIN journal : journal'[k] = journal[k] /\ Carries(k, journal[k])
      BY <1>14, <2>2 DEF Entered, BooksInv
    <2>4. ASSUME NEW k \in DOMAIN journal' \ DOMAIN journal PROVE Carries(k, journal'[k])
      <3>1. PICK n \in done :
              LET original == t.seen.record[<<"COM", t.order, n>>]
              IN  /\ k[1] = "LEDGER-R" /\ journal'[k].agent = original.agent
                  /\ journal'[k].amount = -original.amount
                  /\ journal'[k].before = t.seen.balance[original.agent]
                  /\ journal'[k].after = after[original.agent]
        BY <1>13 DEF Debited
      <3> DEFINE original == t.seen.record[<<"COM", t.order, n>>]
                 row == journal'[k]
      <3>2. OneEach(t.seen.record)
        BY <1>10, <2>1 DEF Books
      <3>3. original.agent \in Agents /\ original.amount \in Int
        BY <1>1, <1>3, <1>4, OriginalAt
      <3>4. Given(t, done, original.agent) = original.amount
        BY <1>1, <1>3, <1>4, <3>2, GivenFacts
      <3> DEFINE b == t.seen.balance[original.agent]
                 m == original.amount
                 p == after[original.agent]
      <3>5. p = IF b - m < 0 THEN 0 ELSE b - m
        BY <3>3, <3>4 DEF after, Less
      <3>6. b \in Int /\ m \in Int
        BY <1>3, <3>3
      <3>7. row.amount = -m /\ row.before = b /\ row.after = p /\ k[1] = "LEDGER-R"
        BY <3>1
      <3> HIDE DEF row, b, m, p
      <3>8. row.after = row.before + row.amount \/ (row.after = 0 /\ row.before + row.amount < 0)
        BY <3>5, <3>6, <3>7
      <3>9. QED BY <3>7, <3>8 DEF Carries, row
    <2>5. ASSUME NEW a \in Agents PROVE Explained(record', journal', balance', a)
      <3>1. Explained(record, journal, balance, a) /\ paidOut \in [Agents -> Nat]
        BY <1>14 DEF BooksInv
      <3>2. QED BY <1>10, <1>11, <1>13, <2>2, <3>1, EnteringExplains
    <2>6. QED BY <2>3, <2>4, <2>5
  <1>15. DOMAIN order' \subseteq Orders /\ \A p \in DOMAIN order' : order'[p] \in Order
    BY <1>1 DEF BooksInv, Order
  <1>16. events' \subseteq {"recharge.paid", "recharge.refunded"} \X Orders
    BY <1>1 DEF BooksInv
  <1>17. QED BY <1>1, <1>11, <1>13, <1>14, <1>15, <1>16, EndBooks

LEMMA RecalculateBooks ==
    ASSUME IInv, BooksInv, NEW x, Recalculate(x)
    PROVE  BooksInv'
  <1> DEFINE t == handlers[x]
             o == t.order
             back == Settled(t)
             Left(a) == t.seen.balance[a] - Given(t, back, a)
             rows == Reversals(t, "COM-RC", back)
             debits == [k \in {<<"RC-REV", o, n>> : n \in back} |->
                          LET original == t.seen.record[<<"COM", o, k[3]>>]
                          IN  [agent |-> original.agent, amount |-> -original.amount,
                               before |-> t.seen.balance[original.agent], after |-> Left(original.agent)]]
             held == [a \in Agents |-> Left(a)]
             mid == Inserted(rows, Inserted(Marked(t, back), record))
             midj == Inserted(debits, journal)
  <1>1. /\ x \in DOMAIN handlers /\ t.op = "recalculate" /\ o \in Orders /\ Writable(t)
        /\ TablesTyped(t.seen) /\ DOMAIN rows \cap DOMAIN record = {}
        /\ order' = order /\ events' = events /\ End(x) /\ setting' = setting /\ paidOut' = paidOut
    BY DEF Recalculate, At, BooksInv
  <1>2. PICK s \in Settlements \cup {<<>>} :
          /\ DOMAIN SettledRows(t, s) \cap DOMAIN record = {}
          /\ record' = Inserted(SettledRows(t, s), mid)
          /\ journal' = Inserted(CreditRows(t, s, held), midj)
          /\ balance' = [a \in Agents |-> IF a \in AgentsAt(t, back) \cup Paid(s)
                                          THEN held[a] + Share(s, a) ELSE balance[a]]
    BY DEF Recalculate
  <1>3. setting.isolation = "serial"
    BY <1>1, Isolation DEF IInv, NoRecalculation
  <1>4. t.seen.record = record /\ t.seen.balance = balance
    BY <1>1, <1>3, WritableSees
  <1>5. Books(record, journal) /\ balance \in [Agents -> Int] /\ paidOut \in [Agents -> Nat]
    BY DEF BooksInv
  <1>6. RecordsTyped(t.seen.record) /\ t.seen.balance \in [Agents -> Int] /\ OneEach(t.seen.record)
    BY <1>1, <1>4, <1>5 DEF TablesTyped, Books
  <1>7. back \in SUBSET Places(t.seen.record, o)
    BY DEF Settled
  <1> HIDE DEF t
  <1>8. \A a : /\ Given(t, back, a) \in Int
               /\ a \notin AgentsAt(t, back) => Given(t, back, a) = 0
    BY <1>1, <1>6, <1>7, GivenFacts
  <1>9. \A n \in back : LET original == t.seen.record[<<"COM", o, n>>]
                        IN  /\ Given(t, back, original.agent) = original.amount
                            /\ original.agent \in Agents /\ original.amount \in Int
    BY <1>1, <1>6, <1>7, GivenFacts, OriginalAt
  <1>10. \A a \in Agents : held[a] = t.seen.balance[a] - Given(t, back, a) /\ held[a] \in Int
    BY <1>6, <1>8
  <1>11. held \in [Agents -> Int]
    BY <1>10
  <1>12. debits = DebitRows(t, "RC-REV", back, held)
    <2>1. \A k \in {<<"RC-REV", o, n>> : n \in back} :
            held[t.seen.record[<<"COM", o, k[3]>>].agent] = Left(t.seen.record[<<"COM", o, k[3]>>].agent)
      BY <1>9
    <2> HIDE DEF held, Left, back
    <2>2. QED BY <2>1 DEF DebitRows
  <1>13. DOMAIN rows = {<<"COM-RC", o, n>> : n \in back}
    BY DEF Reversals
  <1>14. \A n \in back : <<"COM-RC", o, n>> \notin DOMAIN record
    BY <1>1, <1>13
  <1>15. DOMAIN mid = DOMAIN rows \cup DOMAIN Marked(t, back) \cup DOMAIN record
    BY DEF Inserted
  <1>16. \A r \in DOMAIN mid : r[1] = "COM" => r \in DOMAIN record
    <2>1. \A n \in back : <<"COM", o, n>> \in DOMAIN record
      BY <1>1, <1>4, <1>6, <1>7, OriginalAt
    <2>2. DOMAIN Marked(t, back) \subseteq DOMAIN record
      BY <2>1 DEF Marked
    <2> HIDE DEF mid, rows, back
    <2>3. QED BY <1>13, <1>15, <2>2
  <1> HIDE DEF rows, debits, back, Left
  <1>17. Lowered(t, back, held, held)
    <2>1. ASSUME NEW a \in Agents, a \notin AgentsAt(t, back) PROVE held[a] = balance[a]
      BY <1>4, <1>5, <1>8, <1>10, <2>1
    <2> HIDE DEF held
    <2>2. QED BY <1>4, <1>11, <2>1 DEF Lowered
  <1> HIDE DEF held
  <1>18. /\ Books(mid, midj) /\ Debited(t, "RC-REV", back, held, midj)
         /\ Entered(record, journal, balance, mid, midj, held)
    <2>1. /\ t.order \in Orders /\ back \in SUBSET Places(t.seen.record, t.order)
          /\ \A n \in back : <<"COM-RC", t.order, n>> \notin DOMAIN record
          /\ mid = Inserted(Reversals(t, "COM-RC", back), Inserted(Marked(t, back), record))
          /\ midj = Inserted(DebitRows(t, "RC-REV", back, held), journal)
          /\ DOMAIN t.seen.record \subseteq DOMAIN record
      BY <1>1, <1>4, <1>7, <1>12, <1>14 DEF rows
    <2>2. Paired("COM-RC", "RC-REV")
      BY DEF Paired
    <2> HIDE DEF o, mid, midj
    <2>3. /\ Books(mid, midj) /\ Debited(t, "RC-REV", back, held, midj)
          /\ Lowered(t, back, held, held) => Entered(record, journal, balance, mid, midj, held)
      BY ONLY <1>1, <1>5, <1>11, <2>1, <2>2, ReversingEnters
    <2>4. QED BY <1>17, <2>3
  <1> DEFINE held2 == [a \in Agents |-> held[a] + Share(s, a)]
  <1>19. \A a \in Agents : Share(s, a) \in Nat /\ (a \notin Paid(s) => Share(s, a) = 0)
    BY ShareFacts DEF Paid
  <1>20. held2 \in [Agents -> Int] /\ \A a \in Agents : held2[a] = held[a] + Share(s, a)
    BY <1>10, <1>19
  <1>numbers. DOMAIN SettledRows(t, s) = {<<"COM", o, n>> : n \in DOMAIN s}
    BY DEF SettledRows, Numbers
  <1>21. DOMAIN SettledRows(t, s) \cap DOMAIN mid = {}
    <2>1. \A r \in DOMAIN SettledRows(t, s) : r[1] = "COM"
      BY <1>numbers
    <2> HIDE DEF mid
    <2>2. QED BY <1>2, <1>16, <2>1
  <1>22. ASSUME NEW r \in DOMAIN mid, r[1] = "COM", r[2] = o PROVE s = <<>>
    <2>1. r \in DOMAIN record
      BY <1>16, <1>22
    <2>2. <<"COM", o, 1>> \in DOMAIN record
      BY <1>22, <2>1 DEF IInv, RecordsOK, Together
    <2>3. 1 \notin DOMAIN s
      BY <1>2, <1>numbers, <2>2
    <2>4. s \in Seq([agent : Agents, amount : Nat \ {0}])
      BY SettlementFacts
    <2>5. QED BY ONLY <2>3, <2>4
  <1> HIDE DEF mid, midj, held2
  <1>23. /\ Books(record', journal') /\ Entered(mid, midj, held, record', journal', held2)
         /\ \A k \in DOMAIN journal' \ DOMAIN midj : Carries(k, journal'[k])
    <2>1. /\ t.order \in Orders /\ \A r \in DOMAIN mid : r[1] = "COM" /\ r[2] = t.order => s = <<>>
          /\ record' = Inserted(SettledRows(t, s), mid)
          /\ journal' = Inserted(CreditRows(t, s, held), midj)
      BY <1>1, <1>2, <1>22
    <2>2. QED BY ONLY <1>11, <1>18, <1>20, <1>21, <2>1, s \in Settlements \cup {<<>>}, SettlingEnters
  <1>24. \A a \in Agents : balance'[a] = held2[a]
    BY <1>2, <1>4, <1>8, <1>10, <1>19, <1>20, <1>5
  <1>25. balance' = held2 /\ balance' \in [Agents -> Int]
    <2>1. balance' = [a \in Agents |-> balance'[a]]
      BY <1>2
    <2>2. held2 = [a \in Agents |-> held2[a]]
      BY <1>20
    <2>3. QED BY <1>20, <1>24, <2>1, <2>2
  <1>26. ASSUME NEW a \in Agents PROVE Explained(record', journal', balance', a)
    <2>1. Explained(record, journal, balance, a)
      BY <1>3 DEF BooksInv
    <2>2. Explained(mid, midj, held, a)
      BY <1>5, <1>11, <1>18, <2>1, EnteringExplains
    <2>3. Explained(record', journal', held2, a)
      BY <1>5, <1>11, <1>18, <1>20, <1>23, <2>2, EnteringExplains
    <2>4. QED BY <1>25, <2>3
  <1>27. ASSUME NEW k \in DOMAIN midj \ DOMAIN journal PROVE Carries(k, midj[k])
    <2>1. PICK n \in back :
            LET original == t.seen.record[<<"COM", t.order, n>>]
            IN  /\ k[1] = "RC-REV" /\ midj[k].agent = original.agent
                /\ midj[k].amount = -original.amount
                /\ midj[k].before = t.seen.balance[original.agent]
                /\ midj[k].after = held[original.agent]
      BY <1>18 DEF Debited
    <2> DEFINE original == t.seen.record[<<"COM", t.order, n>>]
               b == t.seen.balance[original.agent]
               m == original.amount
               row == midj[k]
    <2>2. held[original.agent] = b - m /\ b \in Int /\ m \in Int
      BY <1>6, <1>9, <1>10
    <2>3. row.amount = -m /\ row.before = b /\ row.after = b - m
      BY <2>1, <2>2
    <2> HIDE DEF row, b, m
    <2>4. row.after = row.before + row.amount
      BY <2>2, <2>3
    <2>5. QED BY <2>4 DEF Carries, row
  <1>28. \A k \in DOMAIN journal' : Carries(k, journal'[k])
    <2>1. \A k \in DOMAIN midj : journal'[k] = midj[k]
      BY <1>23 DEF Entered
    <2>2. \A k \in DOMAIN journal : midj[k] = journal[k] /\ Carries(k, journal[k])
      BY <1>3, <1>18 DEF Entered, BooksInv
    <2>3. QED BY <1>23, <1>27, <2>1, <2>2
  <1>29. DOMAIN order' \subseteq Orders /\ \A p \in DOMAIN order' : order'[p] \in Order
    BY <1>1 DEF BooksInv
  <1>30. events' \subseteq {"recharge.paid", "recharge.refunded"} \X Orders
    BY <1>1 DEF BooksInv
  <1>31. QED BY <1>1, <1>23, <1>25, <1>26, <1>28, <1>29, <1>30, EndBooks

\* A withdrawal takes out of the balance what it pays.
LEMMA PayOutBooks ==
    ASSUME BooksInv, NEW a \in Agents, PayOut(a)
    PROVE  BooksInv'
  <1>1. /\ balance' = [balance EXCEPT ![a] = @ - 1] /\ paidOut' = [paidOut EXCEPT ![a] = @ + 1]
        /\ UNCHANGED <<setting, order, record, journal, events, handlers>>
    BY DEF PayOut
  <1>2. balance \in [Agents -> Int] /\ paidOut \in [Agents -> Nat] /\ JournalTyped(journal)
    BY DEF BooksInv, Books
  <1>3. balance' \in [Agents -> Int] /\ paidOut' \in [Agents -> Nat]
    BY <1>1, <1>2
  <1>4. ASSUME NEW b \in Agents, Explained(record, journal, balance, b)
        PROVE  balance'[b] + paidOut'[b] - Off(journal, b) = Recorded(record, b)
    <2>1. Off(journal, b) \in Int
      BY <1>2, OffAdds
    <2>2. balance[b] + paidOut[b] - Off(journal, b) = Recorded(record, b)
      BY <1>4 DEF Explained
    <2>3. balance'[b] + paidOut'[b] = balance[b] + paidOut[b] /\ balance[b] \in Int /\ paidOut[b] \in Int
          /\ balance'[b] \in Int /\ paidOut'[b] \in Int
      BY <1>1, <1>2
    <2>4. QED BY <2>1, <2>2, <2>3
  <1>5. setting.isolation = "serial" =>
          /\ \A k \in DOMAIN journal : Carries(k, journal[k])
          /\ \A b \in Agents : Explained(record, journal, balance, b)'
    <2>1. ASSUME NEW b \in Agents, Explained(record, journal, balance, b)
          PROVE  Explained(record, journal, balance, b)'
      BY <1>1, <1>4, <2>1 DEF Explained, Recorded, Off, Of, OffBy
    <2>2. QED BY <2>1 DEF BooksInv
  <1>6. QED BY <1>1, <1>3, <1>5 DEF BooksInv, Books, RecordsTyped, JournalTyped, JournalFollows, OneEach,
                                    TablesTyped, Carries

LEMMA BooksStep == IInv /\ BooksInv /\ [Next]_vars => BooksInv'
  <1> SUFFICES ASSUME IInv, BooksInv, [Next]_vars PROVE BooksInv'
    OBVIOUS
  <1>1. ASSUME NEW x \in Handlers, NEW op \in {"paid", "refund"}, NEW o \in Orders,
               NEW key \in CallbackKeys \cup {NoKey}, Begin(x, op, o, key)
        PROVE  BooksInv'
    BY <1>1, BooksBegin
  <1>2. ASSUME NEW x \in Handlers, NEW o \in Orders, Begin(x, "recalculate", o, NoKey) PROVE BooksInv'
    BY <1>2, BooksBegin
  <1>3. ASSUME NEW x \in Handlers, AnswerDuplicate(x) PROVE BooksInv'
    <2>1. /\ handlers[x].order \in Orders
          /\ events' = events \/ events' = events \cup {<<"recharge.refunded", handlers[x].order>>}
          /\ End(x) /\ UNCHANGED <<setting, tables, paidOut>>
      BY <1>3 DEF AnswerDuplicate, At, BooksInv
    <2>2. events' \subseteq {"recharge.paid", "recharge.refunded"} \X Orders
      BY <2>1 DEF BooksInv
    <2>3. QED BY <2>1, <2>2, BooksUntouched
  <1>4. ASSUME NEW x \in Handlers, PayOrder(x) PROVE BooksInv'
    BY <1>4, PayOrderBooks
  <1>5. ASSUME NEW x \in Handlers, MarkRefunded(x) PROVE BooksInv'
    BY <1>5, MarkRefundedBooks
  <1>6. ASSUME NEW x \in Handlers, ReverseOrder(x) PROVE BooksInv'
    BY <1>6, ReverseOrderBooks
  <1>7. ASSUME NEW x \in Handlers, Recalculate(x) PROVE BooksInv'
    BY <1>7, RecalculateBooks
  <1>8. ASSUME NEW x \in Handlers, Fail(x) PROVE BooksInv'
    BY <1>8, BooksUntouched DEF Fail, BooksInv
  <1>9. ASSUME NEW a \in Agents, PayOut(a) PROVE BooksInv'
    BY <1>9, PayOutBooks
  <1>10. CASE UNCHANGED vars
    BY <1>10 DEF vars, tables, BooksInv, Books, RecordsTyped, JournalTyped, JournalFollows, OneEach,
                 TablesTyped, Carries, Explained, Recorded, Off, Of, OffBy
  <1>11. QED BY <1>1, <1>2, <1>3, <1>4, <1>5, <1>6, <1>7, <1>8, <1>9, <1>10 DEF Next

\* Every table and every transaction has its type and every row its sign, under
\* any interleaving and either isolation, without recalculations on snapshots.
\* (callback.go:113-150, 344-545; recalculation/service.go:316-428)
THEOREM TypeCorrect == Spec /\ ~RecalculatesOnSnapshot => []RechargeTypeOK
  <1>1. Init /\ ~RecalculatesOnSnapshot => IInv /\ BooksInv
    BY InitHolds, BooksInitially
  <1>2. IInv /\ BooksInv /\ [Next]_vars => (IInv /\ BooksInv)'
    BY StepHolds, BooksStep
  <1>3. IInv /\ BooksInv => RechargeTypeOK
    BY BooksImply
  <1>4. QED BY <1>1, <1>2, <1>3, PTL DEF Spec

LEMMA SettingStays == [Next]_vars => setting' = setting
  BY DEF Next, Begin, AnswerDuplicate, PayOrder, MarkRefunded, ReverseOrder, Recalculate, Fail,
         PayOut, vars

\* On a database that serialises transactions the balance of an agent is what
\* the records gave and took, less what was paid out, plus what refunds wrote
\* off; and every ledger row carries its amount from one balance to the next
\* but for those write-offs.  (callback.go:344-429, 436-545;
\* recalculation/service.go:316-428)
THEOREM BalancesExplained == Spec => []BalanceExplained
  <1> DEFINE J == RecalculatesOnSnapshot \/ (IInv /\ BooksInv)
  <1>1. Init => J
    BY InitHolds, BooksInitially
  <1>2. J /\ [Next]_vars => J'
    <2>1. RecalculatesOnSnapshot /\ [Next]_vars => RecalculatesOnSnapshot'
      BY SettingStays DEF RecalculatesOnSnapshot
    <2>2. QED BY <2>1, StepHolds, BooksStep
  <1>3. J => BalanceExplained
    <2>1. RecalculatesOnSnapshot => BalanceExplained
      BY DEF RecalculatesOnSnapshot, BalanceExplained
    <2>2. QED BY <2>1, BooksImply
  <1>4. QED BY <1>1, <1>2, <1>3, PTL DEF Spec
=============================================================================
