------------------------------ MODULE Recharge ------------------------------
(***************************************************************************)
(* Recharge callbacks and the recalculation of their commission: orders,   *)
(* commission records, the balances and ledger rows of the agents.  Every  *)
(* handler is one database transaction, which reads everything it decides  *)
(* on when it begins and writes when it commits; as in AgentLedger the     *)
(* isolation of the database says whether another may have written since.  *)
(* What the rules and the relation tree give for an order - agents from    *)
(* the bound one upwards, and amounts - is chosen freely at every          *)
(* settlement, since both may have changed since the last one.             *)
(***************************************************************************)
EXTENDS LedgerOps, Sequences, FiniteSets, FiniteSetsExt

CONSTANTS Orders, Agents,
          Handlers,      \* callbacks and tasks in progress at a time
          CallbackKeys,  \* idempotency keys; an order without one has NoKey
          NoKey,
          Settlements,   \* sequences of [agent, amount]
          Settings,      \* [isolation, recalculates], one of which a behaviour keeps to
          None,
          MaxPaidOut     \* bound: what withdrawals take from an agent

ASSUME RechargeAssumption ==
  /\ \A s \in Settlements :
       /\ s \in Seq([agent : Agents, amount : Nat \ {0}])
       /\ \A m, n \in DOMAIN s : s[m].agent = s[n].agent => m = n
  /\ Settings \subseteq [isolation : {"serial", "snapshot"}, recalculates : BOOLEAN]
  /\ None \notin {"COM", "COM-R", "COM-RC"} \X Orders \X (Nat \ {0})
  /\ MaxPaidOut \in Nat

VARIABLES
  setting,
  order,     \* table recharge_order: a function on the orders that exist
  record,    \* table commission_record: a function on record numbers
  journal,   \* rows of agent_account_ledger: a function on their keys
  balance,   \* of the agents' accounts
  paidOut,   \* taken from an agent by withdrawals
  events,    \* keys of the outbox
  handlers   \* transactions in flight: a function on their handlers

tables == <<order, record, journal, balance>>
vars == <<setting, tables, paidOut, events, handlers>>

\* Numbers and keys end in the place in the settlement of what they are for.
RecordNos == {"COM", "COM-R", "COM-RC"} \X Orders \X (Nat \ {0})
LedgerKeys == {"LEDGER", "LEDGER-R", "RC-REV"} \X Orders \X (Nat \ {0})

\* from: the record a reversal takes back, None for an original.
Record == [agent : Agents, amount : Int, status : {"settled", "reversed"},
           from : RecordNos \cup {None}]
LedgerRow == [agent : Agents, amount : Int, before : Int, after : Int]
Order == [key : CallbackKeys \cup {NoKey}, status : {"paid", "refunded"}, bound : BOOLEAN]

Tables == [order |-> order, record |-> record, balance |-> balance]

\* Rows inserted into a table.
Inserted(rows, table) ==
  [k \in DOMAIN rows \cup DOMAIN table |-> IF k \in DOMAIN rows THEN rows[k] ELSE table[k]]

Init ==
  /\ setting \in Settings
  /\ order = [o \in {} |-> None] /\ record = [r \in {} |-> None]
  /\ journal = [k \in {} |-> None]
  /\ balance = [a \in Agents |-> 0] /\ paidOut = [a \in Agents |-> 0]
  /\ events = {}
  /\ handlers = [x \in {} |-> None]

\* Does the behaviour recalculate where a transaction may commit on what
\* others have changed since it began?
RecalculatesOnSnapshot == setting.isolation = "snapshot" /\ setting.recalculates

-----------------------------------------------------------------------------
\* Transactions.

At(x, op) == x \in DOMAIN handlers /\ handlers[x].op = op
End(x) == handlers' = [y \in DOMAIN handlers \ {x} |-> handlers[y]]

\* A callback arrives, or a task reaches an order.
Begin(x, op, o, key) ==
  /\ x \notin DOMAIN handlers
  /\ op = "recalculate" => setting.recalculates
  /\ handlers' = Put(handlers, x, [op |-> op, order |-> o, key |-> key, seen |-> Tables])
  /\ UNCHANGED <<setting, tables, paidOut, events>>

\* Mutant: a transaction writes over what changed since it began.
WritableAlways(t) == TRUE

\* Can a transaction still write?  On SQLite only if no other has meanwhile.
Writable(t) == setting.isolation = "serial" => t.seen = Tables

\* An error: one of the many checks, a broken unique index, a busy database.
Fail(x) ==
  /\ x \in DOMAIN handlers
  /\ End(x)
  /\ UNCHANGED <<setting, tables, paidOut, events>>

\* Has the callback been answered before, going by its key?
KeyKnown(t) == t.key # NoKey /\ \E o \in DOMAIN t.seen.order : t.seen.order[o].key = t.key

\* Originals of the order that a transaction sees, by their place.
Places(table, o) == {r[3] : r \in {q \in DOMAIN table : q[1] = "COM" /\ q[2] = o}}
Settled(t) ==
  {n \in Places(t.seen.record, t.order) : t.seen.record[<<"COM", t.order, n>>].status = "settled"}

\* What the originals at these places gave an agent.
Given(t, places, a) ==
  LET his == {n \in places : t.seen.record[<<"COM", t.order, n>>].agent = a}
  IN  SumFunctionOnSet([n \in places |-> t.seen.record[<<"COM", t.order, n>>].amount], his)
AgentsAt(t, places) == {t.seen.record[<<"COM", t.order, n>>].agent : n \in places}

\* Mutant: a reversal carries the amount of its original.
ReversalsUnsigned(t, kind, places) ==
  [r \in {<<kind, t.order, n>> : n \in places} |->
     [t.seen.record[<<"COM", t.order, r[3]>>] EXCEPT !.status = "reversed",
                                                     !.from = <<"COM", t.order, r[3]>>]]

\* The reversals of these originals, and the originals marked.
Reversals(t, kind, places) ==
  [r \in {<<kind, t.order, n>> : n \in places} |->
     LET original == <<"COM", t.order, r[3]>>
     IN  [t.seen.record[original] EXCEPT !.amount = -@, !.status = "reversed", !.from = original]]
Marked(t, places) ==
  [r \in {<<"COM", t.order, n>> : n \in places} |-> [record[r] EXCEPT !.status = "reversed"]]

-----------------------------------------------------------------------------
\* settleRechargeOrder: a record, a credit and a ledger row for each agent.

Share(s, a) ==
  IF \E n \in DOMAIN s : s[n].agent = a
  THEN s[CHOOSE n \in DOMAIN s : s[n].agent = a].amount ELSE 0
Paid(s) == {s[n].agent : n \in DOMAIN s}

\* Mutant: records are numbered on from those there are.
NumbersOn(t, s) ==
  [n \in DOMAIN s |-> <<"COM", t.order, n + Cardinality(Places(t.seen.record, t.order))>>]

Numbers(t, s) == [n \in DOMAIN s |-> <<"COM", t.order, n>>]

SettledRows(t, s) ==
  [r \in {Numbers(t, s)[n] : n \in DOMAIN s} |->
     LET n == CHOOSE m \in DOMAIN s : Numbers(t, s)[m] = r
     IN  [agent |-> s[n].agent, amount |-> s[n].amount, status |-> "settled", from |-> None]]

\* The ledger rows of the credits, on the balances held before them.
CreditRows(t, s, held) ==
  [k \in {<<"LEDGER", t.order, Numbers(t, s)[n][3]>> : n \in DOMAIN s} |->
     LET n == CHOOSE m \in DOMAIN s : Numbers(t, s)[m][3] = k[3]
     IN  [agent |-> s[n].agent, amount |-> s[n].amount, before |-> held[s[n].agent],
          after |-> held[s[n].agent] + s[n].amount]]

-----------------------------------------------------------------------------
\* ProcessCallback.

\* Nothing to do: the key or the order is known, or the order is refunded.
AnswerDuplicate(x) ==
  /\ At(x, "paid") \/ At(x, "refund")
  /\ LET t == handlers[x]
     IN  /\ \/ KeyKnown(t) /\ UNCHANGED events
            \/ ~KeyKnown(t) /\ t.op = "paid" /\ t.order \in DOMAIN t.seen.order /\ UNCHANGED events
            \/ /\ ~KeyKnown(t) /\ t.op = "refund" /\ t.order \in DOMAIN t.seen.order
               /\ t.seen.order[t.order].status = "refunded"
               /\ Writable(t)
               /\ events' = events \cup {<<"recharge.refunded", t.order>>}
  /\ End(x)
  /\ UNCHANGED <<setting, tables, paidOut>>

\* A paid order: order number and key are unique, also the empty key.  Without
\* a binding, or with a freeze of a risk case as the agent's latest, nothing
\* is settled.
PayOrder(x) ==
  /\ At(x, "paid")
  /\ LET t == handlers[x]
     IN  /\ ~KeyKnown(t) /\ t.order \notin DOMAIN t.seen.order
         /\ Writable(t)
         /\ t.order \notin DOMAIN order /\ \A o \in DOMAIN order : order[o].key # t.key
         /\ \E bound \in BOOLEAN, s \in Settlements \cup {<<>>} :
              /\ ~bound => s = <<>>
              /\ DOMAIN SettledRows(t, s) \cap DOMAIN record = {}
              /\ order' = Put(order, t.order, [key |-> t.key, status |-> "paid", bound |-> bound])
              /\ record' = Inserted(SettledRows(t, s), record)
              /\ journal' = Inserted(CreditRows(t, s, t.seen.balance), journal)
              /\ balance' = [a \in Agents |-> IF a \in Paid(s) THEN t.seen.balance[a] + Share(s, a)
                                              ELSE balance[a]]
         /\ events' = events \cup {<<"recharge.paid", t.order>>}
  /\ End(x)
  /\ UNCHANGED <<setting, paidOut>>

\* Does the transaction see a reversal of the order, a recalculation's included?
SeesReversal(t) ==
  \E r \in DOMAIN t.seen.record : r[2] = t.order /\ t.seen.record[r].from # None

Refundable(t) ==
  /\ t.op = "refund" /\ ~KeyKnown(t)
  /\ t.order \in DOMAIN t.seen.order /\ t.seen.order[t.order].status = "paid"

SetRefunded(o) == order' = [order EXCEPT ![o].status = "refunded"]

\* A refund of an order with a reversal only marks the order.
MarkRefunded(x) ==
  /\ At(x, "refund")
  /\ LET t == handlers[x]
     IN  /\ Refundable(t) /\ SeesReversal(t) /\ Writable(t)
         /\ SetRefunded(t.order)
         /\ events' = events \cup {<<"recharge.refunded", t.order>>}
  /\ End(x)
  /\ UNCHANGED <<setting, record, journal, balance, paidOut>>

\* reverseRechargeOrder takes the originals in their order, and stops with
\* what it has done, the order as it is, at a reversal that exists by now.
\* A balance goes no lower than zero.
ReverseOrder(x) ==
  /\ At(x, "refund")
  /\ LET t == handlers[x]
         taken == {n \in Settled(t) : <<"COM-R", t.order, n>> \in DOMAIN record}
         done == {n \in Settled(t) : \A m \in taken : n < m}
         Less(a) == LET left == t.seen.balance[a] - Given(t, done, a) IN IF left < 0 THEN 0 ELSE left
     IN  /\ Refundable(t) /\ ~SeesReversal(t) /\ Writable(t)
         /\ record' = Inserted(Reversals(t, "COM-R", done), Inserted(Marked(t, done), record))
         /\ journal' = Inserted(
              [k \in {<<"LEDGER-R", t.order, n>> : n \in done} |->
                 LET original == t.seen.record[<<"COM", t.order, k[3]>>]
                 IN  [agent |-> original.agent, amount |-> -original.amount,
                      before |-> t.seen.balance[original.agent], after |-> Less(original.agent)]],
              journal)
         /\ balance' = [a \in Agents |-> IF a \in AgentsAt(t, done) THEN Less(a) ELSE balance[a]]
         /\ IF taken = {} THEN SetRefunded(t.order) ELSE UNCHANGED order
         /\ events' = events \cup {<<"recharge.refunded", t.order>>}
  /\ End(x)
  /\ UNCHANGED <<setting, paidOut>>

-----------------------------------------------------------------------------
\* recalculateCommissionRecords, for one order of a task; a task over several is
\* one transaction, which does this for one after the other, or for none.  It
\* reverses what is settled, whatever the balance, and settles again; a number
\* or key in use fails it.  Reversals are numbered through the task, here by the
\* place of their original: the ledger key goes by the original in either case,
\* so that the same repetitions fail.

Recalculate(x) ==
  /\ At(x, "recalculate")
  /\ LET t == handlers[x]
         back == Settled(t)
         Left(a) == t.seen.balance[a] - Given(t, back, a)
         rows == Reversals(t, "COM-RC", back)
         debits == [k \in {<<"RC-REV", t.order, n>> : n \in back} |->
                      LET original == t.seen.record[<<"COM", t.order, k[3]>>]
                      IN  [agent |-> original.agent, amount |-> -original.amount,
                           before |-> t.seen.balance[original.agent], after |-> Left(original.agent)]]
     IN  /\ t.order \in DOMAIN t.seen.order
         /\ t.seen.order[t.order].status = "paid" /\ t.seen.order[t.order].bound
         /\ Writable(t)
         /\ DOMAIN rows \cap DOMAIN record = {} /\ DOMAIN debits \cap DOMAIN journal = {}
         /\ \E s \in Settlements \cup {<<>>} :
              LET held == [a \in Agents |-> Left(a)]
              IN  /\ DOMAIN SettledRows(t, s) \cap DOMAIN record = {}
                  /\ record' = Inserted(SettledRows(t, s), Inserted(rows, Inserted(Marked(t, back), record)))
                  /\ journal' = Inserted(CreditRows(t, s, held), Inserted(debits, journal))
                  /\ balance' = [a \in Agents |-> IF a \in AgentsAt(t, back) \cup Paid(s)
                                                  THEN held[a] + Share(s, a) ELSE balance[a]]
         /\ UNCHANGED <<order, events>>
  /\ End(x)
  /\ UNCHANGED <<setting, paidOut>>

\* A withdrawal is paid out of the balance.
PayOut(a) ==
  /\ balance[a] > 0 /\ paidOut[a] < MaxPaidOut
  /\ balance' = [balance EXCEPT ![a] = @ - 1]
  /\ paidOut' = [paidOut EXCEPT ![a] = @ + 1]
  /\ UNCHANGED <<setting, order, record, journal, events, handlers>>

Next ==
  \/ \E x \in Handlers :
       \/ \E op \in {"paid", "refund"}, o \in Orders, key \in CallbackKeys \cup {NoKey} :
            Begin(x, op, o, key)
       \/ \E o \in Orders : Begin(x, "recalculate", o, NoKey)
       \/ AnswerDuplicate(x) \/ PayOrder(x) \/ MarkRefunded(x) \/ ReverseOrder(x)
       \/ Recalculate(x) \/ Fail(x)
  \/ \E a \in Agents : PayOut(a)

Spec == Init /\ [][Next]_vars

-----------------------------------------------------------------------------
\* Properties.

\* Every table and transaction has its type; a reversal is negative and an
\* original is not (the models of order, record and ledger).
RechargeTypeOK ==
  /\ setting \in Settings
  /\ DOMAIN order \subseteq Orders /\ \A o \in DOMAIN order : order[o] \in Order
  /\ DOMAIN record \subseteq RecordNos
  /\ \A r \in DOMAIN record :
       /\ record[r] \in Record
       /\ IF r[1] = "COM" THEN record[r].from = None /\ record[r].amount > 0
          ELSE record[r].from # None /\ record[r].amount < 0
  /\ DOMAIN journal \subseteq LedgerKeys
  /\ \A k \in DOMAIN journal : journal[k] \in LedgerRow
  /\ balance \in [Agents -> Int] /\ paidOut \in [Agents -> Nat]
  /\ events \subseteq {"recharge.paid", "recharge.refunded"} \X Orders
  /\ DOMAIN handlers \subseteq Handlers

\* A refunded order keeps no commission and a commission is taken back at most
\* once, by a record that names it, in whatever order callbacks and
\* recalculations come, and however often.  That a refund looks for any
\* reversal before it reverses rests on a recalculation never settling an
\* order a second time: its records would have the numbers of the first.
\* Where each transaction has a snapshot the code keeps this of callbacks only:
\* a recalculation there may settle an order that was refunded meanwhile.
CommissionTakenBack ==
  \A r \in DOMAIN record : r[1] = "COM" =>
    /\ r[2] \in DOMAIN order
    /\ order[r[2]].status = "refunded" => record[r].status = "reversed"
    /\ record[r].status = "reversed" <=> \E v \in DOMAIN record : record[v].from = r
    /\ \A v, w \in DOMAIN record : record[v].from = r /\ record[w].from = r => v = w

\* What of its debits an agent did not pay, its balance having been too low.
WrittenOff(a) ==
  SumFunctionOnSet([k \in DOMAIN journal |->
                      journal[k].after - journal[k].before - journal[k].amount],
                   {k \in DOMAIN journal : journal[k].agent = a})

\* Does a ledger row carry its amount from one balance to the other?  Only a
\* refund may write off, and then leaves nothing.
CarriesAmount(k) ==
  LET row == journal[k]
  IN  \/ row.after = row.before + row.amount
      \/ k[1] = "LEDGER-R" /\ row.after = 0 /\ row.before + row.amount < 0

\* Every cent of commission is in the balance, was paid out, was taken back or
\* is written off in the ledger row of a refund that found too low a balance,
\* on a serialising database (reverseRechargeOrder,
\* recalculateCommissionRecords).
BalanceExplained ==
  setting.isolation = "serial" =>
    /\ \A k \in DOMAIN journal : CarriesAmount(k)
    /\ \A a \in Agents :
         balance[a] + paidOut[a] - WrittenOff(a)
           = SumFunctionOnSet([r \in DOMAIN record |-> record[r].amount],
                              {r \in DOMAIN record : record[r].agent = a})

=============================================================================
