------------------------- MODULE AgentLedgerProofs -------------------------
(***************************************************************************)
(* Proofs about AgentLedger for every set of agents, clients, keys and     *)
(* amounts and, unless a theorem says otherwise, for both databases.       *)
(***************************************************************************)
EXTENDS AgentLedger, SumFacts, TLAPS

\* Every amount a call may carry is a positive number of cents.
\* (ledger_runtime.go:43)
LEMMA AmountsPositive == \A n \in Amounts : n \in Nat /\ n > 0
  <1>1. Amounts \subseteq Nat \ {0}
    BY StoreAssumption
  <1>2. QED
    BY <1>1

\* An admitted entry keeps a row well typed and its books sound: the three
\* "insufficient ..." guards are exactly what the two lower bounds need.
\* (ledger_runtime.go:95-127)
LEMMA ApplyKeepsBooks ==
    ASSUME NEW acct \in Account, NEW e \in Entry, Admits(acct, e)
    PROVE  /\ ApplyEntry(acct, e) \in Account
           /\ Sound(acct) => Sound(ApplyEntry(acct, e))
           /\ JournalRow(acct, e) \in Row
  <1>0. e.amount \in Amounts /\ e.type \in LedgerTypes
    BY DEF Entry
  <1>1. e.amount \in Nat /\ e.amount > 0
    BY <1>0, AmountsPositive
  <1>2. CASE e.type = "income"
    BY <1>1, <1>2 DEF Account, Row, Sound, ApplyEntry, NextVersion, JournalRow, BalanceEffect, FrozenEffect
  <1>3. CASE e.type = "freeze"
    BY <1>1, <1>3 DEF Account, Row, Sound, ApplyEntry, NextVersion, JournalRow, BalanceEffect, FrozenEffect
  <1>4. CASE e.type = "unfreeze"
    BY <1>1, <1>4 DEF Account, Row, Sound, ApplyEntry, NextVersion, JournalRow, BalanceEffect, FrozenEffect, Admits
  <1>5. CASE e.type = "reverse"
    <2>1. CASE ReverseApplies(e.ref)
      BY <1>1, <1>5, <2>1 DEF Account, Row, Sound, ApplyEntry, NextVersion, JournalRow, BalanceEffect, FrozenEffect, Admits
    <2>2. CASE ~ReverseApplies(e.ref)
      BY <1>1, <1>5, <2>2 DEF Account, Row, Sound, ApplyEntry, NextVersion, JournalRow, BalanceEffect, FrozenEffect, Admits
    <2>3. QED BY <2>1, <2>2
  <1>6. QED BY <1>0, <1>2, <1>3, <1>4, <1>5 DEF LedgerTypes

\* The row of a new account has sound books.
LEMMA NewAccountSound == NewAccount \in Account /\ Sound(NewAccount)
  BY DEF NewAccount, Account, Sound

-----------------------------------------------------------------------------
\* BooksSound is not inductive alone: a commit writes a row computed from the
\* copy read earlier, so the copies held by the transactions in flight must be
\* sound too, however stale they are; and each is the copy of a row that exists.
SnapsSound ==
    \A c \in DOMAIN calls : /\ Sound(calls[c].snap)
                            /\ calls[c].entry.agent \in DOMAIN account

IInv == TypeOK /\ BooksSound /\ SnapsSound

\* Ending a transaction takes its client out and leaves the others alone.
LEMMA FinishFacts ==
    ASSUME NEW c, Finish(c)
    PROVE  /\ DOMAIN calls' \subseteq DOMAIN calls
           /\ \A d \in DOMAIN calls' : calls'[d] = calls[d]
  BY DEF Finish

LEMMA InitIInv == Init => IInv
  BY DEF Init, StoreInit, IInv, TypeOK, BooksSound, SnapsSound

LEMMA NextIInv == IInv /\ [Next]_vars => IInv'
  <1> SUFFICES ASSUME IInv, [Next]_vars PROVE IInv'
    OBVIOUS
  <1> USE DEF IInv
  <1>1. ASSUME NEW a \in Agents, OpenAccount(a) PROVE IInv'
    <2>1. /\ DOMAIN account' = DOMAIN account \cup {a}
          /\ account'[a] = NewAccount
          /\ \A b \in DOMAIN account : b # a => account'[b] = account[b]
      BY <1>1 DEF OpenAccount, EnsureAccount, Put
    <2>2. UNCHANGED <<journal, calls>>
      BY <1>1 DEF OpenAccount, EnsureAccount
    <2>3. QED
      BY <2>1, <2>2, NewAccountSound DEF TypeOK, BooksSound, SnapsSound
  <1>2. ASSUME NEW c \in Clients, NEW k \in Keys, NEW e \in Entry, ReadAccount(c, k, e)
        PROVE  IInv'
    <2> DEFINE t == [key |-> k, entry |-> e, snap |-> account[e.agent]]
    <2>1. /\ DOMAIN calls' = DOMAIN calls \cup {c}
          /\ calls'[c] = t
          /\ \A d \in DOMAIN calls : d # c => calls'[d] = calls[d]
      BY <1>2 DEF ReadAccount, Put
    <2>2. t \in Call /\ Sound(t.snap) /\ t.entry.agent \in DOMAIN account
      BY <1>2 DEF ReadAccount, TypeOK, BooksSound, Call
    <2>3. UNCHANGED storeVars
      BY <1>2 DEF ReadAccount
    <2>4. QED
      BY <2>1, <2>2, <2>3 DEF storeVars, TypeOK, BooksSound, SnapsSound
  <1>3. ASSUME NEW c \in Clients, CommitEntry(c) PROVE IInv'
    <2> DEFINE t == calls[c]
    <2>1. t \in Call /\ Sound(t.snap) /\ Admits(t.snap, t.entry)
      BY <1>3 DEF CommitEntry, TypeOK, SnapsSound
    <2>2. t.key \in Keys /\ t.entry \in Entry /\ t.entry.agent \in Agents /\ t.snap \in Account
      BY <2>1 DEF Call, Entry
    <2>3. /\ ApplyEntry(t.snap, t.entry) \in Account
          /\ Sound(ApplyEntry(t.snap, t.entry))
          /\ JournalRow(t.snap, t.entry) \in Row
      BY <2>1, <2>2, ApplyKeepsBooks
    <2>4. /\ DOMAIN account' = DOMAIN account \cup {t.entry.agent}
          /\ account'[t.entry.agent] = ApplyEntry(t.snap, t.entry)
          /\ \A b \in DOMAIN account : b # t.entry.agent => account'[b] = account[b]
      BY <1>3 DEF CommitEntry, Put
    <2>5. /\ DOMAIN journal' = DOMAIN journal \cup {t.key}
          /\ journal'[t.key] = JournalRow(t.snap, t.entry)
          /\ \A k \in DOMAIN journal : k # t.key => journal'[k] = journal[k]
      BY <1>3 DEF CommitEntry, Put
    <2>6. /\ DOMAIN calls' \subseteq DOMAIN calls
          /\ \A d \in DOMAIN calls' : calls'[d] = calls[d]
      BY <1>3, FinishFacts DEF CommitEntry
    <2>7. TypeOK'
      BY <2>2, <2>3, <2>4, <2>5, <2>6 DEF TypeOK
    <2>8. BooksSound' /\ SnapsSound'
      BY <2>3, <2>4, <2>6 DEF BooksSound, SnapsSound
    <2>9. QED BY <2>7, <2>8
  <1>4. ASSUME NEW c \in Clients, ReplayEntry(c) \/ FailCall(c) PROVE IInv'
    <2>1. UNCHANGED storeVars /\ Finish(c)
      BY <1>4 DEF ReplayEntry, FailCall
    <2>2. QED
      BY <2>1, FinishFacts DEF storeVars, TypeOK, BooksSound, SnapsSound
  <1>5. CASE UNCHANGED vars
    BY <1>5 DEF vars, TypeOK, BooksSound, SnapsSound
  <1>6. QED BY <1>1, <1>2, <1>3, <1>4, <1>5 DEF Next

\* The inductive invariant holds in every state of the account service.
THEOREM Invariance == Spec => []IInv
  BY InitIInv, NextIInv, PTL DEF Spec

\* Every table row and every transaction in flight keeps its type.
THEOREM TypeCorrect == Spec => []TypeOK
  BY Invariance, PTL DEF IInv

\* No interleaving of ledger transactions, on either database, drives a balance
\* or a frozen amount below zero or detaches the derived columns.
\* (ledger_runtime.go:95-127)
THEOREM BooksAlwaysSound == Spec => []BooksSound
  BY Invariance, PTL DEF IInv

-----------------------------------------------------------------------------
\* No account changes without one new journal row that says what it became, and
\* no journal row is ever rewritten, on either database.
\* (ledger_runtime.go:125-133, account/service.go:145-165)
THEOREM ChangesAreJournaled == Spec => EveryChangeJournaled
  <1> DEFINE A ==
        /\ \A k \in DOMAIN journal : k \in DOMAIN journal' /\ journal'[k] = journal[k]
        /\ \A a \in DOMAIN account :
              account'[a] # account[a] =>
                 \E k \in DOMAIN journal' \ DOMAIN journal :
                    /\ journal'[k].entry.agent = a
                    /\ journal'[k].balanceAfter = account'[a].balance
                    /\ journal'[k].frozenAfter = account'[a].frozen
  <1>1. ASSUME NEW a \in Agents, OpenAccount(a) PROVE A
    BY <1>1 DEF OpenAccount, EnsureAccount, Put
  <1>2. ASSUME NEW c \in Clients, CommitEntry(c) PROVE A
    <2> DEFINE t == calls[c]
    <2>1. /\ t.key \notin DOMAIN journal
          /\ DOMAIN journal' = DOMAIN journal \cup {t.key}
          /\ journal'[t.key] = JournalRow(t.snap, t.entry)
          /\ \A k \in DOMAIN journal : journal'[k] = journal[k]
      BY <1>2 DEF CommitEntry, Put
    <2>2. /\ account'[t.entry.agent] = ApplyEntry(t.snap, t.entry)
          /\ \A b \in DOMAIN account : b # t.entry.agent => account'[b] = account[b]
      BY <1>2 DEF CommitEntry, Put
    <2>3. /\ journal'[t.key].entry.agent = t.entry.agent
          /\ journal'[t.key].balanceAfter = account'[t.entry.agent].balance
          /\ journal'[t.key].frozenAfter = account'[t.entry.agent].frozen
      BY <2>1, <2>2 DEF JournalRow, ApplyEntry
    <2>4. QED BY <2>1, <2>2, <2>3
  <1>3. ASSUME UNCHANGED storeVars PROVE A
    BY <1>3 DEF storeVars
  <1>4. Next => A
    BY <1>1, <1>2, <1>3 DEF Next, ReadAccount, ReplayEntry, FailCall
  <1>5. [Next]_vars => [A]_vars
    BY <1>4
  <1>6. QED
    BY <1>5, PTL DEF Spec, EveryChangeJournaled

\* The operators LedgerStore brings with it under the name Store are the ones
\* AgentLedger is written with.
LEMMA StoreOperators ==
    /\ \A f, k, v : Store!Put(f, k, v) = Put(f, k, v)
    /\ Store!NewAccount = NewAccount
    /\ Store!Entry = Entry
    /\ \A acct, e : /\ Store!Admits(acct, e) = Admits(acct, e)
                    /\ Store!ApplyEntry(acct, e) = ApplyEntry(acct, e)
                    /\ Store!JournalRow(acct, e) = JournalRow(acct, e)
  BY DEF Put, Store!Put, NewAccount, Store!NewAccount, Entry, Store!Entry,
         LedgerTypes, Store!LedgerTypes, Admits, Store!Admits,
         ApplyEntry, NextVersion, Store!ApplyEntry, Store!NextVersion,
         JournalRow, Store!JournalRow,
         BalanceEffect, Store!BalanceEffect, FrozenEffect, Store!FrozenEffect,
         ReverseApplies, Store!ReverseApplies, BalanceRefTypes, Store!BalanceRefTypes

\* On a serialising database a transaction that may still write holds a copy
\* that is the current row, so its commit is one call of LedgerStore: the
\* detailed service implements the abstract one.  (ledger_runtime.go:82-134)
THEOREM SerialImplementsStore == Isolation = "serial" => (Spec => ImplementsStore)
  <1> SUFFICES ASSUME Isolation = "serial" PROVE Spec => ImplementsStore
    OBVIOUS
  <1>1. Init => Store!StoreInit
    BY DEF Init, StoreInit, Store!StoreInit, NewAccount, Store!NewAccount
  <1>2. ASSUME IInv, [Next]_vars PROVE [Store!StoreNext]_(Store!storeVars)
    <2>1. ASSUME NEW a \in Agents, OpenAccount(a) PROVE Store!StoreNext
      BY <2>1, StoreOperators DEF OpenAccount, EnsureAccount, Store!StoreNext, Store!EnsureAccount
    <2>2. ASSUME NEW c \in Clients, CommitEntry(c) PROVE Store!StoreNext
      <3> DEFINE t == calls[c]
      <3>1. t \in Call
        BY <1>2, <2>2 DEF IInv, TypeOK, CommitEntry
      <3>2. t.key \in Keys /\ t.entry \in Entry
        BY <3>1 DEF Call
      <3>3. t.snap = account[t.entry.agent] /\ t.entry.agent \in DOMAIN account
        BY <1>2, <2>2 DEF IInv, SnapsSound, CommitEntry, Writable
      <3>4. Posted(t.key, t.entry)
        BY <2>2, <3>3 DEF CommitEntry, Posted, CanPost
      <3>5. Store!Posted(t.key, t.entry)
        BY <3>4, StoreOperators DEF Posted, CanPost, Store!Posted, Store!CanPost
      <3>6. QED
        BY <3>2, <3>5, StoreOperators DEF Store!StoreNext
    <2>3. CASE UNCHANGED storeVars
      BY <2>3 DEF storeVars, Store!storeVars
    <2>4. QED
      BY <1>2, <2>1, <2>2, <2>3 DEF Next, vars, storeVars, ReadAccount, ReplayEntry, FailCall
  <1>3. QED
    BY <1>1, <1>2, Invariance, PTL DEF Spec, ImplementsStore, Store!StoreSpec

-----------------------------------------------------------------------------
\* Reconciled is about sums over the journal: it needs that the journal is
\* finite, that its rows are validated entries, and that a row is never there
\* before the account it belongs to.
BooksInv ==
    /\ \A a \in DOMAIN account : account[a].balance \in Int /\ account[a].frozen \in Int
    /\ IsFiniteSet(DOMAIN journal)
    /\ \A k \in DOMAIN journal : /\ journal[k].entry \in Entry
                                 /\ journal[k].entry.agent \in DOMAIN account
    /\ Reconciled

LEMMA EffectsAreIntegers ==
    ASSUME NEW e \in Entry
    PROVE  BalanceEffect(e) \in Int /\ FrozenEffect(e) \in Int
  <1>1. e.amount \in Nat
    BY AmountsPositive DEF Entry
  <1>2. e.amount \in Int /\ -e.amount \in Int
    BY <1>1
  <1>3. BalanceEffect(e) \in {e.amount, -e.amount, 0} /\ FrozenEffect(e) \in {e.amount, -e.amount, 0}
    BY DEF BalanceEffect, FrozenEffect
  <1>4. QED BY <1>2, <1>3

\* What the rows of an agent sum to, for a column of the journal given by moves.
LEMMA SumOfRows ==
    ASSUME BooksInv, NEW a
    PROVE  /\ IsFiniteSet(RowsOf(a))
           /\ \A k \in DOMAIN journal : BalanceMoves[k] \in Int /\ FrozenMoves[k] \in Int
           /\ SumFunctionOnSet(BalanceMoves, RowsOf(a)) \in Int
           /\ SumFunctionOnSet(FrozenMoves, RowsOf(a)) \in Int
  <1>1. IsFiniteSet(RowsOf(a))
    BY FS_Subset DEF BooksInv, RowsOf
  <1>2. ASSUME NEW k \in DOMAIN journal PROVE BalanceMoves[k] \in Int /\ FrozenMoves[k] \in Int
    BY EffectsAreIntegers DEF BooksInv, BalanceMoves, FrozenMoves
  <1>3. RowsOf(a) \subseteq DOMAIN journal
    BY DEF RowsOf
  <1>4. QED BY <1>1, <1>2, <1>3, SumInt

\* A new account has no rows.
LEMMA OpeningReconciles ==
    ASSUME BooksInv, NEW a \in Agents, EnsureAccount(a)
    PROVE  BooksInv'
  <1>1. /\ DOMAIN account' = DOMAIN account \cup {a} /\ a \notin DOMAIN account
        /\ account'[a] = NewAccount
        /\ \A b \in DOMAIN account : account'[b] = account[b]
        /\ journal' = journal
    BY DEF EnsureAccount, Put
  <1>2. \A b : RowsOf(b)' = RowsOf(b)
    BY <1>1 DEF RowsOf
  <1>3. BalanceMoves' = BalanceMoves /\ FrozenMoves' = FrozenMoves
    BY <1>1 DEF BalanceMoves, FrozenMoves
  <1>4. RowsOf(a) = {}
    BY <1>1 DEF BooksInv, RowsOf
  <1>5. NewAccount.balance = 0 /\ NewAccount.frozen = 0
    BY DEF NewAccount
  <1>6. Reconciled'
    <2> SUFFICES ASSUME NEW b \in DOMAIN account'
                 PROVE  /\ account'[b].balance = SumFunctionOnSet(BalanceMoves, RowsOf(b))
                        /\ account'[b].frozen = SumFunctionOnSet(FrozenMoves, RowsOf(b))
      BY <1>2, <1>3 DEF Reconciled
    <2>1. CASE b = a
      BY <1>1, <1>4, <1>5, <2>1, SumEmpty
    <2>2. CASE b # a
      BY <1>1, <2>2 DEF BooksInv, Reconciled
    <2>3. QED BY <2>1, <2>2
  <1>7. QED BY <1>1, <1>5, <1>6 DEF BooksInv

\* A posted entry moves the account by what its row says it moved.
LEMMA PostingReconciles ==
    ASSUME BooksInv, NEW k \in Keys, NEW e \in Entry, Posted(k, e)
    PROVE  BooksInv'
  <1> DEFINE a == e.agent
  <1>1. /\ k \notin DOMAIN journal /\ DOMAIN journal' = DOMAIN journal \cup {k}
        /\ journal'[k].entry = e
        /\ \A j \in DOMAIN journal : journal'[j] = journal[j]
    BY DEF Posted, Put, JournalRow
  <1>2. /\ a \in DOMAIN account /\ DOMAIN account' = DOMAIN account
        /\ account'[a] = ApplyEntry(account[a], e)
        /\ \A b \in DOMAIN account : b # a => account'[b] = account[b]
    BY DEF Posted, CanPost, Put
  <1>3. \A b : RowsOf(b)' = IF b = a THEN RowsOf(b) \cup {k} ELSE RowsOf(b)
    BY <1>1 DEF RowsOf
  <1>4. /\ \A j \in DOMAIN journal : BalanceMoves'[j] = BalanceMoves[j] /\ FrozenMoves'[j] = FrozenMoves[j]
        /\ BalanceMoves'[k] = BalanceEffect(e) /\ FrozenMoves'[k] = FrozenEffect(e)
    BY <1>1 DEF BalanceMoves, FrozenMoves
  <1>5. BalanceEffect(e) \in Int /\ FrozenEffect(e) \in Int
    BY EffectsAreIntegers
  <1>6. \A b : RowsOf(b) \subseteq DOMAIN journal
    BY DEF RowsOf
  <1>7. ASSUME NEW b, NEW f, NEW g, \A j \in DOMAIN journal : f[j] \in Int /\ g[j] = f[j],
               g[k] \in Int
        PROVE  /\ SumFunctionOnSet(g, RowsOf(b)) = SumFunctionOnSet(f, RowsOf(b))
               /\ SumFunctionOnSet(g, RowsOf(b) \cup {k}) = SumFunctionOnSet(f, RowsOf(b)) + g[k]
    <2>1. IsFiniteSet(RowsOf(b)) /\ k \notin RowsOf(b)
      BY <1>1, <1>6, SumOfRows
    <2>2. \A j \in RowsOf(b) \cup {k} : g[j] \in Int
      BY <1>6, <1>7
    <2>3. SumFunctionOnSet(g, RowsOf(b)) = SumFunctionOnSet(f, RowsOf(b))
      BY <1>6, <1>7, <2>1, SumSame
    <2>4. SumFunctionOnSet(g, RowsOf(b) \cup {k}) = SumFunctionOnSet(g, RowsOf(b)) + g[k]
      BY <2>1, <2>2, SumPutIn
    <2>5. QED BY <2>3, <2>4
  <1>8. \A j \in DOMAIN journal : BalanceMoves[j] \in Int /\ FrozenMoves[j] \in Int
    BY SumOfRows
  <1>9. ASSUME NEW b \in DOMAIN account
        PROVE  /\ account'[b].balance = SumFunctionOnSet(BalanceMoves', RowsOf(b)')
               /\ account'[b].frozen = SumFunctionOnSet(FrozenMoves', RowsOf(b)')
    <2>1. /\ account[b].balance = SumFunctionOnSet(BalanceMoves, RowsOf(b))
          /\ account[b].frozen = SumFunctionOnSet(FrozenMoves, RowsOf(b))
      BY DEF BooksInv, Reconciled
    <2>2. CASE b = a
      <3>1. /\ SumFunctionOnSet(BalanceMoves', RowsOf(b) \cup {k})
                 = SumFunctionOnSet(BalanceMoves, RowsOf(b)) + BalanceEffect(e)
            /\ SumFunctionOnSet(FrozenMoves', RowsOf(b) \cup {k})
                 = SumFunctionOnSet(FrozenMoves, RowsOf(b)) + FrozenEffect(e)
        BY <1>4, <1>5, <1>7, <1>8
      <3>2. /\ account'[b].balance = account[b].balance + BalanceEffect(e)
            /\ account'[b].frozen = account[b].frozen + FrozenEffect(e)
        BY <1>2, <2>2 DEF ApplyEntry
      <3>3. RowsOf(b)' = RowsOf(b) \cup {k}
        BY <1>3, <2>2
      <3>4. QED BY <2>1, <3>1, <3>2, <3>3, Zenon
    <2>3. CASE b # a
      <3>1. /\ SumFunctionOnSet(BalanceMoves', RowsOf(b)) = SumFunctionOnSet(BalanceMoves, RowsOf(b))
            /\ SumFunctionOnSet(FrozenMoves', RowsOf(b)) = SumFunctionOnSet(FrozenMoves, RowsOf(b))
        BY <1>4, <1>5, <1>7, <1>8
      <3>2. account'[b] = account[b] /\ RowsOf(b)' = RowsOf(b)
        BY <1>2, <1>3, <2>3
      <3>3. QED BY <2>1, <3>1, <3>2, Zenon
    <2>4. QED BY <2>2, <2>3
  <1>10. Reconciled'
    BY <1>2, <1>9 DEF Reconciled
  <1>11. \A b \in DOMAIN account' : account'[b].balance \in Int /\ account'[b].frozen \in Int
    BY <1>2, <1>5 DEF BooksInv, ApplyEntry
  <1>12. IsFiniteSet(DOMAIN journal')
    BY <1>1, FS_AddElement DEF BooksInv
  <1>13. \A j \in DOMAIN journal' : journal'[j].entry \in Entry /\ journal'[j].entry.agent \in DOMAIN account'
    BY <1>1, <1>2 DEF BooksInv
  <1>14. QED BY <1>10, <1>11, <1>12, <1>13 DEF BooksInv

\* What LedgerStore promises keeps the books reconciled: the balance and the
\* frozen part of every account are what its journal rows add up to.
\* (ledger_runtime.go:95-134)
THEOREM StoreReconciles == StoreSpec => []Reconciled
  <1>1. StoreInit => BooksInv
    BY FS_EmptySet DEF StoreInit, BooksInv, Reconciled
  <1>2. BooksInv /\ [StoreNext]_storeVars => BooksInv'
    <2> SUFFICES ASSUME BooksInv, [StoreNext]_storeVars PROVE BooksInv'
      OBVIOUS
    <2>1. CASE UNCHANGED storeVars
      BY <2>1 DEF storeVars, BooksInv, Reconciled, RowsOf, BalanceMoves, FrozenMoves
    <2>2. QED
      BY <2>1, OpeningReconciles, PostingReconciles DEF StoreNext
  <1>3. BooksInv => Reconciled
    BY DEF BooksInv
  <1>4. QED BY <1>1, <1>2, <1>3, PTL DEF StoreSpec

\* On a serialising database the account service keeps them reconciled: no update
\* is lost, whatever the callers do.  (ledger_runtime.go:82-134)
THEOREM SerialReconciles == Isolation = "serial" => (Spec => []Reconciled)
  <1> SUFFICES ASSUME Isolation = "serial" PROVE Spec => []Reconciled
    OBVIOUS
  <1>1. Init => BooksInv
    BY FS_EmptySet DEF Init, StoreInit, BooksInv, Reconciled
  <1>2. IInv /\ BooksInv /\ [Next]_vars => BooksInv'
    <2> SUFFICES ASSUME IInv, BooksInv, [Next]_vars PROVE BooksInv'
      OBVIOUS
    <2>1. ASSUME NEW c \in Clients, CommitEntry(c) PROVE BooksInv'
      <3> DEFINE t == calls[c]
      <3>1. t.key \in Keys /\ t.entry \in Entry
        BY <2>1 DEF IInv, TypeOK, CommitEntry, Call
      <3>2. Posted(t.key, t.entry)
        BY <2>1 DEF IInv, SnapsSound, CommitEntry, Writable, Posted, CanPost
      <3>3. QED BY <3>1, <3>2, PostingReconciles
    <2>2. ASSUME NEW a \in Agents, OpenAccount(a) PROVE BooksInv'
      BY <2>2, OpeningReconciles DEF OpenAccount
    <2>3. CASE UNCHANGED storeVars
      BY <2>3 DEF storeVars, BooksInv, Reconciled, RowsOf, BalanceMoves, FrozenMoves
    <2>4. QED
      BY <2>1, <2>2, <2>3 DEF Next, vars, storeVars, ReadAccount, ReplayEntry, FailCall
  <1>3. BooksInv => Reconciled
    BY DEF BooksInv
  <1>4. QED BY <1>1, <1>2, <1>3, Invariance, PTL DEF Spec
=============================================================================
