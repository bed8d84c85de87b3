---------------------------- MODULE AgentLedger ----------------------------
(***************************************************************************)
(* The account service at the level of its database transactions.  A call  *)
(* of CreateAgentAccountLedger reads the account row, computes the new row  *)
(* from that copy, and writes the whole row back together with the journal *)
(* row.  The row is read without FOR UPDATE and the version column, though *)
(* incremented, is in no WHERE clause; so what two concurrent calls do to  *)
(* one account depends on the isolation of the database it is opened on:   *)
(*   "serial"    SQLite: a transaction that read before another one wrote  *)
(*               cannot write any more (SQLITE_BUSY), it fails;            *)
(*   "snapshot"  MySQL at its default REPEATABLE READ: the read is a plain *)
(*               snapshot read and the later UPDATE overwrites the row.    *)
(***************************************************************************)
EXTENDS LedgerStore

CONSTANTS Clients,    \* concurrent callers of CreateLedger
          Isolation   \* "serial" or "snapshot"

ASSUME IsolationAssumption == Isolation \in {"serial", "snapshot"}

VARIABLE calls   \* the transactions in flight: a function on the clients in one

vars == <<account, journal, calls>>

\* A transaction that has read its account row: the key and entry it was asked
\* to post and the copy of the row it works on.
Call == [key: Keys, entry: Entry, snap: Account]

Row == [entry: Entry, balanceBefore: Int, frozenBefore: Int,
        balanceAfter: Int, frozenAfter: Int]

Init == StoreInit /\ calls = [c \in {} |-> NewAccount]

\* The transaction begins: SELECT of the account row.  An agent without a row
\* is gorm.ErrRecordNotFound, which ends the call with nothing changed.
ReadAccount(c, k, e) ==
    /\ c \notin DOMAIN calls
    /\ e.agent \in DOMAIN account
    /\ calls' = Put(calls, c, [key |-> k, entry |-> e, snap |-> account[e.agent]])
    /\ UNCHANGED storeVars

Finish(c) == calls' = [d \in DOMAIN calls \ {c} |-> calls[d]]

\* Mutant of Writable: a row changed since it was read is overwritten.
WritableAlways(t) == TRUE

\* Can the transaction of call t still write its account row?
Writable(t) == Isolation = "serial" => account[t.entry.agent] = t.snap

\* Save(&account) and Create(&ledger) commit together.
CommitEntry(c) ==
    /\ c \in DOMAIN calls
    /\ LET t == calls[c] IN
       /\ Admits(t.snap, t.entry)
       /\ Writable(t)
       /\ t.key \notin DOMAIN journal
       /\ account' = Put(account, t.entry.agent, ApplyEntry(t.snap, t.entry))
       /\ journal' = Put(journal, t.key, JournalRow(t.snap, t.entry))
    /\ Finish(c)

\* The insert violates the unique index on the key: rollback, then createLedger
\* looks the existing row up and returns it as the result of this call.
ReplayEntry(c) ==
    /\ c \in DOMAIN calls
    /\ Admits(calls[c].snap, calls[c].entry)
    /\ calls[c].key \in DOMAIN journal
    /\ Finish(c)
    /\ UNCHANGED storeVars

\* The guards refuse the entry, or the database fails the transaction (busy,
\* deadlock, lost connection): nothing is changed.
FailCall(c) ==
    /\ c \in DOMAIN calls
    /\ Finish(c)
    /\ UNCHANGED storeVars

OpenAccount(a) == EnsureAccount(a) /\ UNCHANGED calls

Next ==
    \/ \E a \in Agents : OpenAccount(a)
    \/ \E c \in Clients :
          \/ \E k \in Keys, e \in Entry : ReadAccount(c, k, e)
          \/ CommitEntry(c)
          \/ ReplayEntry(c)
          \/ FailCall(c)

Spec == Init /\ [][Next]_vars

-----------------------------------------------------------------------------
TypeOK ==
    /\ DOMAIN account \subseteq Agents
    /\ \A a \in DOMAIN account : account[a] \in Account
    /\ DOMAIN journal \subseteq Keys
    /\ \A k \in DOMAIN journal : journal[k] \in Row
    /\ DOMAIN calls \subseteq Clients
    /\ \A c \in DOMAIN calls : calls[c] \in Call

\* What one account row must satisfy by itself: the derived columns agree with
\* the primary ones, the balance is what came in minus what was reversed, and
\* neither the balance nor the frozen part is negative.
Sound(acct) ==
    /\ acct.withdrawable = acct.balance - acct.frozen
    /\ acct.available = acct.balance
    /\ acct.balance = acct.totalIncome - acct.totalReversed
    /\ acct.balance >= 0
    /\ acct.frozen >= 0

\* The books of every account stay sound whatever the callers do and whichever
\* database is used, lost updates included: no interleaving of ledger calls may
\* drive a balance below zero or detach withdrawable from balance - frozen.
\* (ledger_runtime.go:95-127)
BooksSound == \A a \in DOMAIN account : Sound(account[a])

\* An account is only ever changed together with one new journal row that
\* records exactly the balance and frozen part it now has, and a posted row is
\* never changed: a replayed key has no second effect.
\* (ledger_runtime.go:125-133, account/service.go:145-165)
EveryChangeJournaled ==
    [][/\ \A k \in DOMAIN journal : k \in DOMAIN journal' /\ journal'[k] = journal[k]
       /\ \A a \in DOMAIN account :
             account'[a] # account[a] =>
                \E k \in DOMAIN journal' \ DOMAIN journal :
                   /\ journal'[k].entry.agent = a
                   /\ journal'[k].balanceAfter = account'[a].balance
                   /\ journal'[k].frozenAfter = account'[a].frozen]_vars

\* With a serialising database the detailed transactions implement the one-step
\* calls of LedgerStore.
Store == INSTANCE LedgerStore WITH account <- account, journal <- journal
ImplementsStore == Store!StoreSpec
=============================================================================
