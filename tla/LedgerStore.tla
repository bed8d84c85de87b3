---------------------------- MODULE LedgerStore ----------------------------
(***************************************************************************)
(* What the account service promises its callers: one call of CreateLedger *)
(* is one step on the account row and the journal, and an idempotency key  *)
(* is posted at most once.  AgentLedger shows when the code keeps this     *)
(* promise; RiskCase and Withdrawal are built on it.                       *)
(***************************************************************************)
EXTENDS LedgerOps, FiniteSetsExt

CONSTANTS Agents,   \* agents that may own an account
          Keys,     \* ledger idempotency keys
          Refs,     \* reference types the callers use
          Amounts   \* amounts of a call, in cents

ASSUME StoreAssumption == /\ Refs \subseteq RefTypes
                          /\ Amounts \subseteq Nat \ {0}

VARIABLES account,  \* table agent_account: a function on the agents that have a row
          journal   \* table agent_account_ledger: a function on the keys posted

storeVars == <<account, journal>>

\* Validated calls: CreateAgentAccountLedger refuses an unknown type, an amount
\* that is not positive and an empty key before it opens its transaction.
Entry == [agent: Agents, type: LedgerTypes, amount: Amounts, ref: Refs]

StoreInit == /\ account = [a \in {} |-> NewAccount]
             /\ journal = [k \in {} |-> NewAccount]

\* EnsureAgentAccount: insert the row of an agent that has none.
EnsureAccount(a) ==
    /\ a \notin DOMAIN account
    /\ account' = Put(account, a, NewAccount)
    /\ UNCHANGED journal

CanPost(e) == e.agent \in DOMAIN account /\ Admits(account[e.agent], e)

\* The call took effect.
Posted(k, e) ==
    /\ CanPost(e)
    /\ k \notin DOMAIN journal
    /\ account' = Put(account, e.agent, ApplyEntry(account[e.agent], e))
    /\ journal' = Put(journal, k, JournalRow(account[e.agent], e))

\* The guards passed, the insert hit the unique index: everything is rolled
\* back and the caller gets the row that was there as if it were new.
Replayed(k, e) ==
    /\ CanPost(e)
    /\ k \in DOMAIN journal
    /\ UNCHANGED storeVars

\* A successful call, and a refused one.
CallOk(k, e) == Posted(k, e) \/ Replayed(k, e)
Refused(e)   == ~CanPost(e) /\ UNCHANGED storeVars

StoreNext ==
    \/ \E a \in Agents : EnsureAccount(a)
    \/ \E k \in Keys, e \in Entry : Posted(k, e)

StoreSpec == StoreInit /\ [][StoreNext]_storeVars

-----------------------------------------------------------------------------
RowsOf(a) == {k \in DOMAIN journal : journal[k].entry.agent = a}

\* What each row did to the balance and to the frozen part.
BalanceMoves == [k \in DOMAIN journal |-> BalanceEffect(journal[k].entry)]
FrozenMoves  == [k \in DOMAIN journal |-> FrozenEffect(journal[k].entry)]

\* The journal explains the balances: an account is the sum of what its rows did.
Reconciled ==
    \A a \in DOMAIN account :
        /\ account[a].balance = SumFunctionOnSet(BalanceMoves, RowsOf(a))
        /\ account[a].frozen = SumFunctionOnSet(FrozenMoves, RowsOf(a))
=============================================================================
