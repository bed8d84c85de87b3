----------------------------- MODULE LedgerOps -----------------------------
(***************************************************************************)
(* The arithmetic of one agent-account ledger entry, as                    *)
(* CreateAgentAccountLedger computes it inside its transaction: when an    *)
(* entry is admitted by an account row, the row it leaves behind and the   *)
(* journal row it inserts.  Amounts are whole cents (the columns are       *)
(* decimal(18,2)); currencies, remarks and timestamps are left out because *)
(* no balance depends on them.                                             *)
(***************************************************************************)
EXTENDS Integers

LedgerTypes == {"income", "freeze", "unfreeze", "reverse"}

\* What an entry refers to.  "manual" stands for every reference type the code
\* gives no meaning to, e.g. those typed by a finance operator.
RefTypes == {"withdrawal_request", "withdrawal_request_compensation",
             "commission_record", "recalculation_task", "risk_case", "manual"}

\* Under the conditional reverse policy only these references move money.
BalanceRefTypes == {"withdrawal_request", "commission_record", "recalculation_task"}

Account == [balance: Int, available: Int, frozen: Int, withdrawable: Int,
            totalIncome: Int, totalReversed: Int, version: Nat]

\* A new account row, as EnsureAgentAccount inserts it.
NewAccount == [balance |-> 0, available |-> 0, frozen |-> 0, withdrawable |-> 0,
               totalIncome |-> 0, totalReversed |-> 0, version |-> 1]

\* shouldApplyReverseBalanceChange, for the policy every service call uses.
ReverseApplies(ref) == ref \in BalanceRefTypes

\* The balance an entry moves, and the frozen part it moves.
BalanceEffect(e) ==
    CASE e.type = "income" -> e.amount
      [] e.type = "reverse" /\ ReverseApplies(e.ref) -> -e.amount
      [] OTHER -> 0

FrozenEffect(e) ==
    CASE e.type = "freeze" -> e.amount
      [] e.type = "unfreeze" -> -e.amount
      [] OTHER -> 0

\* Mutant of Admits: unfreezing is not held against the frozen balance.
AdmitsAnyUnfreeze(acct, e) ==
    /\ e.type = "freeze" => acct.withdrawable >= e.amount
    /\ e.type = "reverse" /\ ReverseApplies(e.ref) => acct.balance >= e.amount

\* The "insufficient ..." guards.  A reverse is held against the balance, not
\* against the withdrawable amount.
Admits(acct, e) ==
    /\ e.type = "freeze" => acct.withdrawable >= e.amount
    /\ e.type = "unfreeze" => acct.frozen >= e.amount
    /\ e.type = "reverse" /\ ReverseApplies(e.ref) => acct.balance >= e.amount

\* A mutant of NextVersion: the version is lowered.
NextVersionLowered(acct) == acct.version - 1

NextVersion(acct) == acct.version + 1

\* The account row an admitted entry leaves behind.
ApplyEntry(acct, e) ==
    LET balance == acct.balance + BalanceEffect(e)
        frozen  == acct.frozen + FrozenEffect(e)
    IN  [balance       |-> balance,
         available     |-> balance,
         frozen        |-> frozen,
         withdrawable  |-> balance - frozen,
         totalIncome   |-> IF e.type = "income" THEN acct.totalIncome + e.amount
                                                ELSE acct.totalIncome,
         totalReversed |-> IF e.type = "reverse" /\ ReverseApplies(e.ref)
                           THEN acct.totalReversed + e.amount
                           ELSE acct.totalReversed,
         version       |-> NextVersion(acct)]

\* Mutant of JournalRow: the balance recorded is the one before the entry.
JournalRowStale(acct, e) ==
    [entry |-> e,
     balanceBefore |-> acct.balance, frozenBefore |-> acct.frozen,
     balanceAfter |-> acct.balance, frozenAfter |-> acct.frozen]

\* The journal row inserted with it.
JournalRow(acct, e) ==
    [entry |-> e,
     balanceBefore |-> acct.balance, frozenBefore |-> acct.frozen,
     balanceAfter |-> acct.balance + BalanceEffect(e),
     frozenAfter |-> acct.frozen + FrozenEffect(e)]

\* f with k mapped to v, whether or not k was in its domain: an INSERT or a
\* full-row UPDATE of a table seen as a function from its key.
Put(f, k, v) == [x \in DOMAIN f \cup {k} |-> IF x = k THEN v ELSE f[x]]
=============================================================================
