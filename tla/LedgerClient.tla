---------------------------- MODULE LedgerClient ----------------------------
(***************************************************************************)
(* How the other services reach the account service, as their account      *)
(* contract client does it: in the same process ("local") or over HTTP      *)
(* with a timeout and no retry ("http").  Each call is one step of          *)
(* LedgerStore; what a caller learns of it may be wrong.                    *)
(***************************************************************************)
EXTENDS LedgerStore

CONSTANTS Transport,  \* "local" or "http": whether the account module is in the process
          Crashes,    \* may a process die in the middle of a request?
          MaxFaults   \* how many faults may happen (a bound of the model)

ASSUME ClientAssumption == /\ Transport \in {"local", "http"}
                           /\ Crashes \in BOOLEAN
                           /\ MaxFaults \in Nat

VARIABLE faults   \* faults that happened so far

clientVars == <<account, journal, faults>>

Fault == /\ faults < MaxFaults
         /\ faults' = faults + 1

\* CreateLedger seen from its caller, who is told ok.  An error may be a refusal
\* (insufficient funds, an amount that is not positive) or a failure; a failed
\* HTTP call may have been carried out all the same.
LedgerCall(k, e, ok) ==
    \/ /\ ok
       /\ e.amount > 0
       /\ CallOk(k, e)
       /\ UNCHANGED faults
    \/ /\ ~ok
       /\ IF e.amount > 0 THEN Refused(e) ELSE UNCHANGED storeVars
       /\ UNCHANGED faults
    \/ /\ ~ok
       /\ Fault
       /\ UNCHANGED storeVars
    \/ /\ ~ok
       /\ Transport = "http"
       /\ Fault
       /\ e.amount > 0
       /\ CallOk(k, e)

\* The effect on the frozen balance of the rows posted so far under keys.
FrozenBy(keys) == SumFunctionOnSet(FrozenMoves, keys \cap DOMAIN journal)
=============================================================================
