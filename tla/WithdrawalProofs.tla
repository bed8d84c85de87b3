-------------------------- MODULE WithdrawalProofs --------------------------
(***************************************************************************)
(* Proofs about RiskCase and Withdrawal, for every set of agents, cases,    *)
(* requests and callers, any number of faults, and both transports.         *)
(***************************************************************************)
EXTENDS Withdrawal, SumFacts, TLAPS

-----------------------------------------------------------------------------
\* The invariant of the risk service.

StoreOK == /\ DOMAIN account = Agents
           /\ \A a \in Agents : account[a] \in Account
           /\ DOMAIN journal \subseteq Keys
           /\ faults \in Nat

TablesOK == /\ DOMAIN riskCase \subseteq Cases
            /\ \A c \in DOMAIN riskCase : riskCase[c] \in CaseRow
            /\ DOMAIN reviews \subseteq Callers
            /\ \A x \in DOMAIN reviews : reviews[x] \in Review

\* What a call in progress may rely on, of the cases there are and the entries
\* posted, though the case it read may have been reviewed by others since.
ReviewOK(r, cases, posted) ==
    IF r.op = "create"
    THEN /\ r.pc = "save"
         /\ r.opening \in Openings /\ r.opening.freeze /\ r.opening.case = r.current
         /\ r.current \notin cases
    ELSE /\ r.pc \in {"post", "save", "publish"} => r.current \in cases
         /\ r.op = "release" /\ r.pc = "save" => ReleaseOf(r.current) \in posted
         /\ r.op = "restore" /\ r.pc \in {"post", "save"} => ReleaseOf(r.current) \in posted
         /\ r.op = "confirm" => r.pc # "post" /\ r.todo = {}

ReviewsOK ==
    /\ \A x \in DOMAIN reviews : ReviewOK(reviews[x], DOMAIN riskCase, DOMAIN journal)
    /\ \A x, y \in DOMAIN reviews :
          /\ reviews[x].op = "create" /\ reviews[y].op = "create"
          /\ reviews[x].current = reviews[y].current
          => x = y

\* A case is released only with its entry, and restored only after that.
StepsInOrder ==
    \A c \in Cases :
       /\ c \in DOMAIN riskCase /\ riskCase[c].status = "released"
             => ReleaseOf(c) \in DOMAIN journal
       /\ RestoreOf(c) \in DOMAIN journal => ReleaseOf(c) \in DOMAIN journal
       /\ ReleaseOf(c) \in DOMAIN journal => c \in DOMAIN riskCase

\* What a case gives back and takes again is the money of its row.
EntriesMatch ==
    \A c \in Cases :
       /\ ReleaseOf(c) \in DOMAIN journal =>
             journal[ReleaseOf(c)].entry = CaseEntry(riskCase[c], "unfreeze")
       /\ RestoreOf(c) \in DOMAIN journal =>
             journal[RestoreOf(c)].entry = CaseEntry(riskCase[c], "freeze")

CaseInv == StoreOK /\ TablesOK /\ ReviewsOK /\ StepsInOrder /\ EntriesMatch

-----------------------------------------------------------------------------
\* Calls of the account service.

\* The journal at most gets the entry e under the key k.
Grows(k, e) ==
    /\ \A j \in DOMAIN journal : j \in DOMAIN journal' /\ journal'[j].entry = journal[j].entry
    /\ \A j \in DOMAIN journal' \ DOMAIN journal : j = k /\ journal'[j].entry = e

LEMMA ApplyKeepsAccount ==
    ASSUME NEW acct \in Account, NEW e, e.amount \in Nat
    PROVE  ApplyEntry(acct, e) \in Account
  <1>1. BalanceEffect(e) \in Int /\ FrozenEffect(e) \in Int
    BY DEF BalanceEffect, FrozenEffect
  <1>2. QED
    BY <1>1 DEF Account, ApplyEntry, NextVersion

LEMMA PostedFacts ==
    ASSUME StoreOK, NEW k \in Keys, NEW e, e.agent \in Agents, e.amount \in Nat,
           CallOk(k, e), faults' \in Nat
    PROVE  StoreOK' /\ Grows(k, e) /\ k \in DOMAIN journal'
  <1>1. CASE Posted(k, e)
    <2>1. /\ DOMAIN account' = Agents
          /\ \A a \in Agents : account'[a] \in Account
      BY <1>1, ApplyKeepsAccount DEF StoreOK, Posted, Put
    <2>2. /\ DOMAIN journal' = DOMAIN journal \cup {k}
          /\ journal'[k].entry = e
          /\ \A j \in DOMAIN journal : journal'[j] = journal[j]
      BY <1>1 DEF Posted, Put, JournalRow
    <2>3. QED BY <2>1, <2>2 DEF StoreOK, Grows
  <1>2. CASE Replayed(k, e)
    BY <1>2 DEF Replayed, storeVars, StoreOK, Grows
  <1>3. QED BY <1>1, <1>2 DEF CallOk

\* Whatever the caller is told, the journal got at most this entry; told that
\* all went well, it is there.
LEMMA CallFacts ==
    ASSUME StoreOK, NEW k \in Keys, NEW e, e.agent \in Agents, e.amount \in Nat, NEW ok,
           LedgerCall(k, e, ok)
    PROVE  /\ StoreOK' /\ Grows(k, e)
           /\ ok => k \in DOMAIN journal'
           /\ faults' = faults \/ faults' = faults + 1
           /\ ok => faults' = faults
  <1>1. faults \in Nat /\ (faults' = faults \/ faults' = faults + 1) /\ faults' \in Nat
    BY DEF LedgerCall, Fault, StoreOK
  <1>2. ok => faults' = faults /\ CallOk(k, e)
    BY DEF LedgerCall
  <1>3. CASE CallOk(k, e)
    BY <1>1, <1>2, <1>3, PostedFacts
  <1>4. CASE ~CallOk(k, e)
    <2>1. UNCHANGED storeVars
      BY <1>4 DEF LedgerCall, Refused
    <2>2. QED BY <1>1, <1>2, <1>4, <2>1 DEF storeVars, StoreOK, Grows
  <1>5. QED BY <1>3, <1>4

\* The keys of a case are its own, and no freeze is posted under them.
LEMMA CaseKeysApart ==
    \A c \in Cases :
       /\ ReleaseOf(c) \in Keys /\ RestoreOf(c) \in Keys
       /\ \A d \in Cases :
             /\ ReleaseOf(c) # RestoreOf(d)
             /\ ReleaseOf(c) = ReleaseOf(d) => c = d
             /\ RestoreOf(c) = RestoreOf(d) => c = d
  BY CaseAssumption DEF CaseKeys, CaseKinds, ReleaseOf, RestoreOf

LEMMA OpeningFacts ==
    \A o \in Openings : /\ o.case \in Cases /\ o.agent \in Agents /\ o.amount \in Nat
                        /\ o.freeze \in BOOLEAN /\ o.key \in Keys \cup {NoCase}
  BY CaseAssumption

LEMMA FreezeKeyFacts ==
    ASSUME NEW o \in Openings
    PROVE  /\ FreezeKey(o) \in Keys
           /\ \A c \in Cases : FreezeKey(o) # ReleaseOf(c) /\ FreezeKey(o) # RestoreOf(c)
  <1>1. CASE o.key = NoCase
    <2>1. FreezeKey(o) = FreezeOf(o.case) /\ o.case \in Cases
      BY <1>1, OpeningFacts DEF FreezeKey
    <2>2. FreezeOf(o.case) \in Keys
      BY <2>1, CaseAssumption DEF CaseKeys, CaseKinds, FreezeOf
    <2>3. QED BY <2>1, <2>2 DEF FreezeOf, ReleaseOf, RestoreOf
  <1>2. CASE o.key # NoCase
    <2>1. FreezeKey(o) = o.key /\ o.key \in Keys
      BY <1>2, OpeningFacts DEF FreezeKey
    <2>2. \A c \in Cases : o.key # <<"risk-case-release", c>> /\ o.key # <<"risk-case-restore", c>>
      BY CaseAssumption
    <2>3. QED BY <2>1, <2>2 DEF ReleaseOf, RestoreOf
  <1>3. QED BY <1>1, <1>2

LEMMA EntryFacts ==
    ASSUME NEW o, NEW type
    PROVE  /\ CaseEntry(o, type).agent = o.agent /\ CaseEntry(o, type).amount = o.amount
           /\ CaseEntry(o, type).type = type
  BY DEF CaseEntry

-----------------------------------------------------------------------------
\* A step of one caller: its own call goes on as it may, and the others can rely
\* on what they relied on before.
LEMMA CallerMoves ==
    ASSUME CaseInv, StoreOK', StepsInOrder', EntriesMatch',
           DOMAIN riskCase' \subseteq Cases, \A c \in DOMAIN riskCase' : riskCase'[c] \in CaseRow,
           DOMAIN riskCase \subseteq DOMAIN riskCase', DOMAIN journal \subseteq DOMAIN journal',
           NEW x \in Callers,
           \A y \in DOMAIN reviews' : y # x => y \in DOMAIN reviews /\ reviews'[y] = reviews[y],
           \A y \in DOMAIN reviews :
              y # x /\ reviews[y].op = "create" =>
                 reviews[y].current \notin DOMAIN riskCase' \ DOMAIN riskCase,
           x \in DOMAIN reviews' =>
              /\ reviews'[x] \in Review
              /\ ReviewOK(reviews'[x], DOMAIN riskCase', DOMAIN journal')
              /\ \A y \in DOMAIN reviews :
                    /\ y # x /\ reviews[y].op = "create" /\ reviews'[x].op = "create"
                    => reviews[y].current # reviews'[x].current
    PROVE  CaseInv'
  <1>1. TablesOK'
    BY DEF CaseInv, TablesOK
  <1>2. ASSUME NEW y \in DOMAIN reviews', y # x
        PROVE  ReviewOK(reviews'[y], DOMAIN riskCase', DOMAIN journal')
    <2>1. y \in DOMAIN reviews /\ reviews'[y] = reviews[y]
      BY <1>2
    <2>2. ReviewOK(reviews[y], DOMAIN riskCase, DOMAIN journal)
      BY <2>1 DEF CaseInv, ReviewsOK
    <2>3. QED BY <1>2, <2>1, <2>2 DEF ReviewOK
  <1>3. ReviewsOK'
    BY <1>2 DEF CaseInv, ReviewsOK
  <1>4. QED BY <1>1, <1>3 DEF CaseInv

\* Steps that leave the journal and the cases alone: a call is begun, goes on as
\* r, or ends.
LEMMA ReviewMoves ==
    ASSUME CaseInv, NEW x \in Callers, UNCHANGED <<account, journal, riskCase>>, faults' \in Nat,
           \/ Finish(x)
           \/ \E r \in Review : /\ reviews' = Put(reviews, x, r)
                                /\ r.op # "create"
                                /\ ReviewOK(r, DOMAIN riskCase, DOMAIN journal)
    PROVE  CaseInv'
  <1>1. /\ \A y \in DOMAIN reviews' : y # x => y \in DOMAIN reviews /\ reviews'[y] = reviews[y]
        /\ x \in DOMAIN reviews' => /\ reviews'[x] \in Review /\ reviews'[x].op # "create"
                                    /\ ReviewOK(reviews'[x], DOMAIN riskCase', DOMAIN journal')
    BY DEF Finish, Put
  <1>2. StoreOK'
    BY DEF CaseInv, StoreOK
  <1>3. StepsInOrder' /\ EntriesMatch'
    BY DEF CaseInv, StepsInOrder, EntriesMatch
  <1>4. DOMAIN riskCase' \subseteq Cases /\ \A c \in DOMAIN riskCase' : riskCase'[c] \in CaseRow
    BY DEF CaseInv, TablesOK
  <1>5. QED BY <1>1, <1>2, <1>3, <1>4, CallerMoves

LEMMA BeginReviewHolds ==
    ASSUME CaseInv, NEW x \in Callers, NEW c \in Cases, NEW op \in {"release", "confirm"},
           BeginReview(x, c, op)
    PROVE  CaseInv'
  <1> DEFINE r == Started(op, FirstStep(op), c, {})
  <1>1. r \in Review
    BY CaseAssumption DEF Started, Review, FirstStep
  <1>2. /\ r.op = op /\ r.current = c /\ r.todo = {}
        /\ r.pc = IF op = "confirm" THEN "save" ELSE "post"
    BY DEF Started, FirstStep
  <1>3. c \in DOMAIN riskCase
    BY DEF BeginReview, Reviewable
  <1>4. ReviewOK(r, DOMAIN riskCase, DOMAIN journal) /\ r.op # "create"
    BY <1>2, <1>3 DEF ReviewOK
  <1>5. reviews' = Put(reviews, x, r) /\ UNCHANGED <<account, journal, riskCase, faults>>
    BY DEF BeginReview, Step
  <1>6. faults' \in Nat
    BY <1>5 DEF CaseInv, StoreOK
  <1> HIDE DEF r
  <1>7. QED BY <1>1, <1>4, <1>5, <1>6, ReviewMoves

\* A list of cases is begun on.
LEMMA BeginListHolds ==
    ASSUME CaseInv, NEW x \in Callers, NEW op \in {"release", "restore"}, NEW S \in SUBSET Cases,
           Step(x, Started(op, "next", NoCase, S)),
           UNCHANGED <<account, journal, faults, riskCase>>
    PROVE  CaseInv'
  <1> DEFINE r == Started(op, "next", NoCase, S)
  <1>1. r \in Review
    BY CaseAssumption DEF Started, Review
  <1>2. r.op = op /\ r.pc = "next"
    BY DEF Started
  <1>3. ReviewOK(r, DOMAIN riskCase, DOMAIN journal) /\ r.op # "create"
    BY <1>2 DEF ReviewOK
  <1>4. faults' \in Nat
    BY DEF CaseInv, StoreOK
  <1> HIDE DEF r
  <1>5. reviews' = Put(reviews, x, r)
    BY DEF Step, r
  <1>6. QED BY <1>1, <1>3, <1>4, <1>5, ReviewMoves

LEMMA BeginReleaseHolds ==
    ASSUME CaseInv, NEW x \in Callers, NEW a, BeginRelease(x, a)
    PROVE  CaseInv'
  <1> DEFINE S == {c \in DOMAIN riskCase : riskCase[c].status = "pending" /\ riskCase[c].agent = a}
  <1>1. S \in SUBSET Cases
    BY DEF CaseInv, TablesOK
  <1>2. Step(x, Started("release", "next", NoCase, S)) /\ UNCHANGED <<account, journal, faults, riskCase>>
    BY DEF BeginRelease
  <1> HIDE DEF S
  <1>3. QED BY <1>1, <1>2, BeginListHolds

LEMMA BeginRestoreHolds ==
    ASSUME CaseInv, NEW x \in Callers, NEW S \in SUBSET Cases, BeginRestore(x, S)
    PROVE  CaseInv'
  <1>1. Step(x, Started("restore", "next", NoCase, S)) /\ UNCHANGED <<account, journal, faults, riskCase>>
    BY DEF BeginRestore
  <1>2. QED BY <1>1, BeginListHolds

LEMMA NextCaseHolds ==
    ASSUME CaseInv, NEW x \in Callers, NextCase(x)
    PROVE  CaseInv'
  <1> DEFINE r == reviews[x]
  <1>1. x \in DOMAIN reviews /\ r.pc = "next" /\ r \in Review /\ ReviewOK(r, DOMAIN riskCase, DOMAIN journal)
    BY DEF NextCase, CaseInv, TablesOK, ReviewsOK
  <1>2. UNCHANGED <<account, journal, riskCase, faults>> /\ faults' \in Nat
    BY DEF NextCase, CaseInv, StoreOK
  <1>3. r.op # "create" /\ r.op \in {"release", "confirm", "restore"}
    BY <1>1 DEF ReviewOK, Review
  <1>4. ASSUME NEW c \in r.todo, r.todo \subseteq DOMAIN riskCase, riskCase[c].status = Wanted(r.op),
               Step(x, [r EXCEPT !.pc = "post", !.current = c, !.todo = @ \ {c}])
        PROVE  CaseInv'
    <2> DEFINE q == [r EXCEPT !.pc = "post", !.current = c, !.todo = @ \ {c}]
    <2>1. q \in Review /\ q.op = r.op /\ q.pc = "post" /\ q.current = c
      BY <1>1, <1>4 DEF Review
    <2>2. c \in DOMAIN riskCase /\ c \in Cases
      BY <1>1, <1>4 DEF Review
    <2>3. r.op # "confirm"
      BY <1>1, <1>3, <1>4 DEF ReviewOK
    <2>4. r.op = "restore" => ReleaseOf(c) \in DOMAIN journal
      BY <1>4, <2>2 DEF CaseInv, StepsInOrder, Wanted
    <2>5. ReviewOK(q, DOMAIN riskCase, DOMAIN journal) /\ q.op # "create"
      BY <1>3, <2>1, <2>2, <2>3, <2>4 DEF ReviewOK
    <2>6. reviews' = Put(reviews, x, q)
      BY <1>4 DEF Step
    <2> HIDE DEF q
    <2>7. QED BY <1>2, <2>1, <2>5, <2>6, ReviewMoves
  <1>5. ASSUME NEW q, q \in {[r EXCEPT !.pc = "done"]} \cup {[r EXCEPT !.todo = @ \ {c}] : c \in r.todo},
               Step(x, q)
        PROVE  CaseInv'
    <2>1. q \in Review /\ q.op = r.op /\ q.pc \in {"next", "done"} /\ (r.todo = {} => q.todo = {})
      BY <1>1, <1>5 DEF Review
    <2>2. ReviewOK(q, DOMAIN riskCase, DOMAIN journal) /\ q.op # "create"
      BY <1>1, <1>3, <2>1 DEF ReviewOK
    <2>3. reviews' = Put(reviews, x, q)
      BY <1>5 DEF Step
    <2>4. QED BY <1>2, <2>1, <2>2, <2>3, ReviewMoves
  <1>6. QED BY <1>4, <1>5 DEF NextCase

LEMMA FinishHolds ==
    ASSUME CaseInv, NEW x \in Callers, Finish(x), UNCHANGED <<account, journal, riskCase>>,
           faults' = faults \/ Fault
    PROVE  CaseInv'
  <1>1. faults' \in Nat
    BY DEF Fault, CaseInv, StoreOK
  <1>2. QED BY <1>1, ReviewMoves

\* A call that fails where it is, for whatever reason.
LEMMA FailedHolds ==
    ASSUME CaseInv, NEW x \in Callers, x \in DOMAIN reviews, reviews[x].op # "create",
           Failed(x), UNCHANGED <<account, journal, riskCase>>, faults' = faults \/ Fault
    PROVE  CaseInv'
  <1> DEFINE q == [reviews[x] EXCEPT !.pc = "done", !.ok = FALSE]
  <1>1. reviews[x] \in Review /\ ReviewOK(reviews[x], DOMAIN riskCase, DOMAIN journal)
    BY DEF CaseInv, TablesOK, ReviewsOK
  <1>2. q \in Review /\ q.op = reviews[x].op /\ q.pc = "done" /\ q.todo = reviews[x].todo
    BY <1>1 DEF Review
  <1>3. ReviewOK(q, DOMAIN riskCase, DOMAIN journal)
    BY <1>1, <1>2 DEF ReviewOK
  <1>4. faults' \in Nat
    BY DEF Fault, CaseInv, StoreOK
  <1>5. reviews' = Put(reviews, x, q)
    BY DEF Failed, Step
  <1> HIDE DEF q
  <1>6. QED BY <1>2, <1>3, <1>4, <1>5, ReviewMoves

LEMMA CountedFacts ==
    ASSUME CaseInv, NEW x \in DOMAIN reviews, reviews[x].op # "create",
           reviews[x].pc \in {"post", "save", "publish"}
    PROVE  /\ Counted(reviews[x]) \in Review
           /\ Counted(reviews[x]).op = reviews[x].op /\ Counted(reviews[x]).pc = "next"
           /\ reviews[x].op = "confirm" => Counted(reviews[x]).todo = {}
  <1>1. reviews[x] \in Review /\ reviews[x].current \in Cases
        /\ (reviews[x].op = "confirm" => reviews[x].todo = {})
    BY DEF CaseInv, TablesOK, ReviewsOK, ReviewOK
  <1>2. QED BY <1>1 DEF Counted, Review

LEMMA PublishReviewHolds ==
    ASSUME CaseInv, NEW x \in Callers, PublishReview(x)
    PROVE  CaseInv'
  <1> DEFINE r == reviews[x]
  <1>1. x \in DOMAIN reviews /\ r.pc = "publish" /\ r.op # "create"
    BY DEF PublishReview, CaseInv, ReviewsOK, ReviewOK
  <1>2. CASE Step(x, Counted(r)) /\ UNCHANGED faults
    <2>1. /\ Counted(r) \in Review /\ Counted(r).op = r.op /\ Counted(r).pc = "next"
          /\ r.op = "confirm" => Counted(r).todo = {}
      BY <1>1, CountedFacts
    <2>3. ReviewOK(Counted(r), DOMAIN riskCase, DOMAIN journal)
      BY <1>1, <2>1 DEF ReviewOK
    <2>2. reviews' = Put(reviews, x, Counted(r)) /\ UNCHANGED <<account, journal, riskCase>>
          /\ faults' \in Nat
      BY <1>2 DEF Step, PublishReview, CaseInv, StoreOK
    <2>4. QED BY <1>1, <2>1, <2>2, <2>3, ReviewMoves
  <1>3. CASE Fault /\ Failed(x)
    BY <1>1, <1>3, FailedHolds DEF PublishReview
  <1>4. QED BY <1>2, <1>3 DEF PublishReview

-----------------------------------------------------------------------------
\* Steps that move the journal or the cases.

\* The entry of a release or a restore is posted, or was there, and no case is
\* released thereby.
LEMMA EntryKeeps ==
    ASSUME CaseInv, NEW c \in DOMAIN riskCase, NEW op \in {"release", "restore"},
           Grows(IF op = "release" THEN ReleaseOf(c) ELSE RestoreOf(c),
                 CaseEntry(riskCase[c], IF op = "release" THEN "unfreeze" ELSE "freeze")),
           op = "restore" => ReleaseOf(c) \in DOMAIN journal,
           DOMAIN riskCase' = DOMAIN riskCase,
           \A d \in DOMAIN riskCase :
              /\ riskCase'[d].freeze = riskCase[d].freeze
              /\ riskCase'[d].status = "released" => riskCase[d].status = "released"
              /\ \A type : CaseEntry(riskCase'[d], type) = CaseEntry(riskCase[d], type)
    PROVE  StepsInOrder' /\ EntriesMatch'
  <1> DEFINE k == IF op = "release" THEN ReleaseOf(c) ELSE RestoreOf(c)
             e == CaseEntry(riskCase[c], IF op = "release" THEN "unfreeze" ELSE "freeze")
  <1>1. c \in Cases
    BY DEF CaseInv, TablesOK
  <1>2. /\ \A j \in DOMAIN journal : j \in DOMAIN journal' /\ journal'[j].entry = journal[j].entry
        /\ \A j \in DOMAIN journal' \ DOMAIN journal : j = k /\ journal'[j].entry = e
    BY DEF Grows
  <1>3. ASSUME NEW d \in Cases
        PROVE  /\ ReleaseOf(d) \in DOMAIN journal' \ DOMAIN journal => op = "release" /\ d = c
               /\ RestoreOf(d) \in DOMAIN journal' \ DOMAIN journal => op = "restore" /\ d = c
    BY <1>1, <1>2, CaseKeysApart
  <1>4. StepsInOrder'
    BY <1>2, <1>3 DEF CaseInv, StepsInOrder
  <1>5. ASSUME NEW d \in Cases
        PROVE  /\ ReleaseOf(d) \in DOMAIN journal' =>
                     journal'[ReleaseOf(d)].entry = CaseEntry(riskCase'[d], "unfreeze")
               /\ RestoreOf(d) \in DOMAIN journal' =>
                     journal'[RestoreOf(d)].entry = CaseEntry(riskCase'[d], "freeze")
    <2>1. /\ ReleaseOf(d) \in DOMAIN journal' => d \in DOMAIN riskCase
          /\ RestoreOf(d) \in DOMAIN journal' => d \in DOMAIN riskCase
      BY <1>3 DEF CaseInv, StepsInOrder
    <2>2. QED BY <1>2, <1>3, <2>1 DEF CaseInv, EntriesMatch
  <1>6. EntriesMatch'
    BY <1>5 DEF EntriesMatch
  <1>7. QED BY <1>4, <1>6

LEMMA PostEntryHolds ==
    ASSUME CaseInv, NEW x \in Callers, PostEntry(x)
    PROVE  CaseInv'
  <1> DEFINE r == reviews[x]
             c == r.current
  <1>1. x \in DOMAIN reviews /\ r.pc = "post" /\ r \in Review /\ ReviewOK(r, DOMAIN riskCase, DOMAIN journal)
    BY DEF PostEntry, CaseInv, TablesOK, ReviewsOK
  <1>2. r.op \in {"release", "restore"} /\ c \in DOMAIN riskCase /\ c \in Cases
        /\ (r.op = "restore" => ReleaseOf(c) \in DOMAIN journal)
    BY <1>1 DEF ReviewOK, Review, CaseInv, TablesOK
  <1> DEFINE k == IF r.op = "release" THEN ReleaseOf(c) ELSE RestoreOf(c)
             e == CaseEntry(riskCase[c], IF r.op = "release" THEN "unfreeze" ELSE "freeze")
  <1>3. PICK ok \in BOOLEAN : /\ LedgerCall(k, e, ok)
                              /\ IF ok THEN Step(x, [r EXCEPT !.pc = "save"]) ELSE Failed(x)
    BY <1>2 DEF PostEntry
  <1>4. k \in Keys /\ e.agent \in Agents /\ e.amount \in Nat
    BY <1>2, CaseKeysApart DEF CaseEntry, CaseInv, TablesOK, CaseRow
  <1>5. StoreOK' /\ Grows(k, e) /\ (ok => k \in DOMAIN journal')
    <2> HIDE DEF k, e
    <2>1. QED BY <1>3, <1>4, CallFacts DEF CaseInv
  <1>6. UNCHANGED <<riskCase, events>>
    BY DEF PostEntry
  <1>7. StepsInOrder' /\ EntriesMatch'
    BY <1>2, <1>5, <1>6, EntryKeeps
  <1> DEFINE q == IF ok THEN [r EXCEPT !.pc = "save"] ELSE [r EXCEPT !.pc = "done", !.ok = FALSE]
  <1>8. reviews' = Put(reviews, x, q)
    BY <1>3 DEF Failed, Step
  <1>9. q \in Review /\ q.op = r.op /\ q.current = c /\ q.pc = IF ok THEN "save" ELSE "done"
    BY <1>1 DEF Review
  <1>10. /\ DOMAIN journal \subseteq DOMAIN journal'
         /\ ReviewOK(q, DOMAIN riskCase', DOMAIN journal')
    BY <1>2, <1>5, <1>6, <1>9 DEF ReviewOK, Grows
  <1>11. /\ DOMAIN reviews' = DOMAIN reviews /\ reviews'[x] = q
         /\ \A y \in DOMAIN reviews : y # x => reviews'[y] = reviews[y]
    BY <1>1, <1>8 DEF Put
  <1> HIDE DEF q, k, e
  <1>12. DOMAIN riskCase \subseteq Cases /\ \A d \in DOMAIN riskCase : riskCase[d] \in CaseRow
    BY DEF CaseInv, TablesOK
  <1>13. q.op # "create"
    BY <1>2, <1>9
  <1>14. QED BY <1>5, <1>6, <1>7, <1>9, <1>10, <1>11, <1>12, <1>13, CallerMoves

-----------------------------------------------------------------------------
\* The status of a case is overwritten.

LEMMA StatusSet ==
    ASSUME CaseInv, NEW c \in DOMAIN riskCase, NEW status \in Statuses, SetStatus(c, status)
    PROVE  /\ DOMAIN riskCase' = DOMAIN riskCase
           /\ riskCase'[c].status = status
           /\ \A d \in DOMAIN riskCase :
                 /\ riskCase'[d] \in CaseRow
                 /\ riskCase'[d].freeze = riskCase[d].freeze
                 /\ riskCase'[d].agent = riskCase[d].agent /\ riskCase'[d].amount = riskCase[d].amount
                 /\ \A type : CaseEntry(riskCase'[d], type) = CaseEntry(riskCase[d], type)
                 /\ d # c => riskCase'[d] = riskCase[d]
  <1>1. \A d \in DOMAIN riskCase : riskCase[d] \in CaseRow
    BY DEF CaseInv, TablesOK
  <1>2. riskCase' = [riskCase EXCEPT ![c].status = status]
    BY DEF SetStatus
  <1>3. /\ DOMAIN riskCase' = DOMAIN riskCase
        /\ \A d \in DOMAIN riskCase : d # c => riskCase'[d] = riskCase[d]
        /\ riskCase'[c] = [riskCase[c] EXCEPT !.status = status]
    BY <1>2
  <1>4. /\ riskCase'[c] \in CaseRow /\ riskCase'[c].status = status
        /\ riskCase'[c].freeze = riskCase[c].freeze
        /\ riskCase'[c].agent = riskCase[c].agent /\ riskCase'[c].amount = riskCase[c].amount
    BY <1>1, <1>3 DEF CaseRow
  <1>5. QED BY <1>1, <1>3, <1>4 DEF CaseEntry

\* With the status the rows keep everything the entries are about.
LEMMA StatusKeeps ==
    ASSUME CaseInv, NEW c \in DOMAIN riskCase, NEW status \in Statuses, SetStatus(c, status),
           UNCHANGED journal, status = "released" => ReleaseOf(c) \in DOMAIN journal
    PROVE  StepsInOrder' /\ EntriesMatch'
  <1>1. StepsInOrder'
    BY StatusSet DEF CaseInv, StepsInOrder
  <1>2. ASSUME NEW d \in Cases
        PROVE  /\ ReleaseOf(d) \in DOMAIN journal => d \in DOMAIN riskCase
               /\ RestoreOf(d) \in DOMAIN journal => d \in DOMAIN riskCase
    BY DEF CaseInv, StepsInOrder
  <1>3. EntriesMatch'
    BY <1>2, StatusSet DEF CaseInv, EntriesMatch
  <1>4. QED BY <1>1, <1>3

LEMMA SaveReviewHolds ==
    ASSUME CaseInv, NEW x \in Callers, SaveReview(x)
    PROVE  CaseInv'
  <1> DEFINE r == reviews[x]
             c == r.current
             status == IF r.op = "release" THEN "released" ELSE "confirmed"
             q == [r EXCEPT !.pc = "publish"]
  <1>1. /\ x \in DOMAIN reviews /\ r.pc = "save" /\ r.op \in {"release", "confirm"}
        /\ r \in Review /\ ReviewOK(r, DOMAIN riskCase, DOMAIN journal)
    BY DEF SaveReview, CaseInv, TablesOK, ReviewsOK
  <1>2. c \in DOMAIN riskCase /\ (r.op = "release" => ReleaseOf(c) \in DOMAIN journal)
    BY <1>1 DEF ReviewOK
  <1>3. UNCHANGED <<account, journal>>
    BY DEF SaveReview
  <1>4. CASE SetStatus(c, status) /\ Step(x, q) /\ UNCHANGED faults
    <2>1. status \in Statuses /\ (status = "released" => ReleaseOf(c) \in DOMAIN journal)
      BY <1>2 DEF Statuses
    <2>2. q \in Review /\ q.op = r.op /\ q.current = c /\ q.pc = "publish" /\ q.todo = r.todo
      BY <1>1 DEF Review
    <2> HIDE DEF status, q
    <2>3. StepsInOrder' /\ EntriesMatch'
      BY <1>2, <1>3, <1>4, <2>1, StatusKeeps
    <2>4. DOMAIN riskCase' = DOMAIN riskCase /\ \A d \in DOMAIN riskCase : riskCase'[d] \in CaseRow
      BY <1>2, <1>4, <2>1, StatusSet
    <2>5. StoreOK' /\ DOMAIN riskCase \subseteq Cases
      BY <1>3, <1>4 DEF CaseInv, StoreOK, TablesOK
    <2>6. ReviewOK(q, DOMAIN riskCase', DOMAIN journal')
      BY <1>1, <1>2, <1>3, <2>2, <2>4 DEF ReviewOK
    <2>7. /\ DOMAIN reviews' = DOMAIN reviews /\ reviews'[x] = q
          /\ \A y \in DOMAIN reviews : y # x => reviews'[y] = reviews[y]
      BY <1>1, <1>4 DEF Step, Put
    <2>8. q.op # "create"
      BY <1>1, <2>2
    <2>9. QED BY <1>3, <2>2, <2>3, <2>4, <2>5, <2>6, <2>7, <2>8, CallerMoves
  <1>5. CASE Fault /\ Failed(x) /\ UNCHANGED riskCase
    BY <1>1, <1>3, <1>5, FailedHolds
  <1>6. QED BY <1>4, <1>5 DEF SaveReview

\* In one transaction or over HTTP: the freeze of a restore, then the row.
LEMMA RestoreCaseHolds ==
    ASSUME CaseInv, NEW x \in Callers, RestoreCase(x)
    PROVE  CaseInv'
  <1> DEFINE r == reviews[x]
             c == r.current
             e == CaseEntry(riskCase[c], "freeze")
  <1>1. /\ x \in DOMAIN reviews /\ r.op = "restore"
        /\ r \in Review /\ ReviewOK(r, DOMAIN riskCase, DOMAIN journal)
    BY DEF RestoreCase, CaseInv, TablesOK, ReviewsOK
  <1>2. CASE \/ Fault /\ Failed(x) /\ UNCHANGED <<account, journal, riskCase>>
             \/ Failed(x) /\ UNCHANGED <<account, journal, riskCase, faults>>
    BY <1>1, <1>2, FailedHolds
  <1>3. CASE /\ r.pc \in {"post", "save"}
             /\ SetStatus(c, "pending") /\ Step(x, Counted(r)) /\ UNCHANGED faults
             /\ UNCHANGED storeVars \/ CallOk(RestoreOf(c), e)
    <2>1. c \in DOMAIN riskCase /\ c \in Cases /\ ReleaseOf(c) \in DOMAIN journal
      BY <1>1, <1>3 DEF ReviewOK, CaseInv, TablesOK
    <2>2. e.agent \in Agents /\ e.amount \in Nat /\ RestoreOf(c) \in Keys /\ faults' \in Nat
      BY <1>3, <2>1, CaseKeysApart DEF CaseInv, TablesOK, StoreOK, CaseRow, CaseEntry
    <2>3. StoreOK' /\ Grows(RestoreOf(c), e)
      <3> HIDE DEF e
      <3>1. CASE UNCHANGED storeVars
        BY <1>3, <3>1 DEF storeVars, StoreOK, CaseInv, Grows
      <3>2. CASE CallOk(RestoreOf(c), e)
        BY <2>2, <3>2, PostedFacts DEF CaseInv
      <3>3. QED BY <1>3, <3>1, <3>2
    <2>4. /\ DOMAIN riskCase' = DOMAIN riskCase
          /\ \A d \in DOMAIN riskCase :
                /\ riskCase'[d] \in CaseRow
                /\ riskCase'[d].freeze = riskCase[d].freeze
                /\ \A type : CaseEntry(riskCase'[d], type) = CaseEntry(riskCase[d], type)
                /\ d # c => riskCase'[d] = riskCase[d]
          /\ riskCase'[c].status = "pending"
      BY <1>3, <2>1, StatusSet DEF Statuses
    <2>5. StepsInOrder' /\ EntriesMatch'
      <3>1. Grows(IF "restore" = "release" THEN ReleaseOf(c) ELSE RestoreOf(c),
                  CaseEntry(riskCase[c], IF "restore" = "release" THEN "unfreeze" ELSE "freeze"))
        BY <2>3
      <3>2. \A d \in DOMAIN riskCase : riskCase'[d].status = "released" => riskCase[d].status = "released"
        BY <2>4
      <3>3. QED BY <2>1, <2>4, <3>1, <3>2, EntryKeeps
    <2>6. /\ Counted(r) \in Review /\ Counted(r).op = "restore" /\ Counted(r).pc = "next"
      BY <1>1, <1>3, CountedFacts
    <2>7. ReviewOK(Counted(r), DOMAIN riskCase', DOMAIN journal')
      BY <2>6 DEF ReviewOK
    <2>8. /\ DOMAIN reviews' = DOMAIN reviews /\ reviews'[x] = Counted(r)
          /\ \A y \in DOMAIN reviews : y # x => reviews'[y] = reviews[y]
      BY <1>1, <1>3 DEF Step, Put
    <2>9. DOMAIN journal \subseteq DOMAIN journal' /\ DOMAIN riskCase \subseteq Cases
      BY <2>3 DEF Grows, CaseInv, TablesOK
    <2>10. QED BY <2>3, <2>4, <2>5, <2>6, <2>7, <2>8, <2>9, CallerMoves
  <1>4. QED BY <1>2, <1>3 DEF RestoreCase

-----------------------------------------------------------------------------
\* A case is opened.

\* The freeze of a creation is posted, or was there; no entry of a case is.
LEMMA FreezeGrows ==
    ASSUME NEW o \in Openings, Grows(FreezeKey(o), CaseEntry(o, "freeze"))
    PROVE  /\ \A j \in DOMAIN journal : j \in DOMAIN journal' /\ journal'[j].entry = journal[j].entry
           /\ \A d \in Cases :
                 /\ ReleaseOf(d) \in DOMAIN journal' => ReleaseOf(d) \in DOMAIN journal
                 /\ RestoreOf(d) \in DOMAIN journal' => RestoreOf(d) \in DOMAIN journal
  <1> DEFINE k == FreezeKey(o)
  <1>1. \A c \in Cases : k # ReleaseOf(c) /\ k # RestoreOf(c)
    BY FreezeKeyFacts
  <1> HIDE DEF k
  <1>2. QED BY <1>1 DEF Grows, k

LEMMA FreezeKeeps ==
    ASSUME CaseInv, NEW o \in Openings, Grows(FreezeKey(o), CaseEntry(o, "freeze")),
           UNCHANGED riskCase
    PROVE  StepsInOrder' /\ EntriesMatch'
  BY FreezeGrows DEF CaseInv, StepsInOrder, EntriesMatch

\* The row is inserted, with its freeze or after it.
LEMMA InsertKeeps ==
    ASSUME CaseInv, NEW o \in Openings, o.case \notin DOMAIN riskCase,
           riskCase' = Put(riskCase, o.case, NewRow(o)),
           Grows(FreezeKey(o), CaseEntry(o, "freeze"))
    PROVE  /\ StepsInOrder' /\ EntriesMatch'
           /\ DOMAIN riskCase' = DOMAIN riskCase \cup {o.case}
           /\ DOMAIN riskCase' \subseteq Cases
           /\ \A c \in DOMAIN riskCase' : riskCase'[c] \in CaseRow
  <1>1. /\ \A j \in DOMAIN journal : j \in DOMAIN journal' /\ journal'[j].entry = journal[j].entry
        /\ \A d \in Cases :
              /\ ReleaseOf(d) \in DOMAIN journal' => ReleaseOf(d) \in DOMAIN journal
              /\ RestoreOf(d) \in DOMAIN journal' => RestoreOf(d) \in DOMAIN journal
    BY FreezeGrows
  <1>2. o.case \in Cases
    BY OpeningFacts
  <1>3. /\ DOMAIN riskCase' = DOMAIN riskCase \cup {o.case}
        /\ riskCase'[o.case] = NewRow(o)
        /\ \A d \in DOMAIN riskCase : riskCase'[d] = riskCase[d]
    BY DEF Put
  <1>4. NewRow(o) \in CaseRow /\ NewRow(o).status = "pending"
    BY OpeningFacts DEF NewRow, CaseRow, Statuses
  <1>5. StepsInOrder'
    BY <1>1, <1>3, <1>4 DEF CaseInv, StepsInOrder
  <1>6. \A d \in Cases :
           ReleaseOf(d) \in DOMAIN journal' \/ RestoreOf(d) \in DOMAIN journal' => d \in DOMAIN riskCase
    BY <1>1 DEF CaseInv, StepsInOrder
  <1>7. EntriesMatch'
    BY <1>1, <1>3, <1>6 DEF CaseInv, EntriesMatch
  <1>8. DOMAIN riskCase' \subseteq Cases /\ \A c \in DOMAIN riskCase' : riskCase'[c] \in CaseRow
    BY <1>2, <1>3, <1>4 DEF CaseInv, TablesOK
  <1>9. QED BY <1>3, <1>5, <1>7, <1>8

LEMMA OpenCaseHolds ==
    ASSUME CaseInv, NEW x \in Callers, NEW o \in Openings, OpenCase(x, o)
    PROVE  CaseInv'
  <1> DEFINE k == FreezeKey(o)
             e == CaseEntry(o, "freeze")
  <1>1. /\ x \notin DOMAIN reviews /\ o.case \notin DOMAIN riskCase
        /\ \A y \in DOMAIN reviews : reviews[y].op = "create" => reviews[y].current # o.case
    BY DEF OpenCase, Free
  <1>2. o.case \in Cases /\ k \in Keys /\ e.agent \in Agents /\ e.amount \in Nat
    BY OpeningFacts, FreezeKeyFacts DEF CaseEntry
  <1>3. DOMAIN riskCase \subseteq Cases /\ \A c \in DOMAIN riskCase : riskCase[c] \in CaseRow
    BY DEF CaseInv, TablesOK
  <1>4. CASE o.freeze /\ Transport = "http"
    <2> DEFINE q == [Started("create", "save", o.case, {}) EXCEPT !.opening = o]
    <2>1. PICK ok \in BOOLEAN : /\ LedgerCall(k, e, ok)
                                /\ reviews' = IF ok THEN Put(reviews, x, q) ELSE reviews
      BY <1>4 DEF OpenCase
    <2>2. UNCHANGED riskCase
      BY <1>4 DEF OpenCase
    <2>3. q \in Review /\ q.op = "create" /\ q.current = o.case /\ q.pc = "save" /\ q.opening = o
      BY <1>2 DEF Started, Review
    <2> HIDE DEF q
    <2>4. StoreOK' /\ Grows(k, e) /\ (ok => k \in DOMAIN journal')
      <3> HIDE DEF k, e
      <3>1. QED BY <1>2, <2>1, CallFacts DEF CaseInv
    <2>5. StepsInOrder' /\ EntriesMatch'
      BY <2>2, <2>4, FreezeKeeps
    <2>6. DOMAIN journal \subseteq DOMAIN journal'
      BY <2>4 DEF Grows
    <2>7. ok => ReviewOK(q, DOMAIN riskCase', DOMAIN journal')
      BY <1>1, <1>4, <2>2, <2>3, <2>4 DEF ReviewOK
    <2>8. /\ \A y \in DOMAIN reviews' : y # x => y \in DOMAIN reviews /\ reviews'[y] = reviews[y]
          /\ x \in DOMAIN reviews' => ok /\ reviews'[x] = q
      BY <1>1, <2>1 DEF Put
    <2>9. QED BY <1>1, <1>3, <2>2, <2>3, <2>4, <2>5, <2>6, <2>7, <2>8, CallerMoves
  <1>5. CASE ~(o.freeze /\ Transport = "http")
    <2>1. /\ riskCase' = Put(riskCase, o.case, NewRow(o))
          /\ IF o.freeze THEN CallOk(k, e) ELSE UNCHANGED storeVars
          /\ UNCHANGED <<faults, reviews>>
      BY <1>5 DEF OpenCase
    <2>2. faults' \in Nat
      BY <2>1 DEF CaseInv, StoreOK
    <2>3. StoreOK' /\ Grows(k, e)
      <3> HIDE DEF k, e
      <3>1. CASE o.freeze
        BY <1>2, <2>1, <2>2, <3>1, PostedFacts DEF CaseInv
      <3>2. CASE ~o.freeze
        BY <2>1, <2>2, <3>2 DEF CaseInv, StoreOK, storeVars, Grows
      <3>3. QED BY <3>1, <3>2
    <2>4. /\ StepsInOrder' /\ EntriesMatch'
          /\ DOMAIN riskCase' = DOMAIN riskCase \cup {o.case}
          /\ DOMAIN riskCase' \subseteq Cases
          /\ \A c \in DOMAIN riskCase' : riskCase'[c] \in CaseRow
      BY <1>1, <2>1, <2>3, InsertKeeps
    <2>5. DOMAIN journal \subseteq DOMAIN journal'
      BY <2>3 DEF Grows
    <2>6. QED BY <1>1, <2>1, <2>3, <2>4, <2>5, CallerMoves
  <1>6. QED BY <1>4, <1>5

LEMMA CommitCaseHolds ==
    ASSUME CaseInv, NEW x \in Callers, CommitCase(x)
    PROVE  CaseInv'
  <1> DEFINE r == reviews[x]
             o == r.opening
  <1>1. /\ x \in DOMAIN reviews /\ r.op = "create"
        /\ ReviewOK(r, DOMAIN riskCase, DOMAIN journal)
    BY DEF CommitCase, CaseInv, ReviewsOK
  <1>2. /\ o \in Openings /\ o.freeze /\ o.case = r.current
        /\ o.case \notin DOMAIN riskCase
    BY <1>1 DEF ReviewOK
  <1>3. Finish(x) /\ UNCHANGED storeVars
    BY DEF CommitCase
  <1>4. CASE riskCase' = Put(riskCase, o.case, NewRow(o)) /\ UNCHANGED faults
    <2>1. StoreOK' /\ Grows(FreezeKey(o), CaseEntry(o, "freeze")) /\ UNCHANGED journal
      BY <1>3, <1>4 DEF CaseInv, StoreOK, storeVars, Grows
    <2>2. /\ StepsInOrder' /\ EntriesMatch'
          /\ DOMAIN riskCase' = DOMAIN riskCase \cup {o.case}
          /\ DOMAIN riskCase' \subseteq Cases
          /\ \A c \in DOMAIN riskCase' : riskCase'[c] \in CaseRow
      <3> HIDE DEF o
      <3>1. QED BY <1>2, <1>4, <2>1, InsertKeeps
    <2>3. \A y \in DOMAIN reviews' : y # x /\ y \in DOMAIN reviews /\ reviews'[y] = reviews[y]
      BY <1>3 DEF Finish
    <2>4. \A y \in DOMAIN reviews : y # x /\ reviews[y].op = "create" =>
             reviews[y].current \notin DOMAIN riskCase' \ DOMAIN riskCase
      BY <1>1, <1>2, <2>2 DEF CaseInv, ReviewsOK
    <2>5. QED BY <2>1, <2>2, <2>3, <2>4, CallerMoves
  <1>5. CASE Fault /\ UNCHANGED riskCase
    BY <1>3, <1>5, FinishHolds DEF storeVars
  <1>6. QED BY <1>2, <1>4, <1>5 DEF CommitCase

-----------------------------------------------------------------------------
\* The invariant of the risk service on its own.

LEMMA InitCaseInv == CaseInit => CaseInv
  <1> SUFFICES ASSUME CaseInit PROVE CaseInv
    OBVIOUS
  <1>1. \A a \in Agents : Earned(a).amount \in Nat /\ NewAccount \in Account
    BY CaseAssumption DEF Earned, NewAccount, Account
  <1>2. DOMAIN account = Agents /\ \A a \in Agents : account[a] \in Account
    BY <1>1, ApplyKeepsAccount DEF CaseInit
  <1>3. DOMAIN journal = {EarnedKey(a) : a \in Agents} /\ faults = 0
    BY DEF CaseInit
  <1>4. StoreOK
    BY <1>2, <1>3, CaseAssumption DEF StoreOK
  <1>5. DOMAIN riskCase = {} /\ DOMAIN reviews = {}
    BY DEF CaseInit
  <1>6. \A c \in Cases : ReleaseOf(c) \notin DOMAIN journal /\ RestoreOf(c) \notin DOMAIN journal
    BY <1>3 DEF EarnedKey, ReleaseOf, RestoreOf
  <1>7. TablesOK /\ ReviewsOK
    BY <1>5 DEF TablesOK, ReviewsOK
  <1>8. StepsInOrder /\ EntriesMatch
    BY <1>5, <1>6 DEF StepsInOrder, EntriesMatch
  <1>9. QED BY <1>4, <1>7, <1>8 DEF CaseInv

\* The steps of a call, whoever made it.
LEMMA ReviewStepHolds ==
    ASSUME CaseInv, NEW x \in Callers, ReviewStep(x)
    PROVE  CaseInv'
  BY CommitCaseHolds, NextCaseHolds, PostEntryHolds, RestoreCaseHolds, SaveReviewHolds,
     PublishReviewHolds DEF ReviewStep

LEMMA CaseRequestHolds ==
    ASSUME CaseInv, NEW x \in Callers, CaseRequest(x)
    PROVE  CaseInv'
  <1>1. ASSUME NEW o \in Openings, OpenCase(x, o) PROVE CaseInv'
    BY <1>1, OpenCaseHolds
  <1>2. ASSUME NEW c \in Cases, NEW op \in Asked \cap {"release", "confirm"}, BeginReview(x, c, op)
        PROVE  CaseInv'
    BY <1>2, BeginReviewHolds
  <1>3. ASSUME NEW a \in Agents, BeginRelease(x, a) PROVE CaseInv'
    BY <1>3, BeginReleaseHolds
  <1>4. ASSUME NEW S \in SUBSET DOMAIN riskCase, BeginRestore(x, S) PROVE CaseInv'
    <2>1. S \in SUBSET Cases
      BY DEF CaseInv, TablesOK
    <2>2. QED BY <1>4, <2>1, BeginRestoreHolds
  <1>5. QED BY <1>1, <1>2, <1>3, <1>4 DEF CaseRequest

LEMMA EndingHolds ==
    ASSUME CaseInv, NEW x \in Callers, Return(x) \/ CrashReview(x)
    PROVE  CaseInv'
  BY FinishHolds DEF Return, CrashReview

LEMMA CaseNextHolds == CaseInv /\ [CaseNext]_riskVars => CaseInv'
  <1> SUFFICES ASSUME CaseInv, [CaseNext]_riskVars PROVE CaseInv'
    OBVIOUS
  <1>1. CASE CaseNext
    BY <1>1, CaseRequestHolds, ReviewStepHolds, EndingHolds DEF CaseNext
  <1>2. CASE UNCHANGED riskVars
    BY <1>2 DEF riskVars, CaseInv, StoreOK, TablesOK, ReviewsOK, StepsInOrder, EntriesMatch
  <1>3. QED BY <1>1, <1>2

\* The invariant holds in every state of the risk service.
THEOREM CaseInvariance == CaseSpec => []CaseInv
  BY InitCaseInv, CaseNextHolds, PTL DEF CaseSpec

\* Every table and every call of the risk service keeps its type.
THEOREM CaseTypeCorrect == CaseSpec => []CaseTypeOK
  <1>1. CaseInv => CaseTypeOK
    BY DEF CaseInv, StoreOK, TablesOK, CaseTypeOK
  <1>2. QED BY <1>1, CaseInvariance, PTL

-----------------------------------------------------------------------------
\* What a case has given back: its amount between its release and its restore,
\* nothing otherwise.

LEMMA BackFacts ==
    ASSUME CaseInv, NEW c \in DOMAIN riskCase
    PROVE  GivenBack(c) = IF /\ ReleaseOf(c) \in DOMAIN journal
                             /\ RestoreOf(c) \notin DOMAIN journal
                          THEN riskCase[c].amount ELSE 0
  <1> DEFINE R == ReleaseOf(c)
             B == RestoreOf(c)
             n == riskCase[c].amount
             f == FrozenMoves
             given == {R, B} \cap DOMAIN journal
  <1>1. c \in Cases /\ n \in Nat
    BY DEF CaseInv, TablesOK, CaseRow
  <1>2. R # B
    BY <1>1, CaseKeysApart
  <1>3. B \in DOMAIN journal => R \in DOMAIN journal
    BY <1>1 DEF CaseInv, StepsInOrder
  <1>4. /\ R \in DOMAIN journal => f[R] = -n
        /\ B \in DOMAIN journal => f[B] = n
    <2>1. R \in DOMAIN journal => journal[R].entry = CaseEntry(riskCase[c], "unfreeze")
      BY <1>1 DEF CaseInv, EntriesMatch
    <2>2. B \in DOMAIN journal => journal[B].entry = CaseEntry(riskCase[c], "freeze")
      BY <1>1 DEF CaseInv, EntriesMatch
    <2>3. /\ FrozenEffect(CaseEntry(riskCase[c], "freeze")) = n
          /\ FrozenEffect(CaseEntry(riskCase[c], "unfreeze")) = -n
      BY DEF FrozenEffect, CaseEntry
    <2>4. \A k \in DOMAIN journal : f[k] = FrozenEffect(journal[k].entry)
      BY DEF FrozenMoves
    <2> HIDE DEF R, B, f, n
    <2>5. QED BY <2>1, <2>2, <2>3, <2>4
  <1>5. GivenBack(c) = -SumFunctionOnSet(f, given)
    BY DEF GivenBack, FrozenBy
  <1> HIDE DEF R, B, n, f
  <1>6. SumFunctionOnSet(f, {}) = 0
    BY SumEmpty
  <1>7. ASSUME R \in DOMAIN journal PROVE SumFunctionOnSet(f, {R}) = -n
    <2>1. IsFiniteSet({}) /\ R \notin {} /\ {} \cup {R} = {R} /\ \A k \in {} \cup {R} : f[k] \in Int
      BY <1>1, <1>4, <1>7, FS_EmptySet
    <2>2. SumFunctionOnSet(f, {} \cup {R}) = SumFunctionOnSet(f, {}) + f[R]
      BY ONLY <2>1, SumPutIn
    <2>3. QED BY <1>1, <1>4, <1>6, <1>7, <2>1, <2>2
  <1>8. ASSUME B \in DOMAIN journal PROVE SumFunctionOnSet(f, {R, B}) = 0
    <2>1. {R} \cup {B} = {R, B}
      OBVIOUS
    <2>2. IsFiniteSet({R})
      BY ONLY FS_Singleton
    <2>3. B \notin {R} /\ \A k \in {R} \cup {B} : f[k] \in Int
      BY <1>1, <1>2, <1>3, <1>4, <1>8
    <2>4. SumFunctionOnSet(f, {R} \cup {B}) = SumFunctionOnSet(f, {R}) + f[B]
      BY ONLY <2>2, <2>3, SumPutIn
    <2>5. SumFunctionOnSet(f, {R, B}) = -n + f[B]
      BY <1>3, <1>7, <1>8, <2>1, <2>4, Zenon
    <2>6. QED BY <1>1, <1>4, <1>8, <2>5
  <1>9. CASE R \notin DOMAIN journal
    <2>1. given = {}
      BY <1>3, <1>9
    <2>2. QED BY <1>5, <1>6, <1>9, <2>1 DEF R
  <1>10. CASE R \in DOMAIN journal /\ B \notin DOMAIN journal
    <2>1. given = {R}
      BY <1>10
    <2>2. QED BY <1>1, <1>5, <1>7, <1>10, <2>1 DEF R, B, n
  <1>11. CASE B \in DOMAIN journal
    <2>1. given = {R, B}
      BY <1>3, <1>11
    <2>2. QED BY <1>5, <1>8, <1>11, <2>1 DEF B
  <1>12. QED BY <1>9, <1>10, <1>11

LEMMA GivenAsPromised == CaseInv => NeverReleasedTwice /\ ReleasedGaveBack
  <1> SUFFICES ASSUME CaseInv PROVE NeverReleasedTwice /\ ReleasedGaveBack
    OBVIOUS
  <1>1. \A c \in DOMAIN riskCase : riskCase[c].status = "released" => ReleaseOf(c) \in DOMAIN journal
    BY DEF CaseInv, TablesOK, StepsInOrder
  <1>2. QED BY <1>1, BackFacts DEF NeverReleasedTwice, ReleasedGaveBack

\* Whatever is retried, crashes, times out or runs at the same time, a case gives
\* its amount back at most once and freezes again only what it gave back, with or
\* without a freeze of its own.  (risk/service.go:152-214, 600-613)
THEOREM ReleasedOnce == CaseSpec => []NeverReleasedTwice
  BY GivenAsPromised, CaseInvariance, PTL

\* Nor does a case become released without having given its amount back.
\* (risk/service.go:600-620)
THEOREM ReleaseGivesBack == CaseSpec => []ReleasedGaveBack
  BY GivenAsPromised, CaseInvariance, PTL

-----------------------------------------------------------------------------
\* Until its event is out, the handler that reviewed a case is still there to
\* publish it.

Verdict(status) == IF status = "released" THEN "release" ELSE "confirm"

Announcing ==
    faults = 0 =>
       \A c \in DOMAIN riskCase : riskCase[c].status # "pending" =>
          \/ <<"risk.review", c, Verdict(riskCase[c].status)>> \in events
          \/ \E x \in DOMAIN reviews : /\ reviews[x].pc = "publish"
                                       /\ reviews[x].current = c
                                       /\ reviews[x].op = Verdict(riskCase[c].status)

LEMMA AnnouncingKeeps ==
    ASSUME Announcing, faults' = 0 => faults = 0, events \subseteq events',
           faults' = 0 => \A c \in DOMAIN riskCase' :
              \/ riskCase'[c].status = "pending"
              \/ c \in DOMAIN riskCase /\ riskCase'[c].status = riskCase[c].status
              \/ \E x \in DOMAIN reviews' : /\ reviews'[x].pc = "publish"
                                            /\ reviews'[x].current = c
                                            /\ reviews'[x].op = Verdict(riskCase'[c].status),
           faults' = 0 => \A x \in DOMAIN reviews :
              \/ reviews[x].pc # "publish"
              \/ x \in DOMAIN reviews' /\ reviews'[x] = reviews[x]
              \/ ReviewEvent(reviews[x]) \in events'
    PROVE  Announcing'
  BY DEF Announcing, Verdict, ReviewEvent

\* Steps that review nothing and publish nothing.
LEMMA AnnouncingStays ==
    ASSUME Announcing, faults' = 0 => faults = 0, events \subseteq events',
           \A c \in DOMAIN riskCase' :
              \/ riskCase'[c].status = "pending"
              \/ c \in DOMAIN riskCase /\ riskCase'[c].status = riskCase[c].status,
           faults' = 0 => \A x \in DOMAIN reviews :
              reviews[x].pc = "publish" => x \in DOMAIN reviews' /\ reviews'[x] = reviews[x]
    PROVE  Announcing'
  BY AnnouncingKeeps

LEMMA FaultsGrow ==
    ASSUME faults \in Nat, faults' = faults \/ Fault
    PROVE  faults' = 0 => faults = 0 /\ ~Fault
  BY DEF Fault

LEMMA RequestAnnouncing ==
    ASSUME CaseInv, Announcing, NEW x \in Callers, CaseRequest(x)
    PROVE  Announcing'
  <1>0. faults \in Nat
    BY DEF CaseInv, StoreOK
  <1>1. ASSUME NEW o \in Openings, OpenCase(x, o) PROVE Announcing'
    <2>1. NewRow(o).status = "pending"
      BY DEF NewRow
    <2>2. \A c \in DOMAIN riskCase' : \/ riskCase'[c].status = "pending"
                                      \/ c \in DOMAIN riskCase /\ riskCase'[c].status = riskCase[c].status
      BY <1>1, <2>1 DEF OpenCase, Put
    <2>3. events \subseteq events' /\ (faults' = 0 => faults = 0)
      BY <1>0, <1>1 DEF OpenCase, LedgerCall, Fault
    <2>4. \A y \in DOMAIN reviews : y \in DOMAIN reviews' /\ reviews'[y] = reviews[y]
      BY <1>1 DEF OpenCase, Put, Free
    <2>5. QED BY <2>2, <2>3, <2>4, AnnouncingStays
  <1>2. ASSUME NEW r, Step(x, r), Free(x), UNCHANGED <<riskCase, faults, events>> PROVE Announcing'
    <2>1. \A y \in DOMAIN reviews : y \in DOMAIN reviews' /\ reviews'[y] = reviews[y]
      BY <1>2 DEF Step, Free, Put
    <2>2. QED BY <1>2, <2>1, AnnouncingStays
  <1>3. QED BY <1>1, <1>2 DEF CaseRequest, BeginReview, BeginRelease, BeginRestore

LEMMA EndingAnnouncing ==
    ASSUME CaseInv, Announcing, NEW x, Finish(x), UNCHANGED <<riskCase, events>>,
           \/ Fault
           \/ UNCHANGED faults /\ (x \in DOMAIN reviews => reviews[x].pc # "publish")
    PROVE  Announcing'
  <1>1. faults \in Nat
    BY DEF CaseInv, StoreOK
  <1>2. \A y \in DOMAIN reviews : y # x => y \in DOMAIN reviews' /\ reviews'[y] = reviews[y]
    BY DEF Finish
  <1>3. QED BY <1>1, <1>2, FaultsGrow, AnnouncingStays

LEMMA StepAnnouncing ==
    ASSUME CaseInv, Announcing, NEW x \in Callers, ReviewStep(x)
    PROVE  Announcing'
  <1> DEFINE r == reviews[x]
  <1>1. /\ x \in DOMAIN reviews /\ faults \in Nat
        /\ r \in Review /\ ReviewOK(r, DOMAIN riskCase, DOMAIN journal)
    BY DEF ReviewStep, CommitCase, NextCase, PostEntry, RestoreCase, SaveReview, PublishReview,
           CaseInv, StoreOK, TablesOK, ReviewsOK
  <1>2. ASSUME NEW q, Step(x, q)
        PROVE  \A y \in DOMAIN reviews' : /\ y # x => y \in DOMAIN reviews /\ reviews'[y] = reviews[y]
                                          /\ y = x => reviews'[y] = q
    BY <1>2 DEF Step, Put
  <1>3. ASSUME NEW q, Step(x, q)
        PROVE  \A y \in DOMAIN reviews : /\ y \in DOMAIN reviews'
                                         /\ y # x => reviews'[y] = reviews[y]
    BY <1>3 DEF Step, Put
  <1>4. ASSUME NEW q, Step(x, q), r.pc # "publish", events \subseteq events', faults' = 0 => faults = 0,
               \A c \in DOMAIN riskCase' :
                  \/ riskCase'[c].status = "pending"
                  \/ c \in DOMAIN riskCase /\ riskCase'[c].status = riskCase[c].status
        PROVE  Announcing'
    BY <1>3, <1>4, AnnouncingStays
  <1>5. CASE CommitCase(x)
    <2>1. r.op = "create" /\ r.pc = "save" /\ Finish(x)
      BY <1>1, <1>5 DEF CommitCase, ReviewOK
    <2>2. \A y \in DOMAIN reviews : y # x => y \in DOMAIN reviews' /\ reviews'[y] = reviews[y]
      BY <2>1 DEF Finish
    <2>3. NewRow(r.opening).status = "pending"
      BY DEF NewRow
    <2>4. \A c \in DOMAIN riskCase' : \/ riskCase'[c].status = "pending"
                                      \/ c \in DOMAIN riskCase /\ riskCase'[c].status = riskCase[c].status
      BY <1>5, <2>3 DEF CommitCase, Put
    <2>5. events \subseteq events' /\ (faults' = 0 => faults = 0)
      BY <1>1, <1>5 DEF CommitCase, Fault
    <2>6. QED BY <2>1, <2>2, <2>4, <2>5, AnnouncingStays
  <1>6. CASE NextCase(x)
    <2>1. r.pc = "next" /\ UNCHANGED <<riskCase, faults, events>> /\ \E q : Step(x, q)
      BY <1>6 DEF NextCase
    <2>2. QED BY <1>4, <2>1
  <1>7. CASE PostEntry(x)
    <2>1. r.pc = "post" /\ UNCHANGED <<riskCase, events>> /\ (\E q : Step(x, q))
          /\ (faults' = 0 => faults = 0)
      BY <1>1, <1>7 DEF PostEntry, LedgerCall, Fault, Failed
    <2>2. QED BY <1>4, <2>1
  <1>8. CASE RestoreCase(x)
    <2>1. r.pc \in {"post", "save"} /\ (\E q : Step(x, q)) /\ (faults' = 0 => faults = 0)
      BY <1>1, <1>8 DEF RestoreCase, Fault, Failed
    <2>2. events \subseteq events' /\ (riskCase' = riskCase \/ SetStatus(r.current, "pending"))
      BY <1>8 DEF RestoreCase
    <2>3. r.current \in DOMAIN riskCase
      BY <1>1, <1>8, <2>1 DEF RestoreCase, ReviewOK
    <2>4. \A c \in DOMAIN riskCase' : \/ riskCase'[c].status = "pending"
                                      \/ c \in DOMAIN riskCase /\ riskCase'[c].status = riskCase[c].status
      BY <2>2, <2>3, StatusSet DEF Statuses
    <2>5. QED BY <1>4, <2>1, <2>2, <2>4
  <1>9. CASE SaveReview(x)
    <2> DEFINE c == r.current
               status == IF r.op = "release" THEN "released" ELSE "confirmed"
               q == [r EXCEPT !.pc = "publish"]
    <2>1. r.pc = "save" /\ r.op \in {"release", "confirm"} /\ c \in DOMAIN riskCase /\ UNCHANGED events
      BY <1>1, <1>9 DEF SaveReview, ReviewOK
    <2>2. CASE SetStatus(c, status) /\ Step(x, q) /\ UNCHANGED faults
      <3>1. q.pc = "publish" /\ q.op = r.op /\ q.current = c
        BY <1>1 DEF Review
      <3>2. status \in Statuses
        BY DEF Statuses
      <3>3. /\ DOMAIN riskCase' = DOMAIN riskCase /\ riskCase'[c].status = status
            /\ \A d \in DOMAIN riskCase : d # c => riskCase'[d] = riskCase[d]
        BY <2>1, <2>2, <3>2, StatusSet
      <3>4. x \in DOMAIN reviews' /\ reviews'[x] = q
        BY <2>2 DEF Step, Put
      <3>5. Verdict(riskCase'[c].status) = r.op
        BY <2>1, <3>3 DEF Verdict
      <3> HIDE DEF q, status
      <3>6. \A y \in DOMAIN reviews :
               reviews[y].pc = "publish" => y \in DOMAIN reviews' /\ reviews'[y] = reviews[y]
        BY <1>3, <2>1, <2>2
      <3>7. QED BY <2>1, <2>2, <3>1, <3>3, <3>4, <3>5, <3>6, AnnouncingKeeps
    <2>3. CASE Fault /\ Failed(x) /\ UNCHANGED riskCase
      BY <1>1, <1>4, <2>1, <2>3, FaultsGrow DEF Failed
    <2>4. QED BY <1>9, <2>2, <2>3 DEF SaveReview
  <1>10. CASE PublishReview(x)
    <2>1. r.pc = "publish" /\ UNCHANGED riskCase
      BY <1>10 DEF PublishReview
    <2>2. CASE events' = events \cup {ReviewEvent(r)} /\ Step(x, Counted(r)) /\ UNCHANGED faults
      BY <1>3, <2>1, <2>2, AnnouncingKeeps
    <2>3. CASE Fault
      <3>1. faults' # 0 /\ events \subseteq events'
        BY <1>1, <1>10, <2>3 DEF Fault, PublishReview
      <3>2. QED BY <3>1 DEF Announcing
    <2>4. QED BY <1>10, <2>2, <2>3 DEF PublishReview
  <1>11. QED BY <1>5, <1>6, <1>7, <1>8, <1>9, <1>10 DEF ReviewStep

LEMMA InitAnnouncing == CaseInit => Announcing
  BY DEF CaseInit, Announcing

LEMMA AnnouncedInTheEnd == Announcing => ReviewAnnounced
  BY DEF Announcing, Verdict, ReviewAnnounced

\* As long as nothing failed, every reviewed case is an announced one once its
\* handler is through, whoever else reviews or restores it, with any number of
\* handlers.  (risk/service.go:577-598, 614-633)
THEOREM ReviewsAnnounced == CaseSpec => []ReviewAnnounced
  <1>1. CaseInv /\ Announcing /\ [CaseNext]_riskVars => Announcing'
    <2> SUFFICES ASSUME CaseInv, Announcing, [CaseNext]_riskVars PROVE Announcing'
      OBVIOUS
    <2>1. ASSUME NEW x \in Callers, Return(x) \/ CrashReview(x) PROVE Announcing'
      BY <2>1, EndingAnnouncing DEF Return, CrashReview
    <2>2. CASE UNCHANGED riskVars
      BY <2>2 DEF riskVars, Announcing, Verdict
    <2>3. QED BY <2>1, <2>2, RequestAnnouncing, StepAnnouncing DEF CaseNext
  <1>2. QED BY <1>1, InitAnnouncing, AnnouncedInTheEnd, CaseInvariance, PTL DEF CaseSpec

-----------------------------------------------------------------------------
\* Withdrawals.  The step a compensation undoes.

StepOf(undo) ==
    CASE undo = "withdrawal-compensate-create" -> "withdrawal-freeze"
      [] undo = "withdrawal-compensate-complete-reverse" -> "withdrawal-complete"
      [] undo = "withdrawal-compensate-reject" -> "withdrawal-reject"
      [] undo = "withdrawal-compensate-fail" -> "withdrawal-fail"
      [] undo = "withdrawal-compensate-return" -> "withdrawal-return"
      [] undo = "withdrawal-compensate-complete-unfreeze" -> "withdrawal-complete-unfreeze"

RequestsOK ==
    /\ DOMAIN request \subseteq Requests
    /\ \A k \in DOMAIN request :
          request[k] \in [agent: Agents, amount: Nat, status: RequestStatuses]

\* How far a handler has come says which entries it has posted; its compensations
\* are those of entries that are there.
HandlerOK(h, requests, posted) ==
    /\ h \in Handler
    /\ h.op = "create" => h.pc \in {"insert", "undo", "restoring"}
    /\ h.op # "create" => h.pc # "insert" /\ h.key \in requests
    /\ h.pc = "insert" => <<"withdrawal-freeze", h.key>> \in posted
    /\ h.pc = "unfreeze" => h.op # "approve"
    /\ h.pc \in {"deduct", "release", "releasing"} => h.op = "success"
    /\ h.pc \in {"deduct", "release", "releasing", "save"} /\ h.op # "approve" =>
          <<UnfreezeStep[h.op], h.key>> \in posted
    /\ h.pc \in {"release", "releasing", "save"} /\ h.op = "success" =>
          <<"withdrawal-complete", h.key>> \in posted
    /\ \A i \in DOMAIN h.undo :
          h.undo[i] # "restore" => <<StepOf(h.undo[i]), h.key>> \in posted

HandlersOK ==
    /\ DOMAIN handlers \subseteq Callers
    /\ \A x \in DOMAIN handlers : HandlerOK(handlers[x], DOMAIN request, DOMAIN journal)

UndosFollow ==
    \A k \in Requests, undo \in LedgerUndos :
       <<undo, k>> \in DOMAIN journal => <<StepOf(undo), k>> \in DOMAIN journal

IInv == CaseInv /\ RequestsOK /\ HandlersOK /\ StatusHasEntries /\ UndosFollow

LEMMA StepsAndUndos ==
    /\ DOMAIN UnfreezeStep = {"reject", "fail", "return", "success"}
    /\ UnfreezeStep["reject"] = "withdrawal-reject" /\ UnfreezeUndo["reject"] = "withdrawal-compensate-reject"
    /\ UnfreezeStep["fail"] = "withdrawal-fail" /\ UnfreezeUndo["fail"] = "withdrawal-compensate-fail"
    /\ UnfreezeStep["return"] = "withdrawal-return" /\ UnfreezeUndo["return"] = "withdrawal-compensate-return"
    /\ UnfreezeStep["success"] = "withdrawal-complete-unfreeze"
    /\ UnfreezeUndo["success"] = "withdrawal-compensate-complete-unfreeze"
  BY DEF UnfreezeStep, UnfreezeUndo

LEMMA UndoFacts ==
    /\ \A op \in {"reject", "fail", "return", "success"} :
          /\ UnfreezeStep[op] \in LedgerSteps /\ UnfreezeUndo[op] \in LedgerUndos
          /\ StepOf(UnfreezeUndo[op]) = UnfreezeStep[op]
    /\ StepOf("withdrawal-compensate-create") = "withdrawal-freeze"
    /\ StepOf("withdrawal-compensate-complete-reverse") = "withdrawal-complete"
    /\ \A undo \in LedgerUndos : StepOf(undo) \in LedgerSteps
    /\ LedgerSteps \cap LedgerUndos = {} /\ "restore" \notin LedgerUndos
  <1>1. \A op \in {"reject", "fail", "return", "success"} :
           /\ UnfreezeStep[op] \in LedgerSteps /\ UnfreezeUndo[op] \in LedgerUndos
           /\ StepOf(UnfreezeUndo[op]) = UnfreezeStep[op]
    BY StepsAndUndos DEF StepOf, LedgerSteps, LedgerUndos
  <1>2. /\ StepOf("withdrawal-compensate-create") = "withdrawal-freeze"
        /\ StepOf("withdrawal-compensate-complete-reverse") = "withdrawal-complete"
    BY DEF StepOf
  <1>3. \A undo \in LedgerUndos : StepOf(undo) \in LedgerSteps
    BY DEF StepOf, LedgerSteps, LedgerUndos
  <1>4. LedgerSteps \cap LedgerUndos = {} /\ "restore" \notin LedgerUndos
    BY DEF LedgerSteps, LedgerUndos
  <1>5. QED BY <1>1, <1>2, <1>3, <1>4

LEMMA UndosAsPromised == UndosFollow => UndoFollowsStep
  BY UndoFacts DEF UndosFollow, UndoFollowsStep, LedgerUndos

LEMMA KeyFacts ==
    ASSUME NEW step \in LedgerSteps \cup LedgerUndos, NEW k \in Requests
    PROVE  /\ <<step, k>> \in Keys
           /\ \A c \in Cases : <<step, k>> # ReleaseOf(c) /\ <<step, k>> # RestoreOf(c)
           /\ \A o \in Openings : <<step, k>> # FreezeKey(o)
  <1>1. <<step, k>> \in RequestKeys /\ step \notin CaseKinds
    BY DEF RequestKeys, CaseKinds, LedgerSteps, LedgerUndos
  <1>2. \A o \in Openings : <<step, k>> # o.key
    BY <1>1, RequestAssumption
  <1>3. \A c \in Cases : /\ <<step, k>> # FreezeOf(c) /\ <<step, k>> # ReleaseOf(c)
                         /\ <<step, k>> # RestoreOf(c)
    BY <1>1 DEF FreezeOf, ReleaseOf, RestoreOf, CaseKinds
  <1>4. \A o \in Openings : <<step, k>> # FreezeKey(o)
    BY <1>2, <1>3, OpeningFacts DEF FreezeKey
  <1>5. QED BY <1>1, <1>3, <1>4, RequestAssumption

\* A call for a request does not concern the cases.
LEMMA RequestCallKeeps ==
    ASSUME CaseInv, NEW step \in LedgerSteps \cup LedgerUndos, NEW k \in Requests,
           NEW e, e.agent \in Agents, e.amount \in Nat, NEW ok, LedgerCall(<<step, k>>, e, ok),
           UNCHANGED <<riskCase, reviews>>
    PROVE  /\ CaseInv'
           /\ DOMAIN journal \subseteq DOMAIN journal'
           /\ DOMAIN journal' \subseteq DOMAIN journal \cup {<<step, k>>}
           /\ ok => <<step, k>> \in DOMAIN journal'
  <1> DEFINE key == <<step, k>>
  <1>1. key \in Keys
    BY KeyFacts
  <1>2. \A c \in Cases : key # ReleaseOf(c) /\ key # RestoreOf(c)
    BY KeyFacts
  <1> HIDE DEF key
  <1>3. StoreOK' /\ Grows(key, e) /\ (ok => key \in DOMAIN journal')
    BY <1>1, CallFacts DEF CaseInv, key
  <1>4. /\ DOMAIN journal \subseteq DOMAIN journal'
        /\ DOMAIN journal' \subseteq DOMAIN journal \cup {key}
        /\ \A j \in DOMAIN journal : journal'[j].entry = journal[j].entry
    BY <1>3 DEF Grows
  <1>5. \A c \in Cases : /\ ReleaseOf(c) \in DOMAIN journal' <=> ReleaseOf(c) \in DOMAIN journal
                         /\ RestoreOf(c) \in DOMAIN journal' <=> RestoreOf(c) \in DOMAIN journal
    BY <1>2, <1>4
  <1>6. StepsInOrder'
    BY <1>5 DEF CaseInv, StepsInOrder
  <1>7. EntriesMatch'
    BY <1>4, <1>5 DEF CaseInv, StepsInOrder, EntriesMatch
  <1>8. TablesOK'
    BY DEF CaseInv, TablesOK
  <1>9. ReviewsOK'
    BY <1>4 DEF CaseInv, ReviewsOK, ReviewOK
  <1>10. QED BY <1>3, <1>4, <1>6, <1>7, <1>8, <1>9 DEF CaseInv, key

\* What the compensations of a handler are after one more, and after one less.
LEMMA PushedFacts ==
    ASSUME NEW h \in Handler, NEW undo \in LedgerUndos \cup {"restore"},
           NEW pc \in {"insert", "unfreeze", "deduct", "release", "releasing", "save", "undo", "restoring"}
    PROVE  LET g == Pushed(h, undo, pc)
           IN  /\ g \in Handler /\ g.op = h.op /\ g.key = h.key /\ g.pc = pc
               /\ \A i \in DOMAIN g.undo : g.undo[i] = undo \/ \E j \in DOMAIN h.undo : g.undo[i] = h.undo[j]
  <1>1. h.undo \in Seq(LedgerUndos \cup {"restore"})
    BY DEF Handler
  <1>2. <<undo>> \o h.undo \in Seq(LedgerUndos \cup {"restore"})
    BY <1>1
  <1>3. \A i \in DOMAIN (<<undo>> \o h.undo) :
           (<<undo>> \o h.undo)[i] = undo \/ \E j \in DOMAIN h.undo : (<<undo>> \o h.undo)[i] = h.undo[j]
    <2> SUFFICES ASSUME NEW i \in DOMAIN (<<undo>> \o h.undo), i # 1
                 PROVE  \E j \in DOMAIN h.undo : (<<undo>> \o h.undo)[i] = h.undo[j]
      BY <1>1
    <2>1. i - 1 \in DOMAIN h.undo /\ (<<undo>> \o h.undo)[i] = h.undo[i - 1]
      BY <1>1
    <2>2. QED BY <2>1
  <1>4. LET g == Pushed(h, undo, pc)
        IN g = [h EXCEPT !.undo = <<undo>> \o h.undo, !.pc = pc]
    BY DEF Pushed
  <1> DEFINE u == <<undo>> \o h.undo
  <1> HIDE DEF u
  <1>5. [h EXCEPT !.undo = u, !.pc = pc] \in Handler
    BY <1>2 DEF Handler, u
  <1>6. LET g == [h EXCEPT !.undo = u, !.pc = pc]
        IN  g.op = h.op /\ g.key = h.key /\ g.pc = pc /\ g.undo = u
    BY DEF Handler
  <1>7. QED BY <1>3, <1>4, <1>5, <1>6 DEF u

LEMMA PoppedFacts ==
    ASSUME NEW h \in Handler, h.undo # <<>>
    PROVE  /\ Head(h.undo) = h.undo[1] /\ 1 \in DOMAIN h.undo
           /\ Tail(h.undo) \in Seq(LedgerUndos \cup {"restore"})
           /\ \A i \in DOMAIN Tail(h.undo) : \E j \in DOMAIN h.undo : Tail(h.undo)[i] = h.undo[j]
  <1>1. h.undo \in Seq(LedgerUndos \cup {"restore"})
    BY DEF Handler
  <1>2. Head(h.undo) = h.undo[1] /\ 1 \in DOMAIN h.undo
    BY <1>1
  <1>3. Tail(h.undo) \in Seq(LedgerUndos \cup {"restore"})
    BY <1>1
  <1>4. \A i \in DOMAIN Tail(h.undo) : i + 1 \in DOMAIN h.undo /\ Tail(h.undo)[i] = h.undo[i + 1]
    BY <1>1
  <1>5. QED BY <1>2, <1>3, <1>4

-----------------------------------------------------------------------------
\* The handlers.

\* A handler goes on, or ends, and the others have lost nothing they rely on.
LEMMA HandlerMoves ==
    ASSUME IInv, CaseInv', RequestsOK', StatusHasEntries', UndosFollow',
           DOMAIN request \subseteq DOMAIN request', DOMAIN journal \subseteq DOMAIN journal',
           NEW x \in Callers,
           \A y \in DOMAIN handlers' : y # x => y \in DOMAIN handlers /\ handlers'[y] = handlers[y],
           x \in DOMAIN handlers' => HandlerOK(handlers'[x], DOMAIN request', DOMAIN journal')
    PROVE  IInv'
  <1>1. ASSUME NEW y \in DOMAIN handlers', y # x
        PROVE  HandlerOK(handlers'[y], DOMAIN request', DOMAIN journal') /\ y \in Callers
    <2>1. y \in DOMAIN handlers /\ handlers'[y] = handlers[y] /\ y \in Callers
      BY <1>1 DEF IInv, HandlersOK
    <2>2. HandlerOK(handlers[y], DOMAIN request, DOMAIN journal)
      BY <2>1 DEF IInv, HandlersOK
    <2> DEFINE h == handlers[y]
    <2> HIDE DEF h
    <2>3. HandlerOK(h, DOMAIN request', DOMAIN journal')
      BY <2>2 DEF HandlerOK, h
    <2>4. QED BY <2>1, <2>3 DEF h
  <1>2. HandlersOK'
    BY <1>1 DEF HandlersOK
  <1>3. QED BY <1>2 DEF IInv

\* The requests as they are, and more entries: none is a compensation of nothing.
LEMMA RequestsStay ==
    ASSUME IInv, UNCHANGED request, DOMAIN journal \subseteq DOMAIN journal',
           \A k \in Requests, undo \in LedgerUndos :
              <<undo, k>> \in DOMAIN journal' \ DOMAIN journal => <<StepOf(undo), k>> \in DOMAIN journal
    PROVE  RequestsOK' /\ StatusHasEntries' /\ UndosFollow'
  <1>1. RequestsOK'
    BY DEF IInv, RequestsOK
  <1>2. StatusHasEntries'
    BY DEF IInv, StatusHasEntries
  <1>3. UndosFollow'
    BY DEF IInv, UndosFollow
  <1>4. QED BY <1>1, <1>2, <1>3

\* Nothing moves but handlers, and calls of the risk service.
LEMMA OnlyHandlers ==
    ASSUME IInv, CaseInv', UNCHANGED <<request, journal>>, NEW x \in Callers,
           \/ End(x) \/ UNCHANGED handlers
           \/ \E h : Goto(x, h) /\ HandlerOK(h, DOMAIN request, DOMAIN journal)
    PROVE  IInv'
  <1>1. RequestsOK' /\ StatusHasEntries' /\ UndosFollow'
    BY RequestsStay
  <1>2. /\ \A y \in DOMAIN handlers' : y # x => y \in DOMAIN handlers /\ handlers'[y] = handlers[y]
        /\ x \in DOMAIN handlers' => HandlerOK(handlers'[x], DOMAIN request', DOMAIN journal')
    BY DEF End, Goto, Put, IInv, HandlersOK
  <1>3. QED BY <1>1, <1>2, HandlerMoves

\* A handler that gives up turns to its compensations.
LEMMA UndoIsOK ==
    ASSUME NEW h, NEW requests, NEW posted, HandlerOK(h, requests, posted)
    PROVE  HandlerOK([h EXCEPT !.pc = "undo"], requests, posted)
  <1> DEFINE g == [h EXCEPT !.pc = "undo"]
  <1>1. h \in Handler
    BY DEF HandlerOK
  <1>2. g \in Handler /\ g.op = h.op /\ g.key = h.key /\ g.pc = "undo" /\ g.undo = h.undo
    BY <1>1 DEF Handler
  <1> HIDE DEF g
  <1>3. HandlerOK(g, requests, posted)
    BY <1>2 DEF HandlerOK
  <1>4. QED BY <1>3 DEF g

LEMMA HandlerAt ==
    ASSUME IInv, NEW x, x \in DOMAIN handlers
    PROVE  /\ HandlerOK(handlers[x], DOMAIN request, DOMAIN journal)
           /\ handlers[x] \in Handler /\ handlers[x].key \in Requests
           /\ handlers[x].agent \in Agents /\ handlers[x].amount \in Nat
  BY DEF IInv, HandlersOK, HandlerOK, Handler

LEMMA CompensateHolds ==
    ASSUME IInv, CaseInv', UNCHANGED <<request, journal>>, NEW x \in Callers,
           x \in DOMAIN handlers, Compensate(x)
    PROVE  IInv'
  <1>1. HandlerOK([handlers[x] EXCEPT !.pc = "undo"], DOMAIN request, DOMAIN journal)
    BY HandlerAt, UndoIsOK
  <1>2. QED BY <1>1, OnlyHandlers DEF Compensate

\* Nothing of the cases moves but perhaps the count of faults.
LEMMA CasesStay ==
    ASSUME CaseInv, UNCHANGED <<account, journal, riskCase, reviews>>, faults' = faults \/ Fault
    PROVE  CaseInv'
  <1>1. faults' \in Nat
    BY DEF Fault, CaseInv, StoreOK
  <1>2. QED BY <1>1 DEF CaseInv, StoreOK, TablesOK, ReviewsOK, StepsInOrder, EntriesMatch

LEMMA SubmitHolds ==
    ASSUME IInv, NEW x \in Callers, NEW k \in Requests, NEW o \in Submits, Submit(x, k, o)
    PROVE  IInv'
  <1> DEFINE e == StepEntry(o, "freeze")
             h == [op |-> "create", key |-> k, agent |-> o.agent, amount |-> o.amount, pc |-> "insert",
                   undo |-> <<"withdrawal-compensate-create">>, cases |-> {}]
  <1>1. o.agent \in Agents /\ o.amount \in Nat /\ e.agent \in Agents /\ e.amount \in Nat
    BY RequestAssumption DEF StepEntry
  <1>2. PICK ok \in BOOLEAN : /\ LedgerCall(<<"withdrawal-freeze", k>>, e, ok)
                              /\ IF ok THEN Goto(x, h) ELSE UNCHANGED handlers
    BY DEF Submit
  <1>3. UNCHANGED <<riskCase, reviews, request>>
    BY DEF Submit
  <1>4. h \in Handler
    <2>1. <<"withdrawal-compensate-create">> \in Seq(LedgerUndos \cup {"restore"})
      BY DEF LedgerUndos
    <2>2. QED BY <1>1, <2>1 DEF Handler, Ops
  <1>5. /\ h.op = "create" /\ h.key = k /\ h.pc = "insert"
        /\ \A i \in DOMAIN h.undo : h.undo[i] = "withdrawal-compensate-create"
    OBVIOUS
  <1> HIDE DEF e, h
  <1>6. "withdrawal-freeze" \in LedgerSteps /\ "withdrawal-freeze" \notin LedgerUndos
    BY DEF LedgerSteps, LedgerUndos
  <1>7. /\ CaseInv' /\ DOMAIN journal \subseteq DOMAIN journal'
        /\ DOMAIN journal' \subseteq DOMAIN journal \cup {<<"withdrawal-freeze", k>>}
        /\ ok => <<"withdrawal-freeze", k>> \in DOMAIN journal'
    BY <1>1, <1>2, <1>3, <1>6, RequestCallKeeps DEF IInv
  <1>8. RequestsOK' /\ StatusHasEntries' /\ UndosFollow'
    BY <1>3, <1>6, <1>7, RequestsStay
  <1>9. ok => HandlerOK(h, DOMAIN request', DOMAIN journal')
    BY <1>4, <1>5, <1>7, UndoFacts DEF HandlerOK
  <1>10. /\ \A y \in DOMAIN handlers' : y # x => y \in DOMAIN handlers /\ handlers'[y] = handlers[y]
         /\ x \in DOMAIN handlers' => ok /\ handlers'[x] = h
    BY <1>2 DEF Goto, Put, Submit, Idle
  <1>11. QED BY <1>3, <1>7, <1>8, <1>9, <1>10, HandlerMoves

LEMMA InsertRequestHolds ==
    ASSUME IInv, NEW x \in Callers, InsertRequest(x)
    PROVE  IInv'
  <1> DEFINE h == handlers[x]
             row == [agent |-> h.agent, amount |-> h.amount, status |-> "pending"]
  <1>1. /\ x \in DOMAIN handlers /\ h.pc = "insert" /\ <<"withdrawal-freeze", h.key>> \in DOMAIN journal
        /\ h.key \in Requests /\ h.agent \in Agents /\ h.amount \in Nat
    BY HandlerAt DEF InsertRequest, At, HandlerOK
  <1>2. UNCHANGED <<account, journal, riskCase, reviews>> /\ (faults' = faults \/ Fault)
    BY DEF InsertRequest
  <1>3. CaseInv'
    BY <1>2, CasesStay DEF IInv
  <1>4. CASE h.key \notin DOMAIN request /\ request' = Put(request, h.key, row) /\ End(x)
    <2>1. /\ DOMAIN request' = DOMAIN request \cup {h.key} /\ request'[h.key] = row
          /\ \A k \in DOMAIN request : request'[k] = request[k]
      BY <1>4 DEF Put
    <2>2. row \in [agent: Agents, amount: Nat, status: RequestStatuses] /\ row.status = "pending"
      BY <1>1 DEF RequestStatuses
    <2>3. RequestsOK'
      BY <1>1, <2>1, <2>2 DEF IInv, RequestsOK
    <2>4. "withdrawal-freeze" \in LedgerSteps
      BY DEF LedgerSteps
    <2>5. StatusHasEntries' /\ UndosFollow'
      <3> HIDE DEF h, row
      <3>1. StatusHasEntries'
        BY <1>1, <1>2, <2>1, <2>2, <2>4 DEF IInv, StatusHasEntries
      <3>2. UndosFollow'
        BY <1>2 DEF IInv, UndosFollow
      <3>3. QED BY <3>1, <3>2
    <2>6. \A y \in DOMAIN handlers' : y # x /\ y \in DOMAIN handlers /\ handlers'[y] = handlers[y]
      BY <1>4 DEF End
    <2>7. QED BY <1>2, <1>3, <2>1, <2>3, <2>5, <2>6, HandlerMoves
  <1>5. CASE Compensate(x) /\ UNCHANGED request
    BY <1>1, <1>2, <1>3, <1>5, CompensateHolds
  <1>6. QED BY <1>4, <1>5 DEF InsertRequest

LEMMA BeginHandlingHolds ==
    ASSUME IInv, NEW x \in Callers, NEW k \in Requests, NEW op \in Ops \ {"create"},
           BeginHandling(x, k, op)
    PROVE  IInv'
  <1> DEFINE h == [op |-> op, key |-> k, agent |-> request[k].agent, amount |-> request[k].amount,
                   pc |-> FirstMove(op), undo |-> <<>>, cases |-> {}]
  <1>1. k \in DOMAIN request /\ request[k].agent \in Agents /\ request[k].amount \in Nat
    BY DEF BeginHandling, IInv, RequestsOK
  <1>2. FirstMove(op) \in {"save", "unfreeze"} /\ (FirstMove(op) = "save" <=> op = "approve")
    BY DEF FirstMove
  <1>3. h \in Handler
    <2>1. <<>> \in Seq(LedgerUndos \cup {"restore"})
      OBVIOUS
    <2>2. QED BY <1>1, <1>2, <2>1 DEF Handler
  <1>4. h.op = op /\ h.key = k /\ h.pc = FirstMove(op) /\ DOMAIN h.undo = {}
    OBVIOUS
  <1>5. Goto(x, h) /\ UNCHANGED <<account, journal, faults, riskCase, reviews, request>>
    BY DEF BeginHandling
  <1> HIDE DEF h
  <1>6. HandlerOK(h, DOMAIN request, DOMAIN journal)
    BY <1>1, <1>2, <1>3, <1>4 DEF HandlerOK
  <1>7. CaseInv'
    BY <1>5, CasesStay DEF IInv
  <1>8. QED BY <1>5, <1>6, <1>7, OnlyHandlers

\* A handler with one more compensation is in order when its step is posted and
\* it has got no further than it may.
LEMMA PushedIsOK ==
    ASSUME NEW h, NEW requests, NEW posted, NEW more, HandlerOK(h, requests, posted),
           posted \subseteq more, h.op # "create",
           NEW undo \in LedgerUndos \cup {"restore"},
           undo # "restore" => <<StepOf(undo), h.key>> \in more,
           NEW pc \in {"deduct", "release", "save"},
           pc \in {"deduct", "release"} => h.op = "success",
           h.op # "approve" => <<UnfreezeStep[h.op], h.key>> \in more,
           pc \in {"release", "save"} /\ h.op = "success" => <<"withdrawal-complete", h.key>> \in more
    PROVE  HandlerOK(Pushed(h, undo, pc), requests, more)
  <1> DEFINE g == Pushed(h, undo, pc)
  <1>1. h \in Handler
    BY DEF HandlerOK
  <1>0. pc \in {"insert", "unfreeze", "deduct", "release", "releasing", "save", "undo", "restoring"}
    OBVIOUS
  <1>2. /\ g \in Handler /\ g.op = h.op /\ g.key = h.key /\ g.pc = pc
        /\ \A i \in DOMAIN g.undo : g.undo[i] = undo \/ \E j \in DOMAIN h.undo : g.undo[i] = h.undo[j]
    BY ONLY <1>0, <1>1, undo \in LedgerUndos \cup {"restore"}, PushedFacts
  <1> HIDE DEF g
  <1>3. \A i \in DOMAIN g.undo : g.undo[i] # "restore" => <<StepOf(g.undo[i]), g.key>> \in more
    BY <1>2 DEF HandlerOK
  <1>4. HandlerOK(g, requests, more)
    BY <1>2, <1>3 DEF HandlerOK
  <1>5. QED BY <1>4 DEF g

LEMMA UnfreezeAmountHolds ==
    ASSUME IInv, NEW x \in Callers, UnfreezeAmount(x)
    PROVE  IInv'
  <1> DEFINE h == handlers[x]
             step == UnfreezeStep[h.op]
             e == StepEntry(h, "unfreeze")
  <1>1. /\ x \in DOMAIN handlers /\ h.pc = "unfreeze" /\ h.op \in {"reject", "fail", "return", "success"}
        /\ HandlerOK(h, DOMAIN request, DOMAIN journal)
        /\ h.key \in Requests /\ e.agent \in Agents /\ e.amount \in Nat
    BY HandlerAt DEF UnfreezeAmount, At, HandlerOK, Handler, Ops, StepEntry
  <1>2. PICK ok \in BOOLEAN : LedgerCall(<<step, h.key>>, e, ok) /\ Goto(x, Unfrozen(h, ok))
    BY DEF UnfreezeAmount
  <1>3. UNCHANGED <<riskCase, reviews, request>>
    BY DEF UnfreezeAmount
  <1>4. /\ step \in LedgerSteps /\ UnfreezeUndo[h.op] \in LedgerUndos
        /\ StepOf(UnfreezeUndo[h.op]) = step
    BY <1>1, UndoFacts
  <1> HIDE DEF h, e
  <1>5. /\ CaseInv' /\ DOMAIN journal \subseteq DOMAIN journal'
        /\ DOMAIN journal' \subseteq DOMAIN journal \cup {<<step, h.key>>}
        /\ ok => <<step, h.key>> \in DOMAIN journal'
    BY <1>1, <1>2, <1>3, <1>4, RequestCallKeeps DEF IInv
  <1>6. RequestsOK' /\ StatusHasEntries' /\ UndosFollow'
    BY <1>3, <1>4, <1>5, UndoFacts, RequestsStay
  <1>7. HandlerOK(Unfrozen(h, ok), DOMAIN request, DOMAIN journal')
    <2>1. CASE ok
      <3>1. Unfrozen(h, ok) = Pushed(h, UnfreezeUndo[h.op], IF h.op = "success" THEN "deduct" ELSE "save")
        BY <2>1 DEF Unfrozen
      <3>2. QED BY <1>1, <1>4, <1>5, <2>1, <3>1, PushedIsOK
    <2>2. CASE ~ok
      <3>1. Unfrozen(h, ok) = [h EXCEPT !.pc = "undo"]
        BY <2>2 DEF Unfrozen
      <3>2. HandlerOK(h, DOMAIN request, DOMAIN journal')
        BY <1>1, <1>5 DEF HandlerOK
      <3>3. QED BY <3>1, <3>2, UndoIsOK
    <2>3. QED BY <2>1, <2>2
  <1>8. /\ \A y \in DOMAIN handlers' : y # x => y \in DOMAIN handlers /\ handlers'[y] = handlers[y]
        /\ handlers'[x] = Unfrozen(h, ok)
    BY <1>2 DEF Goto, Put
  <1>9. QED BY <1>3, <1>5, <1>6, <1>7, <1>8, HandlerMoves

LEMMA DeductAmountHolds ==
    ASSUME IInv, NEW x \in Callers, DeductAmount(x)
    PROVE  IInv'
  <1> DEFINE h == handlers[x]
             e == DeductEntry(h)
             undo == "withdrawal-compensate-complete-reverse"
             g == Pushed(h, undo, "release")
             u == [h EXCEPT !.pc = "undo"]
  <1>1. /\ x \in DOMAIN handlers /\ h.pc = "deduct" /\ h.op = "success"
        /\ HandlerOK(h, DOMAIN request, DOMAIN journal)
        /\ <<UnfreezeStep[h.op], h.key>> \in DOMAIN journal
        /\ h.key \in Requests /\ e.agent \in Agents /\ e.amount \in Nat
    BY HandlerAt DEF DeductAmount, At, HandlerOK, DeductEntry, StepEntry
  <1>2. PICK ok \in BOOLEAN : /\ LedgerCall(<<"withdrawal-complete", h.key>>, e, ok)
                              /\ IF ok THEN Goto(x, g) ELSE Goto(x, u)
    BY DEF DeductAmount, Compensate
  <1>3. UNCHANGED <<riskCase, reviews, request>>
    BY DEF DeductAmount
  <1>4. /\ "withdrawal-complete" \in LedgerSteps /\ undo \in LedgerUndos
        /\ StepOf(undo) = "withdrawal-complete"
    BY UndoFacts DEF LedgerSteps, LedgerUndos
  <1> HIDE DEF h, e
  <1>5. /\ CaseInv' /\ DOMAIN journal \subseteq DOMAIN journal'
        /\ DOMAIN journal' \subseteq DOMAIN journal \cup {<<"withdrawal-complete", h.key>>}
        /\ ok => <<"withdrawal-complete", h.key>> \in DOMAIN journal'
    BY <1>1, <1>2, <1>3, <1>4, RequestCallKeeps DEF IInv
  <1>6. RequestsOK' /\ StatusHasEntries' /\ UndosFollow'
    BY <1>3, <1>4, <1>5, UndoFacts, RequestsStay
  <1>7. ok => HandlerOK(g, DOMAIN request, DOMAIN journal')
    BY <1>1, <1>4, <1>5, PushedIsOK
  <1>8. HandlerOK(u, DOMAIN request, DOMAIN journal')
    <2>1. HandlerOK(h, DOMAIN request, DOMAIN journal')
      BY <1>1, <1>5 DEF HandlerOK
    <2>2. QED BY <2>1, UndoIsOK
  <1> HIDE DEF g, u
  <1>9. /\ \A y \in DOMAIN handlers' : y # x => y \in DOMAIN handlers /\ handlers'[y] = handlers[y]
        /\ handlers'[x] = IF ok THEN g ELSE u
    BY <1>2 DEF Goto, Put
  <1>10. QED BY <1>3, <1>5, <1>6, <1>7, <1>8, <1>9, HandlerMoves

\* A handler that goes on to wait for the risk service, in its payout or in its
\* compensations.
LEMMA CallReleaseHolds ==
    ASSUME IInv, NEW x \in Callers, CallRelease(x)
    PROVE  IInv'
  <1> DEFINE h == handlers[x]
             g == [h EXCEPT !.pc = "releasing"]
  <1>1. x \in DOMAIN handlers /\ h.pc = "release" /\ h \in Handler /\ HandlerOK(h, DOMAIN request, DOMAIN journal)
    BY HandlerAt DEF CallRelease, At
  <1>2. CASE BeginRelease(x, h.agent) /\ Goto(x, g)
    <2>1. CaseInv'
      BY <1>2, BeginReleaseHolds DEF IInv
    <2>2. UNCHANGED <<request, journal>>
      BY <1>2 DEF BeginRelease, CallRelease
    <2>3. g \in Handler /\ g.op = h.op /\ g.key = h.key /\ g.pc = "releasing" /\ g.undo = h.undo
      BY <1>1 DEF Handler
    <2> HIDE DEF g
    <2>4. HandlerOK(g, DOMAIN request, DOMAIN journal)
      BY <1>1, <2>3 DEF HandlerOK
    <2>5. QED BY <1>2, <2>1, <2>2, <2>4, OnlyHandlers
  <1>3. CASE Fault /\ Compensate(x) /\ UNCHANGED <<account, journal, riskCase, reviews, events>>
    <2>1. CaseInv' /\ UNCHANGED request
      BY <1>3, CasesStay DEF IInv, CallRelease
    <2>2. QED BY <1>1, <1>3, <2>1, CompensateHolds
  <1>4. QED BY <1>2, <1>3 DEF CallRelease

LEMMA TakeReleasedHolds ==
    ASSUME IInv, NEW x \in Callers, TakeReleased(x)
    PROVE  IInv'
  <1> DEFINE h == handlers[x]
             r == reviews[x]
             s == [h EXCEPT !.pc = "save"]
             p == Pushed(h, "restore", "save")
             g == [p EXCEPT !.cases = r.done]
  <1>1. /\ x \in DOMAIN handlers /\ h.pc = "releasing" /\ h.op = "success" /\ h \in Handler
        /\ HandlerOK(h, DOMAIN request, DOMAIN journal)
        /\ <<UnfreezeStep[h.op], h.key>> \in DOMAIN journal
        /\ <<"withdrawal-complete", h.key>> \in DOMAIN journal
    BY HandlerAt DEF TakeReleased, At, HandlerOK
  <1>2. x \in DOMAIN reviews /\ r.done \subseteq Cases
    BY DEF TakeReleased, IInv, CaseInv, TablesOK, Review
  <1>3. Finish(x) /\ UNCHANGED <<account, journal, faults, riskCase, request>>
    BY DEF TakeReleased
  <1>4. CaseInv'
    BY <1>3, FinishHolds DEF IInv
  <1>5. CASE Compensate(x)
    BY <1>1, <1>3, <1>4, <1>5, CompensateHolds
  <1>6. CASE Goto(x, s)
    <2>1. s \in Handler /\ s.op = h.op /\ s.key = h.key /\ s.pc = "save" /\ s.undo = h.undo
      BY <1>1 DEF Handler
    <2> HIDE DEF s, h
    <2>2. HandlerOK(s, DOMAIN request, DOMAIN journal)
      BY <1>1, <2>1 DEF HandlerOK
    <2>3. QED BY <1>3, <1>4, <1>6, <2>2, OnlyHandlers
  <1>7. CASE Goto(x, g)
    <2>1. HandlerOK(p, DOMAIN request, DOMAIN journal)
      <3> HIDE DEF h
      <3>1. QED BY <1>1, PushedIsOK
    <2>2. p \in Handler
      BY <2>1 DEF HandlerOK
    <2> HIDE DEF p
    <2>3. g \in Handler /\ g.op = p.op /\ g.key = p.key /\ g.pc = p.pc /\ g.undo = p.undo
      BY <1>2, <2>2 DEF Handler
    <2> HIDE DEF g
    <2>4. HandlerOK(g, DOMAIN request, DOMAIN journal)
      BY <2>1, <2>3 DEF HandlerOK
    <2>5. QED BY <1>3, <1>4, <1>7, <2>4, OnlyHandlers
  <1>8. QED BY <1>5, <1>6, <1>7 DEF TakeReleased

LEMMA AbandonHolds ==
    ASSUME IInv, NEW x \in Callers, Abandon(x)
    PROVE  IInv'
  <1>1. CaseInv' /\ UNCHANGED <<request, journal>> /\ x \in DOMAIN handlers
    BY CasesStay DEF IInv, Abandon, Waiting, At
  <1>2. Compensate(x) \/ End(x)
    BY DEF Abandon
  <1>3. QED BY <1>1, <1>2, CompensateHolds, OnlyHandlers

LEMMA SaveRequestHolds ==
    ASSUME IInv, NEW x \in Callers, SaveRequest(x)
    PROVE  IInv'
  <1> DEFINE h == handlers[x]
             k == h.key
             status == Outcome[h.op]
  <1>1. /\ x \in DOMAIN handlers /\ h.pc = "save" /\ HandlerOK(h, DOMAIN request, DOMAIN journal)
        /\ h.op \in {"approve", "reject", "success", "fail", "return"} /\ k \in DOMAIN request
    BY HandlerAt DEF SaveRequest, At, HandlerOK, Handler, Ops
  <1>2. UNCHANGED <<account, journal, riskCase, reviews>> /\ (faults' = faults \/ Fault)
    BY DEF SaveRequest
  <1>3. CaseInv'
    BY <1>2, CasesStay DEF IInv
  <1>4. CASE request' = [request EXCEPT ![k].status = status] /\ End(x)
    <2>1. /\ h.op = "approve" => status = "approved"
          /\ h.op = "reject" => status = "rejected"
          /\ h.op = "success" => status = "paid"
          /\ h.op = "fail" => status = "failed"
          /\ h.op = "return" => status = "returned"
      BY DEF Outcome
    <2>2. k \in Requests /\ request[k] \in [agent: Agents, amount: Nat, status: RequestStatuses]
      BY <1>1 DEF IInv, RequestsOK
    <2>3. /\ DOMAIN request' = DOMAIN request
          /\ request'[k] = [request[k] EXCEPT !.status = status]
          /\ \A j \in DOMAIN request : j # k => request'[j] = request[j]
      BY <1>1, <1>4
    <2> HIDE DEF status
    <2>4. /\ request'[k] \in [agent: Agents, amount: Nat, status: RequestStatuses]
          /\ request'[k].status = status
      BY <1>1, <2>1, <2>2, <2>3 DEF RequestStatuses
    <2>5. RequestsOK'
      BY <2>3, <2>4 DEF IInv, RequestsOK
    <2>6. /\ status = "paid" => /\ <<"withdrawal-complete-unfreeze", k>> \in DOMAIN journal
                                /\ <<"withdrawal-complete", k>> \in DOMAIN journal
          /\ status = "rejected" => <<"withdrawal-reject", k>> \in DOMAIN journal
          /\ status = "failed" => <<"withdrawal-fail", k>> \in DOMAIN journal
          /\ status = "returned" => <<"withdrawal-return", k>> \in DOMAIN journal
      <3>1. h.op # "approve" => <<UnfreezeStep[h.op], k>> \in DOMAIN journal
        BY <1>1 DEF HandlerOK
      <3>2. h.op = "success" => <<"withdrawal-complete", k>> \in DOMAIN journal
        BY <1>1 DEF HandlerOK
      <3> HIDE DEF h, k
      <3>3. QED BY <1>1, <2>1, <3>1, <3>2, StepsAndUndos
    <2> HIDE DEF h, k
    <2>7. StatusHasEntries'
      BY <1>2, <2>3, <2>4, <2>6 DEF IInv, StatusHasEntries, LedgerSteps
    <2>8. UndosFollow'
      BY <1>2 DEF IInv, UndosFollow
    <2>9. \A y \in DOMAIN handlers' : y # x /\ y \in DOMAIN handlers /\ handlers'[y] = handlers[y]
      BY <1>4 DEF End
    <2>10. QED BY <1>2, <1>3, <2>3, <2>5, <2>7, <2>8, <2>9, HandlerMoves
  <1>5. CASE Compensate(x) /\ UNCHANGED request
    BY <1>1, <1>2, <1>3, <1>5, CompensateHolds
  <1>6. QED BY <1>4, <1>5 DEF SaveRequest

\* A compensation that was run is no longer to be run.
LEMMA PoppedIsOK ==
    ASSUME NEW h, NEW requests, NEW posted, NEW more, HandlerOK(h, requests, posted),
           posted \subseteq more, h.undo # <<>>, NEW pc \in {"undo", "restoring"}
    PROVE  HandlerOK([h EXCEPT !.undo = Tail(h.undo), !.pc = pc], requests, more)
  <1> DEFINE u == Tail(h.undo)
             g == [h EXCEPT !.undo = u, !.pc = pc]
  <1>1. h \in Handler
    BY DEF HandlerOK
  <1>2. /\ u \in Seq(LedgerUndos \cup {"restore"})
        /\ \A i \in DOMAIN u : \E j \in DOMAIN h.undo : u[i] = h.undo[j]
    BY <1>1, PoppedFacts
  <1> HIDE DEF u
  <1>3. g \in Handler /\ g.op = h.op /\ g.key = h.key /\ g.pc = pc /\ g.undo = u
    BY <1>1, <1>2 DEF Handler
  <1> HIDE DEF g
  <1>4. \A i \in DOMAIN g.undo : g.undo[i] # "restore" => <<StepOf(g.undo[i]), g.key>> \in more
    BY <1>2, <1>3 DEF HandlerOK
  <1>5. HandlerOK(g, requests, more)
    BY <1>3, <1>4 DEF HandlerOK
  <1>6. QED BY <1>5 DEF g, u

LEMMA UndoLedgerHolds ==
    ASSUME IInv, NEW x \in Callers, UndoLedger(x)
    PROVE  IInv'
  <1> DEFINE h == handlers[x]
             undo == Head(h.undo)
             e == UndoEntry(h, undo)
             g == [h EXCEPT !.undo = Tail(h.undo), !.pc = "undo"]
  <1>1. /\ x \in DOMAIN handlers /\ h.pc = "undo" /\ h.undo # <<>> /\ undo # "restore"
        /\ h \in Handler /\ HandlerOK(h, DOMAIN request, DOMAIN journal)
        /\ h.key \in Requests /\ e.agent \in Agents /\ e.amount \in Nat
    BY HandlerAt DEF UndoLedger, At, UndoEntry
  <1>2. PICK ok \in BOOLEAN : /\ LedgerCall(<<undo, h.key>>, e, ok)
                              /\ IF ok THEN Goto(x, [h EXCEPT !.undo = Tail(@)]) ELSE End(x)
    BY DEF UndoLedger
  <1>3. UNCHANGED <<riskCase, reviews, request>>
    BY DEF UndoLedger
  <1>4. undo \in LedgerUndos /\ <<StepOf(undo), h.key>> \in DOMAIN journal
    <2>1. undo = h.undo[1] /\ 1 \in DOMAIN h.undo /\ h.undo \in Seq(LedgerUndos \cup {"restore"})
      BY <1>1, PoppedFacts DEF Handler
    <2>2. undo \in LedgerUndos \cup {"restore"}
      BY <2>1
    <2>3. QED BY <1>1, <2>1, <2>2 DEF HandlerOK
  <1>5. [h EXCEPT !.undo = Tail(@)] = g
    BY <1>1 DEF Handler
  <1>11. IF ok THEN Goto(x, g) ELSE End(x)
    BY <1>2, <1>5
  <1> HIDE DEF h, e, undo
  <1>6. /\ CaseInv' /\ DOMAIN journal \subseteq DOMAIN journal'
        /\ DOMAIN journal' \subseteq DOMAIN journal \cup {<<undo, h.key>>}
    BY <1>1, <1>2, <1>3, <1>4, RequestCallKeeps DEF IInv
  <1>7. RequestsOK' /\ StatusHasEntries' /\ UndosFollow'
    <2>1. ASSUME NEW k \in Requests, NEW v \in LedgerUndos, <<v, k>> \in DOMAIN journal' \ DOMAIN journal
          PROVE  <<StepOf(v), k>> \in DOMAIN journal
      BY <1>4, <1>6, <2>1
    <2>2. QED BY <1>3, <1>6, <2>1, RequestsStay
  <1>8. HandlerOK(g, DOMAIN request, DOMAIN journal')
    BY <1>1, <1>6, PoppedIsOK
  <1> HIDE DEF g
  <1>9. /\ \A y \in DOMAIN handlers' : y # x => y \in DOMAIN handlers /\ handlers'[y] = handlers[y]
        /\ x \in DOMAIN handlers' => handlers'[x] = g
    BY <1>11 DEF Goto, End, Put
  <1>10. QED BY <1>3, <1>6, <1>7, <1>8, <1>9, HandlerMoves

LEMMA CallRestoreHolds ==
    ASSUME IInv, NEW x \in Callers, CallRestore(x)
    PROVE  IInv'
  <1> DEFINE h == handlers[x]
             g == [h EXCEPT !.undo = Tail(h.undo), !.pc = "restoring"]
  <1>1. /\ x \in DOMAIN handlers /\ h.undo # <<>>
        /\ h \in Handler /\ HandlerOK(h, DOMAIN request, DOMAIN journal)
        /\ BeginRestore(x, h.cases) /\ Goto(x, [h EXCEPT !.undo = Tail(@), !.pc = "restoring"])
        /\ UNCHANGED request
    BY HandlerAt DEF CallRestore, At
  <1>2. h.cases \in SUBSET Cases
    BY <1>1 DEF Handler
  <1>3. CaseInv'
    BY <1>1, <1>2, BeginRestoreHolds DEF IInv
  <1>4. [h EXCEPT !.undo = Tail(@), !.pc = "restoring"] = g
    BY <1>1 DEF Handler
  <1>5. UNCHANGED journal
    BY <1>1 DEF BeginRestore
  <1> HIDE DEF h
  <1>6. HandlerOK(g, DOMAIN request, DOMAIN journal)
    BY <1>1, PoppedIsOK
  <1> HIDE DEF g
  <1>7. QED BY <1>1, <1>3, <1>4, <1>5, <1>6, OnlyHandlers

LEMMA TakeRestoredHolds ==
    ASSUME IInv, NEW x \in Callers, TakeRestored(x)
    PROVE  IInv'
  <1>1. Compensate(x) \/ End(x)
    BY DEF TakeRestored
  <1>2. x \in DOMAIN handlers /\ Finish(x)
    BY DEF TakeRestored, At
  <1>3. UNCHANGED <<account, journal, faults, riskCase, request>>
    BY DEF TakeRestored
  <1>4. CaseInv'
    BY <1>2, <1>3, FinishHolds DEF IInv
  <1>5. QED BY <1>1, <1>2, <1>3, <1>4, CompensateHolds, OnlyHandlers

LEMMA UndoDoneHolds ==
    ASSUME IInv, NEW x \in Callers, UndoDone(x)
    PROVE  IInv'
  <1>1. End(x) /\ UNCHANGED <<account, journal, faults, riskCase, reviews, request>>
    BY DEF UndoDone
  <1>2. CaseInv'
    BY <1>1, CasesStay DEF IInv
  <1>3. QED BY <1>1, <1>2, OnlyHandlers

LEMMA CrashHandlerHolds ==
    ASSUME IInv, NEW x \in Callers, CrashHandler(x)
    PROVE  IInv'
  <1>1. End(x) /\ Fault /\ UNCHANGED <<account, journal, riskCase, request>>
        /\ (Finish(x) \/ UNCHANGED reviews)
    BY DEF CrashHandler
  <1>2. CaseInv'
    BY <1>1, CasesStay, FinishHolds DEF IInv
  <1>3. QED BY <1>1, <1>2, OnlyHandlers

\* What steps of the risk service may add to the journal.
RiskKeys == {ReleaseOf(c) : c \in Cases} \cup {RestoreOf(c) : c \in Cases}
               \cup {FreezeKey(o) : o \in Openings}

LEMMA RiskEntries ==
    ASSUME CaseInv, NEW x \in Callers,
           ReviewStep(x) \/ Return(x) \/ CrashReview(x) \/ CaseRequest(x)
    PROVE  /\ DOMAIN journal \subseteq DOMAIN journal'
           /\ \A j \in DOMAIN journal' \ DOMAIN journal :
                 j \in RiskKeys
  <1> DEFINE Q == /\ DOMAIN journal \subseteq DOMAIN journal'
                  /\ \A j \in DOMAIN journal' \ DOMAIN journal :
                        j \in RiskKeys
  <1>1. ASSUME NEW k \in RiskKeys, NEW e,
               CallOk(k, e) \/ UNCHANGED storeVars
        PROVE  Q
    <2>1. DOMAIN journal \subseteq DOMAIN journal' /\ DOMAIN journal' \subseteq DOMAIN journal \cup {k}
      BY <1>1 DEF CallOk, Posted, Replayed, Put, storeVars
    <2>2. QED BY <1>1, <2>1
  <1>2. ASSUME NEW k \in RiskKeys, NEW e, NEW ok,
               LedgerCall(k, e, ok)
        PROVE  Q
    <2>1. CallOk(k, e) \/ UNCHANGED storeVars
      BY <1>2 DEF LedgerCall, Refused
    <2>2. QED BY <1>1, <2>1
  <1>3. ASSUME UNCHANGED journal PROVE Q
    BY <1>3
  <1>4. ASSUME NEW o \in Openings, OpenCase(x, o) PROVE Q
    <2>1. FreezeKey(o) \in RiskKeys
      BY DEF RiskKeys
    <2>2. CASE o.freeze /\ Transport = "http"
      BY <1>2, <1>4, <2>1, <2>2 DEF OpenCase
    <2>3. CASE ~(o.freeze /\ Transport = "http")
      BY <1>1, <1>4, <2>1, <2>3 DEF OpenCase
    <2>4. QED BY <2>2, <2>3
  <1>5. ASSUME CaseRequest(x) PROVE Q
    BY <1>3, <1>4, <1>5 DEF CaseRequest, BeginReview, BeginRelease, BeginRestore
  <1> DEFINE c == reviews[x].current
  <1>6. ASSUME x \in DOMAIN reviews, reviews[x].pc \in {"post", "save"}, reviews[x].op # "create"
        PROVE  ReleaseOf(c) \in RiskKeys /\ RestoreOf(c) \in RiskKeys
    <2>1. c \in Cases
      BY <1>6 DEF CaseInv, TablesOK, ReviewsOK, ReviewOK
    <2>2. QED BY <2>1 DEF RiskKeys
  <1>7. ASSUME PostEntry(x) PROVE Q
    <2>1. ReleaseOf(c) \in RiskKeys /\ RestoreOf(c) \in RiskKeys
      BY <1>6, <1>7 DEF PostEntry, CaseInv, ReviewsOK, ReviewOK
    <2> HIDE DEF Q
    <2>2. QED BY <1>2, <1>7, <2>1 DEF PostEntry
  <1>8. ASSUME RestoreCase(x) PROVE Q
    <2>1. RestoreOf(c) \in RiskKeys \/ UNCHANGED journal
      BY <1>6, <1>8 DEF RestoreCase
    <2> HIDE DEF Q
    <2>2. QED BY <1>1, <1>3, <1>8, <2>1 DEF RestoreCase, storeVars
  <1>9. ASSUME \/ CommitCase(x) \/ NextCase(x) \/ SaveReview(x) \/ PublishReview(x)
               \/ Return(x) \/ CrashReview(x)
        PROVE  Q
    BY <1>3, <1>9 DEF CommitCase, NextCase, SaveReview, PublishReview, Return, CrashReview, storeVars
  <1>10. QED BY <1>5, <1>7, <1>8, <1>9 DEF ReviewStep

\* The risk service posts entries of its own only.
LEMMA RiskStepHolds ==
    ASSUME IInv, NEW x \in Callers, RiskStep(x)
    PROVE  IInv'
  <1>1. CaseInv'
    BY ReviewStepHolds, EndingHolds, CaseRequestHolds DEF RiskStep, IInv
  <1>2. UNCHANGED <<request, handlers>>
    BY DEF RiskStep
  <1>3. /\ DOMAIN journal \subseteq DOMAIN journal'
        /\ \A j \in DOMAIN journal' \ DOMAIN journal : j \in RiskKeys
    BY RiskEntries DEF IInv, RiskStep
  <1>4. RequestsOK' /\ StatusHasEntries' /\ UndosFollow'
    <2>1. ASSUME NEW k \in Requests, NEW undo \in LedgerUndos, <<undo, k>> \in DOMAIN journal' \ DOMAIN journal
          PROVE  FALSE
      BY <1>3, <2>1, KeyFacts DEF RiskKeys
    <2>2. QED BY <1>2, <1>3, <2>1, RequestsStay
  <1>5. x \in DOMAIN handlers => HandlerOK(handlers[x], DOMAIN request', DOMAIN journal')
    <2> DEFINE h == handlers[x]
    <2>1. x \in DOMAIN handlers => HandlerOK(h, DOMAIN request, DOMAIN journal)
      BY HandlerAt
    <2> HIDE DEF h
    <2>2. x \in DOMAIN handlers => HandlerOK(h, DOMAIN request', DOMAIN journal')
      BY <1>2, <1>3, <2>1 DEF HandlerOK
    <2>3. QED BY <2>2 DEF h
  <1>6. QED BY <1>1, <1>2, <1>3, <1>4, <1>5, HandlerMoves

-----------------------------------------------------------------------------
\* The invariant of the withdrawal service with the risk service it calls.

LEMMA InitHolds == Init => IInv
  <1> SUFFICES ASSUME Init PROVE IInv
    OBVIOUS
  <1>1. CaseInv
    BY InitCaseInv DEF Init
  <1>2. DOMAIN request = {} /\ DOMAIN handlers = {}
    BY DEF Init
  <1>3. \A step \in LedgerUndos, k \in Requests : <<step, k>> \notin DOMAIN journal
    <2>1. DOMAIN journal = {EarnedKey(a) : a \in Agents}
      BY DEF Init, CaseInit
    <2>2. \A step \in LedgerUndos : step # "commission"
      BY DEF LedgerUndos
    <2>3. QED BY <2>1, <2>2 DEF EarnedKey
  <1>4. QED BY <1>1, <1>2, <1>3 DEF IInv, RequestsOK, HandlersOK, StatusHasEntries, UndosFollow

LEMMA NextHolds == IInv /\ [Next]_vars => IInv'
  <1> SUFFICES ASSUME IInv, [Next]_vars PROVE IInv'
    OBVIOUS
  <1>1. ASSUME NEW x \in Callers, NEW k \in Requests, NEW o \in Submits, Submit(x, k, o) PROVE IInv'
    BY <1>1, SubmitHolds
  <1>2. ASSUME NEW x \in Callers, NEW k \in Requests, NEW op \in Ops \ {"create"}, BeginHandling(x, k, op)
        PROVE  IInv'
    BY <1>2, BeginHandlingHolds
  <1>3. ASSUME NEW x \in Callers, Handling(x) PROVE IInv'
    BY <1>3, InsertRequestHolds, UnfreezeAmountHolds, DeductAmountHolds, CallReleaseHolds,
       TakeReleasedHolds, AbandonHolds, SaveRequestHolds, UndoLedgerHolds, CallRestoreHolds,
       TakeRestoredHolds, UndoDoneHolds, CrashHandlerHolds DEF Handling
  <1>4. ASSUME NEW x \in Callers, RiskStep(x) PROVE IInv'
    BY <1>4, RiskStepHolds
  <1>5. CASE UNCHANGED vars
    BY <1>5 DEF vars, IInv, CaseInv, StoreOK, TablesOK, ReviewsOK, StepsInOrder, EntriesMatch,
                RequestsOK, HandlersOK, StatusHasEntries, UndosFollow
  <1>6. QED BY <1>1, <1>2, <1>3, <1>4, <1>5 DEF Next

\* The invariant holds in every state of requests and cases together.
THEOREM Invariance == Spec => []IInv
  BY InitHolds, NextHolds, PTL DEF Spec

\* Requests, handlers, cases and calls keep their types.
THEOREM TypeCorrect == Spec => []TypeOK
  <1>1. IInv => TypeOK
    BY DEF IInv, CaseInv, StoreOK, TablesOK, CaseTypeOK, RequestsOK, HandlersOK, HandlerOK, TypeOK
  <1>2. QED BY <1>1, Invariance, PTL

\* No request reaches a status before the money has moved, whatever fails, is
\* retried, resubmitted, or handled by several callers at the same time.
\* (withdrawal/service.go:302-330, 400-489)
THEOREM StatusAfterMoney == Spec => []StatusHasEntries
  BY Invariance, PTL DEF IInv

\* No compensation is ever posted for an entry that was not.
\* (withdrawal/service.go:203-216, 314-325, 411-423, 437-449)
THEOREM UndoAfterStep == Spec => []UndoFollowsStep
  BY UndosAsPromised, Invariance, PTL DEF IInv

\* The cases that payouts release and restore behind the back of the risk
\* operators keep to the same promises.  (withdrawal/service.go:451-470)
THEOREM CasesUnderPayouts == Spec => [](NeverReleasedTwice /\ ReleasedGaveBack)
  <1>1. IInv => NeverReleasedTwice /\ ReleasedGaveBack
    BY GivenAsPromised DEF IInv
  <1>2. QED BY <1>1, Invariance, PTL

-----------------------------------------------------------------------------
\* What both services do to the money they do through the account service: every
\* step of theirs is at most one call that LedgerStore promises, so what holds of
\* LedgerStore holds of withdrawals and cases together, whatever fails.

\* An entry as the two services ask for it.
AskedEntry == [agent: Agents, type: LedgerTypes, amount: Nat, ref: RefTypes]

OneCall == \E k \in Keys, e \in AskedEntry : Posted(k, e)

OneCallOrNone == OneCall \/ UNCHANGED storeVars

\* What a posted entry leaves behind.
LEMMA PostedMoves ==
    ASSUME StoreOK, NEW k, NEW e, e.agent \in Agents, Posted(k, e)
    PROVE  /\ DOMAIN journal' = DOMAIN journal \cup {k}
           /\ \A j \in DOMAIN journal : journal'[j] = journal[j]
           /\ journal'[k].entry = e
           /\ account'[e.agent].frozen = account[e.agent].frozen + FrozenEffect(e)
           /\ account'[e.agent].balance = account[e.agent].balance + BalanceEffect(e)
           /\ \A a \in Agents \ {e.agent} : account'[a] = account[a]
  <1>1. /\ DOMAIN journal' = DOMAIN journal \cup {k}
        /\ \A j \in DOMAIN journal : journal'[j] = journal[j]
        /\ journal'[k].entry = e
    BY DEF Posted, Put, JournalRow
  <1>2. /\ account'[e.agent] = ApplyEntry(account[e.agent], e)
        /\ \A a \in Agents \ {e.agent} : account'[a] = account[a]
    BY DEF Posted, Put, StoreOK
  <1>3. /\ ApplyEntry(account[e.agent], e).frozen = account[e.agent].frozen + FrozenEffect(e)
        /\ ApplyEntry(account[e.agent], e).balance = account[e.agent].balance + BalanceEffect(e)
    BY DEF ApplyEntry
  <1>4. QED BY <1>1, <1>2, <1>3

LEMMA CallIsOne ==
    ASSUME NEW k \in Keys, NEW e \in AskedEntry,
           CallOk(k, e) \/ UNCHANGED storeVars \/ \E ok \in BOOLEAN : LedgerCall(k, e, ok)
    PROVE  OneCallOrNone
  <1>1. CallOk(k, e) \/ UNCHANGED storeVars
    BY DEF LedgerCall, Refused
  <1>2. QED BY <1>1 DEF CallOk, Replayed, OneCallOrNone, OneCall

LEMMA CaseEntryAsked ==
    ASSUME NEW o, o.agent \in Agents, o.amount \in Nat, NEW type \in LedgerTypes
    PROVE  CaseEntry(o, type) \in AskedEntry
  BY DEF CaseEntry, AskedEntry, RefTypes

LEMMA StepEntryAsked ==
    ASSUME NEW o, o.agent \in Agents, o.amount \in Nat, NEW type \in LedgerTypes
    PROVE  StepEntry(o, type) \in AskedEntry
  BY DEF StepEntry, AskedEntry, RefTypes

\* The steps of a call of the risk service, and the requests that begin one.
RiskCall ==
    \/ UNCHANGED storeVars
    \/ \E k \in RiskKeys, e \in AskedEntry : Posted(k, e) /\ e.type \in {"freeze", "unfreeze"}

LEMMA RiskCalls ==
    ASSUME CaseInv, NEW x \in Callers,
           ReviewStep(x) \/ Return(x) \/ CrashReview(x) \/ CaseRequest(x)
    PROVE  RiskCall
  <1>1. ASSUME UNCHANGED storeVars PROVE RiskCall
    BY <1>1 DEF RiskCall
  <1>2. ASSUME NEW k \in RiskKeys, NEW o, o.agent \in Agents, o.amount \in Nat, NEW type \in {"freeze", "unfreeze"},
               \/ CallOk(k, CaseEntry(o, type))
               \/ \E ok \in BOOLEAN : LedgerCall(k, CaseEntry(o, type), ok)
        PROVE  RiskCall
    <2>1. CaseEntry(o, type) \in AskedEntry /\ CaseEntry(o, type).type = type
      BY <1>2, CaseEntryAsked, EntryFacts DEF LedgerTypes
    <2>2. CallOk(k, CaseEntry(o, type)) \/ UNCHANGED storeVars
      BY <1>2 DEF LedgerCall, Refused
    <2>3. QED BY <2>1, <2>2 DEF CallOk, Replayed, RiskCall
  <1>3. ASSUME NEW o \in Openings, OpenCase(x, o) PROVE RiskCall
    <2>1. FreezeKey(o) \in RiskKeys /\ o.agent \in Agents /\ o.amount \in Nat
      BY OpeningFacts DEF RiskKeys
    <2>2. \/ UNCHANGED storeVars
          \/ CallOk(FreezeKey(o), CaseEntry(o, "freeze"))
          \/ \E ok \in BOOLEAN : LedgerCall(FreezeKey(o), CaseEntry(o, "freeze"), ok)
      BY <1>3 DEF OpenCase
    <2>3. QED BY <1>1, <1>2, <2>1, <2>2
  <1>4. ASSUME CaseRequest(x) PROVE RiskCall
    BY <1>1, <1>3, <1>4 DEF CaseRequest, BeginReview, BeginRelease, BeginRestore, storeVars
  <1> DEFINE c == reviews[x].current
  <1>5. ASSUME x \in DOMAIN reviews, reviews[x].pc = "post"
        PROVE  /\ ReleaseOf(c) \in RiskKeys /\ RestoreOf(c) \in RiskKeys
               /\ riskCase[c].agent \in Agents /\ riskCase[c].amount \in Nat
    <2>1. c \in DOMAIN riskCase
      BY <1>5 DEF CaseInv, ReviewsOK, ReviewOK
    <2>2. QED BY <2>1 DEF CaseInv, TablesOK, CaseRow, RiskKeys
  <1>6. ASSUME PostEntry(x) PROVE RiskCall
    <2>1. x \in DOMAIN reviews /\ reviews[x].pc = "post"
      BY <1>6 DEF PostEntry
    <2>2. \/ \E ok \in BOOLEAN : LedgerCall(ReleaseOf(c), CaseEntry(riskCase[c], "unfreeze"), ok)
          \/ \E ok \in BOOLEAN : LedgerCall(RestoreOf(c), CaseEntry(riskCase[c], "freeze"), ok)
      BY <1>6 DEF PostEntry
    <2> HIDE DEF c
    <2>3. QED BY <1>2, <1>5, <2>1, <2>2
  <1>7. ASSUME RestoreCase(x) PROVE RiskCall
    <2>1. \/ UNCHANGED storeVars
          \/ /\ x \in DOMAIN reviews /\ reviews[x].pc = "post"
             /\ CallOk(RestoreOf(c), CaseEntry(riskCase[c], "freeze"))
      BY <1>7 DEF RestoreCase, storeVars
    <2> HIDE DEF c
    <2>2. QED BY <1>1, <1>2, <1>5, <2>1
  <1>8. ASSUME \/ CommitCase(x) \/ NextCase(x) \/ SaveReview(x) \/ PublishReview(x)
               \/ Return(x) \/ CrashReview(x)
        PROVE  RiskCall
    BY <1>1, <1>8 DEF CommitCase, NextCase, SaveReview, PublishReview, Return, CrashReview, storeVars
  <1>9. QED BY <1>4, <1>6, <1>7, <1>8 DEF ReviewStep

LEMMA RiskOneCall ==
    ASSUME CaseInv, NEW x \in Callers,
           ReviewStep(x) \/ Return(x) \/ CrashReview(x) \/ CaseRequest(x)
    PROVE  OneCallOrNone
  <1>1. RiskCall
    BY RiskCalls
  <1>2. RiskKeys \subseteq Keys
    BY CaseKeysApart, FreezeKeyFacts DEF RiskKeys
  <1>3. QED BY <1>1, <1>2 DEF RiskCall, OneCallOrNone, OneCall

\* The steps of a withdrawal handler that call the account service.
LEMMA HandlerOneCall ==
    ASSUME IInv, NEW x \in Callers, UnfreezeAmount(x) \/ DeductAmount(x) \/ UndoLedger(x)
    PROVE  OneCallOrNone
  <1> DEFINE h == handlers[x]
  <1>1. /\ x \in DOMAIN handlers /\ HandlerOK(h, DOMAIN request, DOMAIN journal)
        /\ h \in Handler /\ h.key \in Requests /\ h.agent \in Agents /\ h.amount \in Nat
    BY HandlerAt DEF UnfreezeAmount, DeductAmount, UndoLedger, At
  <1> HIDE DEF h
  <1>2. ASSUME UnfreezeAmount(x) PROVE OneCallOrNone
    <2>1. /\ h.pc = "unfreeze"
          /\ \E ok \in BOOLEAN :
                LedgerCall(<<UnfreezeStep[h.op], h.key>>, StepEntry(h, "unfreeze"), ok)
      BY <1>2 DEF UnfreezeAmount, At, h
    <2>2. h.op \in {"reject", "fail", "return", "success"}
      BY <1>1, <2>1 DEF HandlerOK, Handler, Ops
    <2>3. <<UnfreezeStep[h.op], h.key>> \in Keys
      BY <1>1, <2>2, UndoFacts, KeyFacts
    <2>4. StepEntry(h, "unfreeze") \in AskedEntry
      BY <1>1, StepEntryAsked DEF LedgerTypes
    <2>5. QED BY <2>1, <2>3, <2>4, CallIsOne
  <1>3. ASSUME DeductAmount(x) PROVE OneCallOrNone
    <2>1. \E ok \in BOOLEAN : LedgerCall(<<"withdrawal-complete", h.key>>, StepEntry(h, "reverse"), ok)
      BY <1>3 DEF DeductAmount, DeductEntry, h
    <2>2. <<"withdrawal-complete", h.key>> \in Keys
      BY <1>1, KeyFacts DEF LedgerSteps
    <2>3. StepEntry(h, "reverse") \in AskedEntry
      BY <1>1, StepEntryAsked DEF LedgerTypes
    <2>4. QED BY <2>1, <2>2, <2>3, CallIsOne
  <1>4. ASSUME UndoLedger(x) PROVE OneCallOrNone
    <2> DEFINE undo == Head(h.undo)
    <2>1. /\ h.undo # <<>> /\ undo # "restore"
          /\ \E ok \in BOOLEAN : LedgerCall(<<undo, h.key>>, UndoEntry(h, undo), ok)
      BY <1>4 DEF UndoLedger, h
    <2>2. undo \in LedgerUndos
      <3>1. h.undo \in Seq(LedgerUndos \cup {"restore"})
        BY <1>1 DEF Handler
      <3>2. undo \in LedgerUndos \cup {"restore"}
        BY <2>1, <3>1
      <3>3. QED BY <2>1, <3>2
    <2> HIDE DEF undo
    <2>3. <<undo, h.key>> \in Keys
      BY <1>1, <2>2, KeyFacts
    <2>4. UndoEntry(h, undo) \in AskedEntry
      BY <1>1 DEF UndoEntry, AskedEntry, LedgerTypes, RefTypes
    <2>5. QED BY <2>1, <2>3, <2>4, CallIsOne
  <1>5. QED BY <1>2, <1>3, <1>4

LEMMA StepIsOneCall ==
    ASSUME IInv, [Next]_vars
    PROVE  OneCallOrNone
  <1>1. ASSUME UNCHANGED storeVars PROVE OneCallOrNone
    BY <1>1 DEF OneCallOrNone
  <1>2. ASSUME NEW x \in Callers, NEW k \in Requests, NEW o \in Submits, Submit(x, k, o)
        PROVE  OneCallOrNone
    <2>1. o.agent \in Agents /\ o.amount \in Nat
      BY RequestAssumption
    <2>2. StepEntry(o, "freeze") \in AskedEntry
      BY <2>1, StepEntryAsked DEF LedgerTypes
    <2>3. <<"withdrawal-freeze", k>> \in Keys
      BY KeyFacts DEF LedgerSteps
    <2>4. QED BY <1>2, <2>2, <2>3, CallIsOne DEF Submit
  <1>3. ASSUME NEW x \in Callers, NEW k \in Requests, NEW op \in Ops \ {"create"}, BeginHandling(x, k, op)
        PROVE  OneCallOrNone
    BY <1>1, <1>3 DEF BeginHandling, storeVars
  <1>4. ASSUME NEW x \in Callers, Handling(x) PROVE OneCallOrNone
    <2>1. CASE UnfreezeAmount(x) \/ DeductAmount(x) \/ UndoLedger(x)
      BY <2>1, HandlerOneCall
    <2>2. CASE \/ InsertRequest(x) \/ CallRelease(x) \/ TakeReleased(x) \/ Abandon(x) \/ SaveRequest(x)
               \/ CallRestore(x) \/ TakeRestored(x) \/ UndoDone(x) \/ CrashHandler(x)
      BY <1>1, <2>2 DEF InsertRequest, CallRelease, BeginRelease, TakeReleased, Abandon, SaveRequest,
                        CallRestore, BeginRestore, TakeRestored, UndoDone, CrashHandler, storeVars
    <2>3. QED BY <1>4, <2>1, <2>2 DEF Handling
  <1>5. ASSUME NEW x \in Callers, RiskStep(x) PROVE OneCallOrNone
    BY <1>5, RiskOneCall DEF RiskStep, IInv
  <1>6. CASE UNCHANGED vars
    BY <1>1, <1>6 DEF vars, storeVars
  <1>7. QED BY <1>2, <1>3, <1>4, <1>5, <1>6 DEF Next

\* Every step of the two services on accounts and journal is one call of the
\* account service, under a key that was free, or leaves both alone: no failed
\* transaction, crash or compensation touches the money in another way.
\* (withdrawal/service.go:190-216, 302-327, 400-489, risk/service.go:152-214, 600-613)
THEOREM MoneyMovesByCalls == Spec => [][OneCall]_storeVars
  <1>1. IInv /\ [Next]_vars => [OneCall]_storeVars
    BY StepIsOneCall DEF OneCallOrNone
  <1>2. QED BY <1>1, Invariance, PTL DEF Spec

-----------------------------------------------------------------------------
\* The balance of an agent, and the requests it was deducted for.  A handler takes
\* what the row says, since nothing changes the agent or the amount of a row; and
\* only a payout gives a deduction back.

Deduction(k) == <<"withdrawal-complete", k>>
Refund(k) == <<"withdrawal-compensate-complete-reverse", k>>

Entitled(h, rows) ==
    /\ h.op # "create" => h.agent = rows[h.key].agent /\ h.amount = rows[h.key].amount
    /\ \A i \in DOMAIN h.undo :
          h.undo[i] = "withdrawal-compensate-complete-reverse" => h.op # "create"

DeductInv ==
    /\ IsFiniteSet(DOMAIN request)
    /\ \A k \in Requests : Deduction(k) \in DOMAIN journal => k \in DOMAIN request
    /\ \A x \in DOMAIN handlers : Entitled(handlers[x], request)
    /\ DeductionsExplained

\* What a step may do to balances and to the deductions on record: nothing, take the
\* amount of a request, or give it back.
Elsewhere ==
    \/ UNCHANGED storeVars
    \/ \E j \in Keys, e \in AskedEntry :
          /\ Posted(j, e) /\ BalanceEffect(e) = 0
          /\ \A k \in Requests : j # Deduction(k) /\ j # Refund(k)
Takes ==
    \E k \in DOMAIN request, e \in AskedEntry :
       /\ Posted(Deduction(k), e)
       /\ e.agent = request[k].agent /\ BalanceEffect(e) = -request[k].amount
GivesBack ==
    \E k \in DOMAIN request, e \in AskedEntry :
       /\ Posted(Refund(k), e) /\ Deduction(k) \in DOMAIN journal
       /\ e.agent = request[k].agent /\ BalanceEffect(e) = request[k].amount

RowsKept ==
    \A k \in DOMAIN request :
       /\ k \in DOMAIN request'
       /\ request'[k].agent = request[k].agent /\ request'[k].amount = request[k].amount

Amount(rows) == [k \in DOMAIN rows |-> rows[k].amount]

\* Which requests count as deducted after a step, as far as they were there before.
LEMMA DeductedMoves ==
    ASSUME IInv, RequestsOK', DeductInv, RowsKept, Elsewhere \/ Takes \/ GivesBack
    PROVE  /\ \A k \in Requests : Deduction(k) \in DOMAIN journal' => k \in DOMAIN request
           /\ Elsewhere => \A a \in Agents : /\ account'[a].balance = account[a].balance
                                             /\ Deducted(a)' = Deducted(a)
           /\ \A k \in DOMAIN request, e \in AskedEntry :
                 /\ Posted(Deduction(k), e) /\ e.agent = request[k].agent
                 => /\ k \notin Deducted(e.agent)
                    /\ \A a \in Agents : Deducted(a)' = IF a = e.agent THEN Deducted(a) \cup {k} ELSE Deducted(a)
           /\ \A k \in DOMAIN request, e \in AskedEntry :
                 /\ Posted(Refund(k), e) /\ e.agent = request[k].agent /\ Deduction(k) \in DOMAIN journal
                 => /\ k \in Deducted(e.agent)
                    /\ \A a \in Agents : Deducted(a)' = IF a = e.agent THEN Deducted(a) \ {k} ELSE Deducted(a)
  <1>1. StoreOK /\ DOMAIN request \subseteq Requests /\ DOMAIN request' \subseteq Requests
    BY DEF IInv, CaseInv, RequestsOK
  <1>2. \A j, k : /\ Deduction(j) # Refund(k)
                  /\ Deduction(j) = Deduction(k) => j = k
                  /\ Refund(j) = Refund(k) => j = k
    BY DEF Deduction, Refund
  <1>3. \A a \in Agents :
           /\ Deducted(a) = {k \in DOMAIN request : /\ request[k].agent = a /\ Deduction(k) \in DOMAIN journal
                                                    /\ Refund(k) \notin DOMAIN journal}
           /\ Deducted(a)' = {k \in DOMAIN request' : /\ request'[k].agent = a /\ Deduction(k) \in DOMAIN journal'
                                                      /\ Refund(k) \notin DOMAIN journal'}
    BY DEF Deducted, Deduction, Refund
  <1>4. ASSUME NEW j, NEW e, Posted(j, e)
        PROVE  /\ j \notin DOMAIN journal
               /\ \A i : i \in DOMAIN journal' <=> i \in DOMAIN journal \/ i = j
    BY <1>4 DEF Posted, Put
  <1>5. \A k \in Requests : Deduction(k) \in DOMAIN journal => k \in DOMAIN request
    BY DEF DeductInv
  <1>6. \A k \in Requests : Refund(k) \in DOMAIN journal => Deduction(k) \in DOMAIN journal
    <2>1. "withdrawal-compensate-complete-reverse" \in LedgerUndos
      BY DEF LedgerUndos
    <2>2. QED BY <2>1, UndoFacts DEF IInv, UndosFollow, Deduction, Refund
  <1> HIDE DEF Deduction, Refund
  <1>7. \A k \in Requests : Deduction(k) \in DOMAIN journal' => k \in DOMAIN request
    <2>1. CASE Elsewhere
      <3>1. CASE UNCHANGED storeVars
        BY <1>5, <3>1 DEF storeVars
      <3>2. ASSUME NEW j \in Keys, NEW e \in AskedEntry, Posted(j, e),
                   \A k \in Requests : j # Deduction(k) /\ j # Refund(k)
            PROVE  \A k \in Requests : Deduction(k) \in DOMAIN journal' => k \in DOMAIN request
        <4>1. \A i : i \in DOMAIN journal' <=> i \in DOMAIN journal \/ i = j
          BY <1>4, <3>2
        <4>2. QED BY <1>5, <3>2, <4>1
      <3>3. QED BY <2>1, <3>1, <3>2 DEF Elsewhere
    <2>2. CASE Takes
      <3>1. PICK k \in DOMAIN request, e \in AskedEntry : Posted(Deduction(k), e)
        BY <2>2 DEF Takes
      <3>2. \A i : i \in DOMAIN journal' <=> i \in DOMAIN journal \/ i = Deduction(k)
        BY <1>4, <3>1
      <3>3. QED BY <1>2, <1>5, <3>2
    <2>3. CASE GivesBack
      <3>1. PICK k \in DOMAIN request, e \in AskedEntry : Posted(Refund(k), e)
        BY <2>3 DEF GivesBack
      <3>2. \A i : i \in DOMAIN journal' <=> i \in DOMAIN journal \/ i = Refund(k)
        BY <1>4, <3>1
      <3>3. QED BY <1>2, <1>5, <3>2
    <2>4. QED BY <2>1, <2>2, <2>3
  <1>8. ASSUME Elsewhere, NEW a \in Agents
        PROVE  account'[a].balance = account[a].balance /\ Deducted(a)' = Deducted(a)
    <2>1. \A k \in Requests : /\ Deduction(k) \in DOMAIN journal' <=> Deduction(k) \in DOMAIN journal
                              /\ Refund(k) \in DOMAIN journal' <=> Refund(k) \in DOMAIN journal
      <3>1. CASE UNCHANGED storeVars
        BY <3>1 DEF storeVars
      <3>2. ASSUME NEW j \in Keys, NEW e \in AskedEntry, Posted(j, e),
                   \A k \in Requests : j # Deduction(k) /\ j # Refund(k)
            PROVE  \A k \in Requests : /\ Deduction(k) \in DOMAIN journal' <=> Deduction(k) \in DOMAIN journal
                                       /\ Refund(k) \in DOMAIN journal' <=> Refund(k) \in DOMAIN journal
        <4>1. \A i : i \in DOMAIN journal' <=> i \in DOMAIN journal \/ i = j
          BY <1>4, <3>2
        <4>2. QED BY <3>2, <4>1
      <3>3. QED BY <1>8, <3>1, <3>2 DEF Elsewhere
    <2>2. Deducted(a)' = Deducted(a)
      BY <1>1, <1>3, <1>5, <2>1 DEF RowsKept
    <2>3. CASE UNCHANGED storeVars
      BY <2>2, <2>3 DEF storeVars
    <2>4. ASSUME NEW j \in Keys, NEW e \in AskedEntry, Posted(j, e), BalanceEffect(e) = 0
          PROVE  account'[a].balance = account[a].balance
      <3>1. e.agent \in Agents
        BY DEF AskedEntry
      <3>2. account'[e.agent].balance = account[e.agent].balance + BalanceEffect(e)
            /\ \A b \in Agents \ {e.agent} : account'[b] = account[b]
        BY <1>1, <2>4, <3>1, PostedMoves
      <3>3. account[e.agent].balance \in Int
        BY <1>1, <3>1 DEF StoreOK, Account
      <3>4. QED BY <2>4, <3>2, <3>3
    <2>5. QED BY <1>8, <2>2, <2>3, <2>4 DEF Elsewhere
  <1>9. ASSUME NEW k \in DOMAIN request, NEW e \in AskedEntry, Posted(Deduction(k), e), e.agent = request[k].agent
        PROVE  /\ k \notin Deducted(e.agent)
               /\ \A a \in Agents : Deducted(a)' = IF a = e.agent THEN Deducted(a) \cup {k} ELSE Deducted(a)
    <2>1. e.agent \in Agents
      BY DEF AskedEntry
    <2>2. Deduction(k) \notin DOMAIN journal /\ Refund(k) \notin DOMAIN journal
      <3>1. Deduction(k) \notin DOMAIN journal
        BY <1>4, <1>9
      <3>2. QED BY <1>1, <1>6, <3>1
    <2>3. \A j \in Requests : /\ Deduction(j) \in DOMAIN journal' <=> Deduction(j) \in DOMAIN journal \/ j = k
                              /\ Refund(j) \in DOMAIN journal' <=> Refund(j) \in DOMAIN journal
      <3>1. \A i : i \in DOMAIN journal' <=> i \in DOMAIN journal \/ i = Deduction(k)
        BY <1>4, <1>9
      <3>2. QED BY <1>2, <3>1
    <2>4. k \notin Deducted(e.agent)
      BY <1>3, <2>1, <2>2
    <2>5. \A a \in Agents : Deducted(a)' = IF a = e.agent THEN Deducted(a) \cup {k} ELSE Deducted(a)
      <3> SUFFICES ASSUME NEW a \in Agents
                   PROVE  Deducted(a)' = IF a = e.agent THEN Deducted(a) \cup {k} ELSE Deducted(a)
        OBVIOUS
      <3>1. Deducted(a)' = {j \in DOMAIN request : /\ request[j].agent = a
                                                   /\ Deduction(j) \in DOMAIN journal \/ j = k
                                                   /\ Refund(j) \notin DOMAIN journal}
        BY <1>1, <1>3, <1>7, <2>3 DEF RowsKept
      <3>2. k \in DOMAIN request /\ request[k].agent = e.agent /\ Refund(k) \notin DOMAIN journal
        BY <1>9, <2>2
      <3>3. Deducted(a) = {j \in DOMAIN request : /\ request[j].agent = a /\ Deduction(j) \in DOMAIN journal
                                                  /\ Refund(j) \notin DOMAIN journal}
        BY <1>3
      <3>4. QED BY <3>1, <3>2, <3>3
    <2>6. QED BY <2>4, <2>5
  <1>10. ASSUME NEW k \in DOMAIN request, NEW e \in AskedEntry, Posted(Refund(k), e), e.agent = request[k].agent,
                Deduction(k) \in DOMAIN journal
         PROVE  /\ k \in Deducted(e.agent)
                /\ \A a \in Agents : Deducted(a)' = IF a = e.agent THEN Deducted(a) \ {k} ELSE Deducted(a)
    <2>1. e.agent \in Agents
      BY DEF AskedEntry
    <2>2. Refund(k) \notin DOMAIN journal
      BY <1>4, <1>10
    <2>3. \A j \in Requests : /\ Deduction(j) \in DOMAIN journal' <=> Deduction(j) \in DOMAIN journal
                              /\ Refund(j) \in DOMAIN journal' <=> Refund(j) \in DOMAIN journal \/ j = k
      <3>1. \A i : i \in DOMAIN journal' <=> i \in DOMAIN journal \/ i = Refund(k)
        BY <1>4, <1>10
      <3>2. QED BY <1>2, <3>1
    <2>4. k \in Deducted(e.agent)
      BY <1>3, <1>10, <2>1, <2>2
    <2>5. \A a \in Agents : Deducted(a)' = IF a = e.agent THEN Deducted(a) \ {k} ELSE Deducted(a)
      <3> SUFFICES ASSUME NEW a \in Agents
                   PROVE  Deducted(a)' = IF a = e.agent THEN Deducted(a) \ {k} ELSE Deducted(a)
        OBVIOUS
      <3>1. Deducted(a)' = {j \in DOMAIN request : /\ request[j].agent = a /\ Deduction(j) \in DOMAIN journal
                                                   /\ Refund(j) \notin DOMAIN journal /\ j # k}
        BY <1>1, <1>3, <1>7, <2>3 DEF RowsKept
      <3>2. k \in DOMAIN request /\ request[k].agent = e.agent
        BY <1>10
      <3>3. Deducted(a) = {j \in DOMAIN request : /\ request[j].agent = a /\ Deduction(j) \in DOMAIN journal
                                                  /\ Refund(j) \notin DOMAIN journal}
        BY <1>3
      <3>4. QED BY <3>1, <3>2, <3>3
    <2>6. QED BY <2>4, <2>5
  <1>11. QED BY <1>7, <1>8, <1>9, <1>10

\* The sum follows the balance.
LEMMA DeductionsStay ==
    ASSUME IInv, RequestsOK', DeductInv, RowsKept, Elsewhere \/ Takes \/ GivesBack
    PROVE  DeductionsExplained'
  <1>1. StoreOK
    BY DEF IInv, CaseInv
  <1>2. \A k \in DOMAIN request : /\ Amount(request)[k] = request[k].amount /\ request[k].amount \in Nat
                                  /\ Amount(request')[k] = Amount(request)[k]
    BY DEF RowsKept, Amount, IInv, RequestsOK
  <1>3. ASSUME NEW a \in Agents
        PROVE  /\ IsFiniteSet(Deducted(a)) /\ Deducted(a) \subseteq DOMAIN request
               /\ account[a].balance \in Int
               /\ Funds - account[a].balance = SumFunctionOnSet(Amount(request), Deducted(a))
               /\ AmountsOf(request, Deducted(a))' = SumFunctionOnSet(Amount(request'), Deducted(a)')
    <2>1. Deducted(a) \subseteq DOMAIN request
      BY DEF Deducted
    <2>2. IsFiniteSet(Deducted(a))
      BY <2>1, FS_Subset DEF DeductInv
    <2>3. Funds - account[a].balance = SumFunctionOnSet(Amount(request), Deducted(a))
      BY DEF DeductInv, DeductionsExplained, AmountsOf, Amount
    <2>4. AmountsOf(request, Deducted(a))' = SumFunctionOnSet(Amount(request'), Deducted(a)')
      BY DEF AmountsOf, Amount
    <2>5. account[a].balance \in Int
      BY <1>1 DEF StoreOK, Account
    <2>6. QED BY <2>1, <2>2, <2>3, <2>4, <2>5
  <1>4. Funds \in Int
    BY CaseAssumption
  <1>5. \A a \in Agents : SumFunctionOnSet(Amount(request'), Deducted(a)) = SumFunctionOnSet(Amount(request), Deducted(a))
    BY <1>2, <1>3, SumSame
  <1> SUFFICES ASSUME NEW a \in Agents
               PROVE  Funds - account'[a].balance = SumFunctionOnSet(Amount(request'), Deducted(a)')
    BY <1>3 DEF DeductionsExplained
  <1>6. CASE Elsewhere
    <2>1. account'[a].balance = account[a].balance /\ Deducted(a)' = Deducted(a)
      BY <1>6, DeductedMoves
    <2>2. QED BY <1>3, <1>5, <2>1
  <1>7. CASE Takes
    <2>1. PICK k \in DOMAIN request, e \in AskedEntry :
             /\ Posted(Deduction(k), e)
             /\ e.agent = request[k].agent /\ BalanceEffect(e) = -request[k].amount
      BY <1>7 DEF Takes
    <2>2. /\ k \notin Deducted(e.agent)
          /\ Deducted(a)' = IF a = e.agent THEN Deducted(a) \cup {k} ELSE Deducted(a)
      BY <2>1, DeductedMoves
    <2>3. e.agent \in Agents
      BY DEF AskedEntry
    <2>4. /\ account'[e.agent].balance = account[e.agent].balance + BalanceEffect(e)
          /\ \A b \in Agents \ {e.agent} : account'[b] = account[b]
      BY <1>1, <2>1, <2>3, PostedMoves
    <2>5. CASE a = e.agent
      <3>1. \A j \in Deducted(a) \cup {k} : Amount(request')[j] \in Int
        BY <1>2, <1>3
      <3>2. SumFunctionOnSet(Amount(request'), Deducted(a) \cup {k})
              = SumFunctionOnSet(Amount(request'), Deducted(a)) + Amount(request')[k]
        BY <1>3, <2>2, <2>5, <3>1, SumPutIn
      <3>3. Amount(request')[k] = request[k].amount /\ request[k].amount \in Nat
        BY <1>2
      <3>4. account'[a].balance = account[a].balance - request[k].amount
        BY <1>3, <2>1, <2>4, <2>5, <3>3
      <3> DEFINE before == SumFunctionOnSet(Amount(request), Deducted(a))
                 after == SumFunctionOnSet(Amount(request'), Deducted(a)')
      <3>5. after = before + request[k].amount
        BY <1>5, <2>2, <2>5, <3>2, <3>3
      <3>6. Funds - account[a].balance = before
        BY <1>3
      <3> HIDE DEF before, after
      <3>7. Funds - account'[a].balance = after
        BY <1>3, <1>4, <3>3, <3>4, <3>5, <3>6
      <3>8. QED BY <3>7 DEF after
    <2>6. CASE a # e.agent
      BY <1>3, <1>5, <2>2, <2>4, <2>6
    <2>7. QED BY <2>5, <2>6
  <1>8. CASE GivesBack
    <2>1. PICK k \in DOMAIN request, e \in AskedEntry :
             /\ Posted(Refund(k), e) /\ Deduction(k) \in DOMAIN journal
             /\ e.agent = request[k].agent /\ BalanceEffect(e) = request[k].amount
      BY <1>8 DEF GivesBack
    <2>2. /\ k \in Deducted(e.agent)
          /\ Deducted(a)' = IF a = e.agent THEN Deducted(a) \ {k} ELSE Deducted(a)
      BY <2>1, DeductedMoves
    <2>3. e.agent \in Agents
      BY DEF AskedEntry
    <2>4. /\ account'[e.agent].balance = account[e.agent].balance + BalanceEffect(e)
          /\ \A b \in Agents \ {e.agent} : account'[b] = account[b]
      BY <1>1, <2>1, <2>3, PostedMoves
    <2>5. CASE a = e.agent
      <3>1. \A j \in Deducted(a) : Amount(request')[j] \in Int
        BY <1>2, <1>3
      <3>2. SumFunctionOnSet(Amount(request'), Deducted(a))
              = Amount(request')[k] + SumFunctionOnSet(Amount(request'), Deducted(a) \ {k})
        BY <1>3, <2>2, <2>5, <3>1, SumTakeOff
      <3>3. Amount(request')[k] = request[k].amount /\ request[k].amount \in Nat
        BY <1>2
      <3>4. account'[a].balance = account[a].balance + request[k].amount
        BY <2>1, <2>4, <2>5
      <3>5. IsFiniteSet(Deducted(a) \ {k})
        BY <1>3, FS_Subset
      <3>6. SumFunctionOnSet(Amount(request'), Deducted(a) \ {k}) \in Int
        BY <3>1, <3>5, SumInt
      <3> DEFINE before == SumFunctionOnSet(Amount(request), Deducted(a))
                 after == SumFunctionOnSet(Amount(request'), Deducted(a)')
      <3>7. before = request[k].amount + after /\ after \in Int
        BY <1>5, <2>2, <2>5, <3>2, <3>3, <3>6
      <3>8. Funds - account[a].balance = before
        BY <1>3
      <3> HIDE DEF before, after
      <3>9. Funds - account'[a].balance = after
        BY <1>3, <1>4, <3>3, <3>4, <3>7, <3>8
      <3>10. QED BY <3>9 DEF after
    <2>6. CASE a # e.agent
      BY <1>3, <1>5, <2>2, <2>4, <2>6
    <2>7. QED BY <2>5, <2>6
  <1>9. QED BY <1>6, <1>7, <1>8

\* A step of one handler, or of none.
LEMMA DeductSteps ==
    ASSUME IInv, IInv', DeductInv, RowsKept, IsFiniteSet(DOMAIN request'),
           Elsewhere \/ Takes \/ GivesBack, NEW x,
           \A y \in DOMAIN handlers' : y # x => y \in DOMAIN handlers /\ handlers'[y] = handlers[y],
           x \in DOMAIN handlers' => Entitled(handlers'[x], request')
    PROVE  DeductInv'
  <1>1. RequestsOK'
    BY DEF IInv
  <1>2. DeductionsExplained'
    BY <1>1, DeductionsStay
  <1>3. \A k \in Requests : Deduction(k) \in DOMAIN journal' => k \in DOMAIN request'
    BY <1>1, DeductedMoves DEF RowsKept
  <1>4. ASSUME NEW y \in DOMAIN handlers', y # x PROVE Entitled(handlers'[y], request')
    <2>1. y \in DOMAIN handlers /\ handlers'[y] = handlers[y]
      BY <1>4
    <2>2. Entitled(handlers[y], request) /\ HandlerOK(handlers[y], DOMAIN request, DOMAIN journal)
      BY <2>1 DEF DeductInv, IInv, HandlersOK
    <2> DEFINE h == handlers[y]
    <2>3. Entitled(h, request')
      BY <2>2 DEF Entitled, HandlerOK, RowsKept
    <2>4. QED BY <2>1, <2>3
  <1>5. QED BY <1>2, <1>3, <1>4 DEF DeductInv, Deduction

\* A handler that goes on is entitled to what it was before.
LEMMA GoesOn ==
    ASSUME NEW h, NEW rows, Entitled(h, rows), NEW g, g.op = h.op, g.key = h.key,
           g.agent = h.agent, g.amount = h.amount,
           \A i \in DOMAIN g.undo :
              \/ g.undo[i] # "withdrawal-compensate-complete-reverse"
              \/ h.op # "create"
              \/ \E j \in DOMAIN h.undo : g.undo[i] = h.undo[j]
    PROVE  Entitled(g, rows)
  BY DEF Entitled

LEMMA FreezesMoveNoBalance ==
    ASSUME NEW e, e.type \in {"freeze", "unfreeze"}
    PROVE  BalanceEffect(e) = 0
  BY DEF BalanceEffect

LEMMA CallElsewhere ==
    ASSUME NEW j \in Keys, \A k \in Requests : j # Deduction(k) /\ j # Refund(k),
           NEW e \in AskedEntry, BalanceEffect(e) = 0, \E ok \in BOOLEAN : LedgerCall(j, e, ok)
    PROVE  Elsewhere
  <1>1. CallOk(j, e) \/ UNCHANGED storeVars
    BY DEF LedgerCall, Refused
  <1>2. QED BY <1>1 DEF CallOk, Replayed, Elsewhere

\* The rows stay as they are, and so do all handlers but one.
LEMMA HandlerStays ==
    ASSUME IInv, IInv', DeductInv, UNCHANGED request, Elsewhere \/ Takes \/ GivesBack, NEW x,
           \/ End(x) \/ UNCHANGED handlers
           \/ \E h : Goto(x, h) /\ Entitled(h, request)
    PROVE  DeductInv'
  <1>1. RowsKept /\ IsFiniteSet(DOMAIN request')
    BY DEF RowsKept, DeductInv
  <1>2. \A y \in DOMAIN handlers' : y # x => y \in DOMAIN handlers /\ handlers'[y] = handlers[y]
    BY DEF End, Goto, Put
  <1>3. x \in DOMAIN handlers' => Entitled(handlers'[x], request')
    BY DEF End, Goto, Put, DeductInv
  <1>4. QED BY <1>1, <1>2, <1>3, DeductSteps

\* The forms in which a handler goes on.
LEMMA FormsEntitled ==
    ASSUME NEW h \in Handler, NEW rows, Entitled(h, rows)
    PROVE  /\ \A pc : Entitled([h EXCEPT !.pc = pc], rows)
           /\ \A undo \in LedgerUndos \cup {"restore"},
                 pc \in {"insert", "unfreeze", "deduct", "release", "releasing", "save", "undo", "restoring"} :
                 undo # "withdrawal-compensate-complete-reverse" \/ h.op # "create"
                    => Entitled(Pushed(h, undo, pc), rows)
           /\ h.undo # <<>> => /\ Entitled([h EXCEPT !.undo = Tail(@)], rows)
                               /\ \A pc : Entitled([h EXCEPT !.undo = Tail(@), !.pc = pc], rows)
  <1>1. ASSUME NEW pc PROVE Entitled([h EXCEPT !.pc = pc], rows)
    <2> DEFINE g == [h EXCEPT !.pc = pc]
    <2>1. g.op = h.op /\ g.key = h.key /\ g.agent = h.agent /\ g.amount = h.amount /\ g.undo = h.undo
      BY DEF Handler
    <2> HIDE DEF g
    <2>2. Entitled(g, rows)
      BY <2>1 DEF Entitled
    <2>3. QED BY <2>2 DEF g
  <1>2. ASSUME NEW undo \in LedgerUndos \cup {"restore"},
               NEW pc \in {"insert", "unfreeze", "deduct", "release", "releasing", "save", "undo", "restoring"},
               undo # "withdrawal-compensate-complete-reverse" \/ h.op # "create"
        PROVE  Entitled(Pushed(h, undo, pc), rows)
    <2> DEFINE g == Pushed(h, undo, pc)
    <2>1. /\ g.op = h.op /\ g.key = h.key
          /\ \A i \in DOMAIN g.undo : g.undo[i] = undo \/ \E j \in DOMAIN h.undo : g.undo[i] = h.undo[j]
      BY PushedFacts
    <2>2. g.agent = h.agent /\ g.amount = h.amount
      BY DEF Pushed, Handler
    <2> HIDE DEF g
    <2>3. Entitled(g, rows)
      BY <1>2, <2>1, <2>2, GoesOn
    <2>4. QED BY <2>3 DEF g
  <1>3. ASSUME h.undo # <<>>, NEW g, g.op = h.op, g.key = h.key, g.agent = h.agent, g.amount = h.amount,
               g.undo = Tail(h.undo)
        PROVE  Entitled(g, rows)
    <2>1. \A i \in DOMAIN g.undo : \E j \in DOMAIN h.undo : g.undo[i] = h.undo[j]
      BY <1>3, PoppedFacts
    <2>2. QED BY <1>3, <2>1, GoesOn
  <1>4. ASSUME h.undo # <<>> PROVE Entitled([h EXCEPT !.undo = Tail(@)], rows)
    <2> DEFINE g == [h EXCEPT !.undo = Tail(@)]
    <2>1. /\ g.op = h.op /\ g.key = h.key /\ g.agent = h.agent /\ g.amount = h.amount
          /\ g.undo = Tail(h.undo)
      BY DEF Handler
    <2> HIDE DEF g
    <2>2. Entitled(g, rows)
      BY <1>3, <1>4, <2>1
    <2>3. QED BY <2>2 DEF g
  <1>5. ASSUME h.undo # <<>>, NEW pc PROVE Entitled([h EXCEPT !.undo = Tail(@), !.pc = pc], rows)
    <2> DEFINE g == [h EXCEPT !.undo = Tail(@), !.pc = pc]
    <2>1. /\ g.op = h.op /\ g.key = h.key /\ g.agent = h.agent /\ g.amount = h.amount
          /\ g.undo = Tail(h.undo)
      BY DEF Handler
    <2> HIDE DEF g
    <2>2. Entitled(g, rows)
      BY <1>3, <1>5, <2>1
    <2>3. QED BY <2>2 DEF g
  <1>6. QED BY <1>1, <1>2, <1>4, <1>5

LEMMA HandlerEntitled ==
    ASSUME IInv, DeductInv, NEW x \in DOMAIN handlers
    PROVE  /\ HandlerOK(handlers[x], DOMAIN request, DOMAIN journal)
           /\ Entitled(handlers[x], request)
           /\ handlers[x] \in Handler
           /\ handlers[x].key \in Requests /\ handlers[x].agent \in Agents /\ handlers[x].amount \in Nat
  <1>1. HandlerOK(handlers[x], DOMAIN request, DOMAIN journal) /\ Entitled(handlers[x], request)
    BY DEF IInv, HandlersOK, DeductInv
  <1>2. QED BY <1>1 DEF HandlerOK, Handler

LEMMA SubmitDeducts ==
    ASSUME IInv, IInv', DeductInv, NEW x \in Callers, NEW k \in Requests, NEW o \in Submits, Submit(x, k, o)
    PROVE  DeductInv'
  <1>1. o.agent \in Agents /\ o.amount \in Nat
    BY RequestAssumption
  <1>2. StepEntry(o, "freeze") \in AskedEntry /\ BalanceEffect(StepEntry(o, "freeze")) = 0
    <2>1. StepEntry(o, "freeze") \in AskedEntry
      BY <1>1, StepEntryAsked DEF LedgerTypes
    <2>2. StepEntry(o, "freeze").type = "freeze"
      BY DEF StepEntry
    <2>3. QED BY <2>1, <2>2, FreezesMoveNoBalance
  <1>3. <<"withdrawal-freeze", k>> \in Keys
    BY KeyFacts DEF LedgerSteps
  <1>4. \A j \in Requests : <<"withdrawal-freeze", k>> # Deduction(j) /\ <<"withdrawal-freeze", k>> # Refund(j)
    BY DEF Deduction, Refund
  <1>5. Elsewhere
    BY <1>2, <1>3, <1>4, CallElsewhere DEF Submit
  <1> DEFINE h == [op |-> "create", key |-> k, agent |-> o.agent,
                   amount |-> o.amount, pc |-> "insert",
                   undo |-> <<"withdrawal-compensate-create">>, cases |-> {}]
  <1>6. Entitled(h, request)
    BY DEF Entitled
  <1>7. UNCHANGED request /\ (Goto(x, h) \/ UNCHANGED handlers)
    BY DEF Submit
  <1> HIDE DEF h
  <1>8. QED BY <1>5, <1>6, <1>7, HandlerStays

LEMMA InsertDeducts ==
    ASSUME IInv, IInv', DeductInv, NEW x \in Callers, InsertRequest(x)
    PROVE  DeductInv'
  <1> DEFINE h == handlers[x]
  <1>1. x \in DOMAIN handlers /\ h \in Handler /\ Entitled(h, request)
    BY HandlerEntitled DEF InsertRequest, At
  <1>2. Elsewhere
    BY DEF InsertRequest, Elsewhere, storeVars
  <1>3. CASE UNCHANGED request /\ Compensate(x)
    <2>1. Goto(x, [h EXCEPT !.pc = "undo"]) /\ Entitled([h EXCEPT !.pc = "undo"], request)
      BY <1>1, <1>3, FormsEntitled DEF Compensate
    <2>2. QED BY <1>2, <1>3, <2>1, HandlerStays
  <1>4. CASE /\ h.key \notin DOMAIN request /\ End(x)
             /\ request' = Put(request, h.key, [agent |-> h.agent, amount |-> h.amount, status |-> "pending"])
    <2>1. RowsKept /\ DOMAIN request' = DOMAIN request \cup {h.key}
      BY <1>4 DEF Put, RowsKept
    <2>2. IsFiniteSet(DOMAIN request')
      BY <2>1, FS_AddElement DEF DeductInv
    <2>3. /\ \A y \in DOMAIN handlers' : y # x => y \in DOMAIN handlers /\ handlers'[y] = handlers[y]
          /\ x \notin DOMAIN handlers'
      BY <1>4 DEF End
    <2>4. QED BY <1>2, <2>1, <2>2, <2>3, DeductSteps
  <1>5. QED BY <1>3, <1>4 DEF InsertRequest

LEMMA BeginDeducts ==
    ASSUME IInv, IInv', DeductInv, NEW x \in Callers, NEW k \in Requests, NEW op \in Ops \ {"create"},
           BeginHandling(x, k, op)
    PROVE  DeductInv'
  <1> DEFINE h == [op |-> op, key |-> k, agent |-> request[k].agent, amount |-> request[k].amount,
                   pc |-> FirstMove(op), undo |-> <<>>, cases |-> {}]
  <1>1. Entitled(h, request)
    BY DEF Entitled
  <1>2. Goto(x, h) /\ UNCHANGED request /\ Elsewhere
    BY DEF BeginHandling, Elsewhere, storeVars
  <1> HIDE DEF h
  <1>3. QED BY <1>1, <1>2, HandlerStays

LEMMA UnfreezeDeducts ==
    ASSUME IInv, IInv', DeductInv, NEW x \in Callers, UnfreezeAmount(x)
    PROVE  DeductInv'
  <1> DEFINE h == handlers[x]
  <1>1. /\ x \in DOMAIN handlers /\ h \in Handler /\ Entitled(h, request)
        /\ HandlerOK(h, DOMAIN request, DOMAIN journal)
        /\ h.key \in Requests /\ h.agent \in Agents /\ h.amount \in Nat
    BY HandlerEntitled DEF UnfreezeAmount, At
  <1>2. /\ h.pc = "unfreeze" /\ UNCHANGED request
        /\ \E ok \in BOOLEAN : /\ LedgerCall(<<UnfreezeStep[h.op], h.key>>, StepEntry(h, "unfreeze"), ok)
                               /\ Goto(x, Unfrozen(h, ok))
    BY DEF UnfreezeAmount, At
  <1> HIDE DEF h
  <1>3. h.op \in {"reject", "fail", "return", "success"}
    BY <1>1, <1>2 DEF HandlerOK, Handler, Ops
  <1>4. /\ <<UnfreezeStep[h.op], h.key>> \in Keys
        /\ \A k \in Requests : /\ <<UnfreezeStep[h.op], h.key>> # Deduction(k)
                               /\ <<UnfreezeStep[h.op], h.key>> # Refund(k)
    <2>1. /\ UnfreezeStep[h.op] \in LedgerSteps
          /\ UnfreezeStep[h.op] # "withdrawal-complete"
          /\ UnfreezeStep[h.op] # "withdrawal-compensate-complete-reverse"
      BY <1>3, UndoFacts, StepsAndUndos
    <2>2. QED BY <1>1, <2>1, KeyFacts DEF Deduction, Refund
  <1>5. StepEntry(h, "unfreeze") \in AskedEntry /\ BalanceEffect(StepEntry(h, "unfreeze")) = 0
    <2>1. StepEntry(h, "unfreeze") \in AskedEntry
      BY <1>1, StepEntryAsked DEF LedgerTypes
    <2>2. StepEntry(h, "unfreeze").type = "unfreeze"
      BY DEF StepEntry
    <2>3. QED BY <2>1, <2>2, FreezesMoveNoBalance
  <1>6. Elsewhere
    BY <1>2, <1>4, <1>5, CallElsewhere
  <1>7. ASSUME NEW ok \in BOOLEAN PROVE Entitled(Unfrozen(h, ok), request)
    <2>1. /\ UnfreezeUndo[h.op] \in LedgerUndos
          /\ UnfreezeUndo[h.op] # "withdrawal-compensate-complete-reverse"
      BY <1>3, UndoFacts, StepsAndUndos
    <2>2. /\ Entitled(Pushed(h, UnfreezeUndo[h.op], "deduct"), request)
          /\ Entitled(Pushed(h, UnfreezeUndo[h.op], "save"), request)
          /\ Entitled([h EXCEPT !.pc = "undo"], request)
      BY <1>1, <2>1, FormsEntitled
    <2>3. QED BY <2>2 DEF Unfrozen
  <1>8. QED BY <1>2, <1>6, <1>7, HandlerStays

LEMMA DeductDeducts ==
    ASSUME IInv, IInv', DeductInv, NEW x \in Callers, DeductAmount(x)
    PROVE  DeductInv'
  <1> DEFINE h == handlers[x]
             e == DeductEntry(h)
  <1>1. /\ x \in DOMAIN handlers /\ h \in Handler /\ Entitled(h, request)
        /\ HandlerOK(h, DOMAIN request, DOMAIN journal)
        /\ h.key \in Requests /\ h.agent \in Agents /\ h.amount \in Nat
    BY HandlerEntitled DEF DeductAmount, At
  <1>2. /\ h.pc = "deduct" /\ UNCHANGED request
        /\ \E ok \in BOOLEAN : LedgerCall(Deduction(h.key), e, ok)
        /\ \/ Goto(x, Pushed(h, "withdrawal-compensate-complete-reverse", "release"))
           \/ Goto(x, [h EXCEPT !.pc = "undo"])
    BY DEF DeductAmount, At, Deduction, Compensate
  <1>3. /\ e \in AskedEntry /\ e.agent = h.agent /\ BalanceEffect(e) = -h.amount
    <2>1. e \in AskedEntry
      BY <1>1, StepEntryAsked DEF DeductEntry, LedgerTypes
    <2>2. e.type = "reverse" /\ e.ref = "withdrawal_request" /\ e.agent = h.agent /\ e.amount = h.amount
      BY DEF DeductEntry, StepEntry
    <2>3. QED BY <2>1, <2>2 DEF BalanceEffect, ReverseApplies, BalanceRefTypes
  <1> HIDE DEF h, e
  <1>4. h.op # "create" /\ h.key \in DOMAIN request
    BY <1>1, <1>2 DEF HandlerOK
  <1>5. h.agent = request[h.key].agent /\ h.amount = request[h.key].amount
    BY <1>1, <1>4 DEF Entitled
  <1>6. Elsewhere \/ Takes
    <2>1. CallOk(Deduction(h.key), e) \/ UNCHANGED storeVars
      BY <1>2 DEF LedgerCall, Refused
    <2>2. Posted(Deduction(h.key), e) \/ UNCHANGED storeVars
      BY <2>1 DEF CallOk, Replayed
    <2>3. QED BY <1>3, <1>4, <1>5, <2>2 DEF Elsewhere, Takes
  <1>7. /\ Entitled(Pushed(h, "withdrawal-compensate-complete-reverse", "release"), request)
        /\ Entitled([h EXCEPT !.pc = "undo"], request)
    <2>1. "withdrawal-compensate-complete-reverse" \in LedgerUndos
      BY DEF LedgerUndos
    <2>2. QED BY <1>1, <1>4, <2>1, FormsEntitled
  <1>8. QED BY <1>2, <1>6, <1>7, HandlerStays

LEMMA UndoDeducts ==
    ASSUME IInv, IInv', DeductInv, NEW x \in Callers, UndoLedger(x)
    PROVE  DeductInv'
  <1> DEFINE h == handlers[x]
             undo == Head(h.undo)
             e == UndoEntry(h, undo)
  <1>1. /\ x \in DOMAIN handlers /\ h \in Handler /\ Entitled(h, request)
        /\ HandlerOK(h, DOMAIN request, DOMAIN journal)
        /\ h.key \in Requests /\ h.agent \in Agents /\ h.amount \in Nat
    BY HandlerEntitled DEF UndoLedger, At
  <1>2. /\ h.undo # <<>> /\ undo # "restore" /\ UNCHANGED request
        /\ \E ok \in BOOLEAN : LedgerCall(<<undo, h.key>>, e, ok)
        /\ Goto(x, [h EXCEPT !.undo = Tail(@)]) \/ End(x)
    BY DEF UndoLedger
  <1>3. /\ e.agent = h.agent /\ e.amount = h.amount
        /\ undo = "withdrawal-compensate-complete-reverse" => e.type = "income"
        /\ undo # "withdrawal-compensate-complete-reverse" => e.type \in {"freeze", "unfreeze"}
        /\ e \in AskedEntry
    BY <1>1 DEF UndoEntry, AskedEntry, LedgerTypes, RefTypes
  <1>4. undo = h.undo[1] /\ 1 \in DOMAIN h.undo
    BY <1>1, <1>2, PoppedFacts
  <1> HIDE DEF h, undo, e
  <1>5. undo \in LedgerUndos
    BY <1>1, <1>2, <1>4 DEF Handler
  <1>6. <<undo, h.key>> \in Keys
    BY <1>1, <1>5, KeyFacts
  <1>7. Elsewhere \/ GivesBack
    <2>1. CASE undo = "withdrawal-compensate-complete-reverse"
      <3>1. h.op # "create"
        BY <1>1, <1>4, <2>1 DEF Entitled
      <3>2. /\ h.key \in DOMAIN request
            /\ h.agent = request[h.key].agent /\ h.amount = request[h.key].amount
        BY <1>1, <3>1 DEF HandlerOK, Entitled
      <3>3. Deduction(h.key) \in DOMAIN journal
        BY <1>1, <1>4, <2>1, UndoFacts DEF HandlerOK, Deduction
      <3>4. <<undo, h.key>> = Refund(h.key) /\ BalanceEffect(e) = h.amount
        BY <1>3, <2>1 DEF Refund, BalanceEffect
      <3>5. CallOk(Refund(h.key), e) \/ UNCHANGED storeVars
        BY <1>2, <3>4 DEF LedgerCall, Refused
      <3>6. Posted(Refund(h.key), e) \/ UNCHANGED storeVars
        BY <3>5 DEF CallOk, Replayed
      <3>7. QED BY <1>3, <3>2, <3>3, <3>4, <3>6 DEF Elsewhere, GivesBack
    <2>2. CASE undo # "withdrawal-compensate-complete-reverse"
      <3>1. BalanceEffect(e) = 0
        BY <1>3, <2>2, FreezesMoveNoBalance
      <3>2. undo # "withdrawal-complete"
        BY <1>5 DEF LedgerUndos
      <3>3. \A k \in Requests : <<undo, h.key>> # Deduction(k) /\ <<undo, h.key>> # Refund(k)
        BY <2>2, <3>2 DEF Deduction, Refund
      <3>4. Elsewhere
        BY <1>2, <1>3, <1>6, <3>1, <3>3, CallElsewhere
      <3>5. QED BY <3>4
    <2>3. QED BY <2>1, <2>2
  <1>8. Entitled([h EXCEPT !.undo = Tail(@)], request)
    BY <1>1, <1>2, FormsEntitled
  <1>9. QED BY <1>2, <1>7, <1>8, HandlerStays

LEMMA SaveDeducts ==
    ASSUME IInv, IInv', DeductInv, NEW x \in Callers, SaveRequest(x)
    PROVE  DeductInv'
  <1> DEFINE h == handlers[x]
  <1>1. x \in DOMAIN handlers /\ h \in Handler /\ Entitled(h, request)
    BY HandlerEntitled DEF SaveRequest, At
  <1>2. Elsewhere
    BY DEF SaveRequest, Elsewhere, storeVars
  <1>3. CASE UNCHANGED request /\ Compensate(x)
    <2>1. Goto(x, [h EXCEPT !.pc = "undo"]) /\ Entitled([h EXCEPT !.pc = "undo"], request)
      BY <1>1, <1>3, FormsEntitled DEF Compensate
    <2>2. QED BY <1>2, <1>3, <2>1, HandlerStays
  <1>4. CASE request' = [request EXCEPT ![h.key].status = Outcome[h.op]] /\ End(x)
    <2>1. \A k \in DOMAIN request : request[k] \in [agent: Agents, amount: Nat, status: RequestStatuses]
      BY DEF IInv, RequestsOK
    <2>2. RowsKept /\ DOMAIN request' = DOMAIN request
      BY <1>4, <2>1 DEF RowsKept
    <2>3. IsFiniteSet(DOMAIN request')
      BY <2>2 DEF DeductInv
    <2>4. /\ \A y \in DOMAIN handlers' : y # x => y \in DOMAIN handlers /\ handlers'[y] = handlers[y]
          /\ x \notin DOMAIN handlers'
      BY <1>4 DEF End
    <2>5. QED BY <1>2, <2>2, <2>3, <2>4, DeductSteps
  <1>5. QED BY <1>3, <1>4 DEF SaveRequest

\* The steps that leave accounts and rows alone.
LEMMA OtherwiseDeducts ==
    ASSUME IInv, IInv', DeductInv, NEW x \in Callers,
           \/ CallRelease(x) \/ TakeReleased(x) \/ Abandon(x)
           \/ CallRestore(x) \/ TakeRestored(x) \/ UndoDone(x) \/ CrashHandler(x)
    PROVE  DeductInv'
  <1> DEFINE h == handlers[x]
  <1>1. /\ x \in DOMAIN handlers /\ h \in Handler /\ Entitled(h, request)
    BY HandlerEntitled DEF CallRelease, TakeReleased, Abandon, Waiting, CallRestore, TakeRestored,
                           UndoDone, CrashHandler, At
  <1>2. Elsewhere /\ UNCHANGED request
    BY DEF CallRelease, BeginRelease, TakeReleased, Abandon, CallRestore, BeginRestore, TakeRestored,
           UndoDone, CrashHandler, Elsewhere, storeVars
  <1>3. /\ \A pc : Entitled([h EXCEPT !.pc = pc], request)
        /\ Entitled(Pushed(h, "restore", "save"), request)
        /\ h.undo # <<>> => \A pc : Entitled([h EXCEPT !.undo = Tail(@), !.pc = pc], request)
    BY <1>1, FormsEntitled
  <1>4. ASSUME NEW S PROVE Entitled([Pushed(h, "restore", "save") EXCEPT !.cases = S], request)
    <2> DEFINE g == Pushed(h, "restore", "save")
               f == [g EXCEPT !.cases = S]
    <2>1. g \in Handler
      BY <1>1, PushedFacts
    <2>2. Entitled(g, request)
      BY <1>3
    <2> HIDE DEF g
    <2>3. f.op = g.op /\ f.key = g.key /\ f.agent = g.agent /\ f.amount = g.amount /\ f.undo = g.undo
      BY <2>1 DEF Handler
    <2> HIDE DEF f
    <2>4. Entitled(f, request)
      BY <2>2, <2>3 DEF Entitled
    <2>5. QED BY <2>4 DEF f, g
  <1>5. \/ End(x)
        \/ \E pc : Goto(x, [h EXCEPT !.pc = pc])
        \/ \E S : Goto(x, [Pushed(h, "restore", "save") EXCEPT !.cases = S])
        \/ h.undo # <<>> /\ Goto(x, [h EXCEPT !.undo = Tail(@), !.pc = "restoring"])
    <2>1. CASE CallRelease(x) \/ Abandon(x) \/ TakeRestored(x) \/ UndoDone(x) \/ CrashHandler(x)
      BY <2>1 DEF CallRelease, Abandon, TakeRestored, UndoDone, CrashHandler, Compensate
    <2>2. CASE TakeReleased(x)
      <3>1. \/ Compensate(x)
            \/ Goto(x, [h EXCEPT !.pc = "save"])
            \/ Goto(x, [Pushed(h, "restore", "save") EXCEPT !.cases = reviews[x].done])
        BY <2>2 DEF TakeReleased
      <3>2. QED BY <3>1 DEF Compensate
    <2>3. CASE CallRestore(x)
      BY <2>3 DEF CallRestore
    <2>4. QED BY <2>1, <2>2, <2>3
  <1> HIDE DEF h
  <1>6. QED BY <1>2, <1>3, <1>4, <1>5, HandlerStays

LEMMA RiskDeducts ==
    ASSUME IInv, IInv', DeductInv, NEW x \in Callers, RiskStep(x)
    PROVE  DeductInv'
  <1>1. UNCHANGED <<request, handlers>>
    BY DEF RiskStep
  <1>2. RiskCall
    BY RiskCalls DEF RiskStep, IInv
  <1>3. \A j \in RiskKeys : j \in Keys /\ \A k \in Requests : j # Deduction(k) /\ j # Refund(k)
    <2>1. RiskKeys \subseteq Keys
      BY CaseKeysApart, FreezeKeyFacts DEF RiskKeys
    <2>2. {"withdrawal-complete", "withdrawal-compensate-complete-reverse"} \subseteq LedgerSteps \cup LedgerUndos
      BY DEF LedgerSteps, LedgerUndos
    <2>3. QED BY <2>1, <2>2, KeyFacts DEF RiskKeys, Deduction, Refund
  <1>4. Elsewhere
    BY <1>2, <1>3, FreezesMoveNoBalance DEF RiskCall, Elsewhere
  <1>5. QED BY <1>1, <1>4, HandlerStays

LEMMA NextDeducts == IInv /\ IInv' /\ DeductInv /\ [Next]_vars => DeductInv'
  <1> SUFFICES ASSUME IInv, IInv', DeductInv, [Next]_vars PROVE DeductInv'
    OBVIOUS
  <1>1. ASSUME NEW x \in Callers, NEW k \in Requests, NEW o \in Submits, Submit(x, k, o) PROVE DeductInv'
    BY <1>1, SubmitDeducts
  <1>2. ASSUME NEW x \in Callers, NEW k \in Requests, NEW op \in Ops \ {"create"}, BeginHandling(x, k, op)
        PROVE  DeductInv'
    BY <1>2, BeginDeducts
  <1>3. ASSUME NEW x \in Callers, Handling(x) PROVE DeductInv'
    BY <1>3, InsertDeducts, UnfreezeDeducts, DeductDeducts, SaveDeducts, UndoDeducts, OtherwiseDeducts
       DEF Handling
  <1>4. ASSUME NEW x \in Callers, RiskStep(x) PROVE DeductInv'
    BY <1>4, RiskDeducts
  <1>5. CASE UNCHANGED vars
    BY <1>5 DEF vars, DeductInv, DeductionsExplained, Deducted, AmountsOf
  <1>6. QED BY <1>1, <1>2, <1>3, <1>4, <1>5 DEF Next

LEMMA InitDeducts == Init => DeductInv
  <1> SUFFICES ASSUME Init PROVE DeductInv
    OBVIOUS
  <1>1. DOMAIN request = {} /\ DOMAIN handlers = {}
    BY DEF Init
  <1>2. \A k \in Requests : Deduction(k) \notin DOMAIN journal
    BY DEF Init, CaseInit, Deduction, EarnedKey
  <1>3. \A a \in Agents : account[a].balance = Funds
    <2>1. \A a \in Agents : BalanceEffect(Earned(a)) = Funds
      BY DEF Earned, BalanceEffect
    <2>2. \A a \in Agents : account[a] = ApplyEntry(NewAccount, Earned(a))
      BY DEF Init, CaseInit
    <2>3. ASSUME NEW a \in Agents PROVE account[a].balance = Funds
      <3> DEFINE e == Earned(a)
      <3>1. BalanceEffect(e) = Funds /\ account[a] = ApplyEntry(NewAccount, e)
        BY <2>1, <2>2
      <3> HIDE DEF e
      <3>2. account[a].balance = NewAccount.balance + BalanceEffect(e)
        BY <3>1 DEF ApplyEntry
      <3>3. QED BY <3>1, <3>2, CaseAssumption DEF NewAccount
    <2>4. QED BY <2>3
  <1>4. \A a \in Agents : AmountsOf(request, Deducted(a)) = 0
    <2>1. \A a \in Agents : Deducted(a) = {}
      BY <1>1 DEF Deducted
    <2>2. QED BY <2>1, SumEmpty DEF AmountsOf
  <1>5. DeductionsExplained
    BY <1>3, <1>4, CaseAssumption DEF DeductionsExplained
  <1>6. IsFiniteSet(DOMAIN request)
    BY <1>1, FS_EmptySet
  <1>7. QED BY <1>1, <1>2, <1>5, <1>6 DEF DeductInv

\* The money of an agent is what was earned, less the requests whose deduction
\* stands, whatever fails, crashes, times out, is retried, resubmitted with another
\* amount or handled by several operators at once, and whatever cases there are.
\* (withdrawal/service.go:424-450, 462-489)
THEOREM DeductionsAreExplained == Spec => []DeductionsExplained
  <1>1. DeductInv => DeductionsExplained
    BY DEF DeductInv
  <1>2. QED BY <1>1, InitDeducts, NextDeducts, Invariance, PTL DEF Spec

-----------------------------------------------------------------------------
\* Reconciled is about sums over the rows of an agent: they are finitely many and
\* hold integers, whatever the number of agents.
BooksInv ==
    /\ \A k \in DOMAIN journal : journal[k].entry \in AskedEntry
    /\ \A a \in Agents : IsFiniteSet(RowsOf(a))
    /\ Reconciled

LEMMA AskedEffects ==
    ASSUME NEW e \in AskedEntry
    PROVE  BalanceEffect(e) \in Int /\ FrozenEffect(e) \in Int
  BY DEF AskedEntry, BalanceEffect, FrozenEffect

\* A posted entry adds to the sums of its agent what it adds to the account, and
\* to no other sum.
LEMMA CallReconciles ==
    ASSUME StoreOK, BooksInv, NEW k \in Keys, NEW e \in AskedEntry, Posted(k, e)
    PROVE  BooksInv'
  <1>1. e.agent \in Agents /\ BalanceEffect(e) \in Int /\ FrozenEffect(e) \in Int
    BY AskedEffects DEF AskedEntry
  <1>2. k \notin DOMAIN journal
    BY DEF Posted
  <1>3. /\ DOMAIN journal' = DOMAIN journal \cup {k}
        /\ \A j \in DOMAIN journal : journal'[j] = journal[j]
        /\ journal'[k].entry = e
        /\ account'[e.agent].frozen = account[e.agent].frozen + FrozenEffect(e)
        /\ account'[e.agent].balance = account[e.agent].balance + BalanceEffect(e)
        /\ \A a \in Agents \ {e.agent} : account'[a] = account[a]
    BY <1>1, PostedMoves
  <1>4. DOMAIN account = Agents /\ DOMAIN account' = Agents
    BY <1>1 DEF StoreOK, Posted, Put
  <1>5. \A a : RowsOf(a)' = IF a = e.agent THEN RowsOf(a) \cup {k} ELSE RowsOf(a)
    BY <1>2, <1>3 DEF RowsOf
  <1>6. /\ \A j \in DOMAIN journal : /\ BalanceMoves[j] \in Int /\ BalanceMoves'[j] = BalanceMoves[j]
                                     /\ FrozenMoves[j] \in Int /\ FrozenMoves'[j] = FrozenMoves[j]
        /\ BalanceMoves'[k] = BalanceEffect(e) /\ FrozenMoves'[k] = FrozenEffect(e)
    BY <1>3, AskedEffects DEF BalanceMoves, FrozenMoves, BooksInv
  <1>7. \A a \in Agents : /\ RowsOf(a) \subseteq DOMAIN journal /\ IsFiniteSet(RowsOf(a))
                          /\ k \notin RowsOf(a)
    BY <1>2 DEF BooksInv, RowsOf
  <1>8. ASSUME NEW a \in Agents, NEW f, NEW g, \A j \in DOMAIN journal : f[j] \in Int /\ g[j] = f[j],
               g[k] \in Int
        PROVE  /\ SumFunctionOnSet(g, RowsOf(a)) = SumFunctionOnSet(f, RowsOf(a))
               /\ SumFunctionOnSet(g, RowsOf(a) \cup {k}) = SumFunctionOnSet(f, RowsOf(a)) + g[k]
    <2>1. \A j \in RowsOf(a) \cup {k} : g[j] \in Int
      BY <1>7, <1>8
    <2>2. SumFunctionOnSet(g, RowsOf(a)) = SumFunctionOnSet(f, RowsOf(a))
      BY <1>7, <1>8, SumSame
    <2>3. SumFunctionOnSet(g, RowsOf(a) \cup {k}) = SumFunctionOnSet(g, RowsOf(a)) + g[k]
      BY <1>7, <2>1, SumPutIn
    <2>4. QED BY <2>2, <2>3
  <1>9. ASSUME NEW a \in Agents
        PROVE  /\ account'[a].balance = SumFunctionOnSet(BalanceMoves', RowsOf(a)')
               /\ account'[a].frozen = SumFunctionOnSet(FrozenMoves', RowsOf(a)')
    <2>1. /\ account[a].balance = SumFunctionOnSet(BalanceMoves, RowsOf(a))
          /\ account[a].frozen = SumFunctionOnSet(FrozenMoves, RowsOf(a))
      BY <1>4 DEF BooksInv, Reconciled
    <2>2. CASE a = e.agent
      <3>1. /\ SumFunctionOnSet(BalanceMoves', RowsOf(a) \cup {k})
                 = SumFunctionOnSet(BalanceMoves, RowsOf(a)) + BalanceEffect(e)
            /\ SumFunctionOnSet(FrozenMoves', RowsOf(a) \cup {k})
                 = SumFunctionOnSet(FrozenMoves, RowsOf(a)) + FrozenEffect(e)
        <4>1. SumFunctionOnSet(BalanceMoves', RowsOf(a) \cup {k})
                 = SumFunctionOnSet(BalanceMoves, RowsOf(a)) + BalanceMoves'[k]
          BY <1>1, <1>6, <1>8
        <4>2. SumFunctionOnSet(FrozenMoves', RowsOf(a) \cup {k})
                 = SumFunctionOnSet(FrozenMoves, RowsOf(a)) + FrozenMoves'[k]
          BY <1>1, <1>6, <1>8
        <4>3. QED BY <1>6, <4>1, <4>2, Zenon
      <3>2. RowsOf(a)' = RowsOf(a) \cup {k}
        BY <1>5, <2>2
      <3>3. /\ account'[a].balance = account[a].balance + BalanceEffect(e)
            /\ account'[a].frozen = account[a].frozen + FrozenEffect(e)
        BY <1>3, <2>2
      <3>4. QED BY <2>1, <3>1, <3>2, <3>3, Zenon
    <2>3. CASE a # e.agent
      <3>1. /\ SumFunctionOnSet(BalanceMoves', RowsOf(a)) = SumFunctionOnSet(BalanceMoves, RowsOf(a))
            /\ SumFunctionOnSet(FrozenMoves', RowsOf(a)) = SumFunctionOnSet(FrozenMoves, RowsOf(a))
        BY <1>1, <1>6, <1>8
      <3>2. account'[a] = account[a] /\ RowsOf(a)' = RowsOf(a)
        BY <1>3, <1>5, <2>3
      <3>3. QED BY <2>1, <3>1, <3>2, Zenon
    <2>4. QED BY <2>2, <2>3
  <1>10. Reconciled'
    BY <1>4, <1>9 DEF Reconciled
  <1>11. \A a \in Agents : IsFiniteSet(RowsOf(a)')
    BY <1>5, <1>7, FS_AddElement
  <1>12. \A j \in DOMAIN journal' : journal'[j].entry \in AskedEntry
    BY <1>3 DEF BooksInv
  <1>13. QED BY <1>10, <1>11, <1>12 DEF BooksInv

LEMMA StepReconciles ==
    ASSUME StoreOK, BooksInv, OneCallOrNone
    PROVE  BooksInv'
  <1>1. CASE OneCall
    BY <1>1, CallReconciles DEF OneCall
  <1>2. CASE UNCHANGED storeVars
    BY <1>2 DEF storeVars, BooksInv, Reconciled, RowsOf, BalanceMoves, FrozenMoves
  <1>3. QED BY <1>1, <1>2 DEF OneCallOrNone

\* At the start an agent has one row, of what it earned.
LEMMA EarningsReconcile == CaseInit => BooksInv
  <1> SUFFICES ASSUME CaseInit PROVE BooksInv
    OBVIOUS
  <1>1. ASSUME NEW a \in Agents
        PROVE  /\ EarnedKey(a) \in DOMAIN journal /\ journal[EarnedKey(a)].entry = Earned(a)
               /\ Earned(a) \in AskedEntry
               /\ BalanceEffect(Earned(a)) = Funds /\ FrozenEffect(Earned(a)) = 0
               /\ account[a].balance = Funds /\ account[a].frozen = 0
    <2>1. EarnedKey(a)[2] = a
      BY DEF EarnedKey
    <2>2. EarnedKey(a) \in DOMAIN journal /\ journal[EarnedKey(a)] = JournalRow(NewAccount, Earned(a))
      BY <2>1 DEF CaseInit
    <2>3. journal[EarnedKey(a)].entry = Earned(a)
      BY <2>2 DEF JournalRow
    <2>4. Earned(a) \in AskedEntry
      BY CaseAssumption DEF Earned, AskedEntry, LedgerTypes, RefTypes
    <2>5. BalanceEffect(Earned(a)) = Funds /\ FrozenEffect(Earned(a)) = 0
      BY DEF Earned, BalanceEffect, FrozenEffect
    <2>6. account[a] = ApplyEntry(NewAccount, Earned(a))
      BY DEF CaseInit
    <2>7. account[a].balance = Funds /\ account[a].frozen = 0
      BY <2>5, <2>6, CaseAssumption DEF ApplyEntry, NewAccount
    <2>8. QED BY <2>2, <2>3, <2>4, <2>5, <2>7
  <1>2. DOMAIN journal = {EarnedKey(a) : a \in Agents} /\ DOMAIN account = Agents
    BY DEF CaseInit
  <1>3. \A a \in Agents : RowsOf(a) = {EarnedKey(a)}
    <2>1. \A a \in Agents : Earned(a).agent = a
      BY DEF Earned
    <2>2. QED BY <1>1, <1>2, <2>1 DEF RowsOf
  <1>4. ASSUME NEW f, NEW j, f[j] \in Int PROVE SumFunctionOnSet(f, {j}) = f[j]
    <2>1. SumFunctionOnSet(f, {} \cup {j}) = SumFunctionOnSet(f, {}) + f[j]
      BY <1>4, FS_EmptySet, SumPutIn
    <2>2. {} \cup {j} = {j}
      OBVIOUS
    <2>3. SumFunctionOnSet(f, {j}) = SumFunctionOnSet(f, {}) + f[j]
      BY <2>1, <2>2
    <2>4. QED BY <1>4, <2>3, SumEmpty
  <1>5. \A a \in Agents : /\ BalanceMoves[EarnedKey(a)] = Funds /\ FrozenMoves[EarnedKey(a)] = 0
                          /\ Funds \in Int
    BY <1>1, CaseAssumption DEF BalanceMoves, FrozenMoves
  <1>6. Reconciled
    <2> SUFFICES ASSUME NEW a \in Agents
                 PROVE  /\ account[a].balance = SumFunctionOnSet(BalanceMoves, {EarnedKey(a)})
                        /\ account[a].frozen = SumFunctionOnSet(FrozenMoves, {EarnedKey(a)})
      BY <1>2, <1>3 DEF Reconciled
    <2>1. /\ SumFunctionOnSet(BalanceMoves, {EarnedKey(a)}) = Funds
          /\ SumFunctionOnSet(FrozenMoves, {EarnedKey(a)}) = 0
      BY <1>4, <1>5
    <2>2. QED BY <1>1, <2>1
  <1>7. \A a \in Agents : IsFiniteSet(RowsOf(a))
    BY <1>3, FS_Singleton
  <1>8. \A k \in DOMAIN journal : journal[k].entry \in AskedEntry
    BY <1>1, <1>2
  <1>9. QED BY <1>6, <1>7, <1>8 DEF BooksInv

\* The journal explains the accounts under the risk service alone, whatever
\* fails, crashes or times out.  (risk/service.go:152-214, 600-613)
THEOREM CasesReconcile == CaseSpec => []Reconciled
  <1>1. CaseInit => BooksInv
    BY EarningsReconcile
  <1>2. CaseInv /\ BooksInv /\ [CaseNext]_riskVars => BooksInv'
    <2> SUFFICES ASSUME CaseInv, BooksInv, [CaseNext]_riskVars PROVE BooksInv'
      OBVIOUS
    <2>1. OneCallOrNone
      <3>1. CASE CaseNext
        BY <3>1, RiskOneCall DEF CaseNext
      <3>2. CASE UNCHANGED riskVars
        BY <3>2 DEF riskVars, storeVars, OneCallOrNone
      <3>3. QED BY <3>1, <3>2
    <2>2. QED BY <2>1, StepReconciles DEF CaseInv
  <1>3. BooksInv => Reconciled
    BY DEF BooksInv
  <1>4. QED BY <1>1, <1>2, <1>3, CaseInvariance, PTL DEF CaseSpec

\* The journal explains the accounts under withdrawals and cases together: every
\* balance and frozen part is what the agent's rows add up to, whatever fails, is
\* retried, times out or runs at the same time.
\* (withdrawal/service.go:190-216, 302-327, 400-489, risk/service.go:152-214, 600-613)
THEOREM PayoutsReconcile == Spec => []Reconciled
  <1>1. Init => BooksInv
    BY EarningsReconcile DEF Init
  <1>2. IInv /\ BooksInv /\ [Next]_vars => BooksInv'
    BY StepIsOneCall, StepReconciles DEF IInv, CaseInv
  <1>3. BooksInv => Reconciled
    BY DEF BooksInv
  <1>4. QED BY <1>1, <1>2, <1>3, Invariance, PTL DEF Spec
=============================================================================
