------------------------ MODULE CreditFacilityProofs ------------------------
(***************************************************************************)
(* Proofs about CreditFacility, for every set of banks, keys, amounts and  *)
(* handlers, every policy and every number of faults.                      *)
(*                                                                         *)
(* The invariant is inductive as one formula: AtMostOneExecution alone is  *)
(* not, because it says nothing of a call that is still on its way to the  *)
(* provider; CallsMatchRows ties every such call to a PENDING row that     *)
(* nobody else works on and that the provider has not executed.            *)
(*                                                                         *)
(* ExposureWithinLimit compares two histories of the book: it follows from *)
(* an exact account of their difference, the operations that the provider  *)
(* has executed and the service has not posted (PendingIsTheDifference).   *)
(***************************************************************************)
EXTENDS CreditFacility, TLAPS

IInv ==
    /\ TypeOK
    /\ CallsMatchRows
    /\ AtMostOneExecution
    /\ PostedIsExecuted
    /\ AuditMatchesBook
    /\ BookWithinLimit

\* A row id names an operation and a bank.
LEMMA IdParts == ASSUME NEW id \in Ids
                 PROVE  OpOf(id) \in Ops /\ BankOf(id) \in Banks
  BY DEF Ids, OpOf, BankOf

\* A handler that is not idle works on a row.
LEMMA BusyHasRow ==
    ASSUME TypeOK, CallsMatchRows, NEW h \in Handlers, pc[h] # "idle"
    PROVE  work[h] \in Ids
  BY DEF TypeOK, CallsMatchRows

\* The empty service is in a good state.
LEMMA InitInv == Init => IInv
<1> SUFFICES ASSUME Init PROVE IInv
    OBVIOUS
<1> USE ConstantsAssumption
<1>1. TypeOK
    BY DEF Init, TypeOK, Terminal
<1>2. CallsMatchRows
    BY DEF Init, CallsMatchRows, Prior
<1>3. AtMostOneExecution /\ PostedIsExecuted /\ AuditMatchesBook
    BY DEF Init, AtMostOneExecution, PostedIsExecuted, AuditMatchesBook
<1>4. BookWithinLimit
  <2> SUFFICES ASSUME NEW b \in Banks
               PROVE  drawn[b] - repaid[b] <= NonNegative(Cap[b] - Buffer[b])
      BY DEF BookWithinLimit, Outstanding
  <2>1. drawn[b] = 0 /\ repaid[b] = 0 /\ Cap[b] \in Int /\ Buffer[b] \in Int
      BY DEF Init
  <2> QED BY <2>1 DEF NonNegative
<1> QED BY <1>1, <1>2, <1>3, <1>4 DEF IInv

-----------------------------------------------------------------------------
(* One lemma per action.                                                   *)

LEMMA ReplayInv ==
    ASSUME IInv, NEW id \in Ids, Replay(id) PROVE IInv'
<1> USE DEF IInv, Replay, Tell, db, process, provider
<1>1. TypeOK'
    BY DEF TypeOK, Terminal, Outcomes
<1>2. CallsMatchRows'
    BY DEF CallsMatchRows, Prior
<1>3. AtMostOneExecution' /\ BookWithinLimit'
    BY DEF AtMostOneExecution, BookWithinLimit, Outstanding
<1>4. PostedIsExecuted'
    BY DEF PostedIsExecuted, TypeOK
<1>5. AuditMatchesBook'
    BY DEF AuditMatchesBook, TypeOK
<1> QED BY <1>1, <1>2, <1>3, <1>4, <1>5

LEMMA BeginInv ==
    ASSUME IInv, NEW h \in Handlers, NEW id \in Ids, NEW a \in Amounts, Begin(h, id, a)
    PROVE  IInv'
<1> USE ConstantsAssumption DEF IInv, Begin, provider
<1>0. OpOf(id) \in Ops /\ BankOf(id) \in Banks /\ a \in Nat /\ a > 0
    BY IdParts
<1>1. TypeOK'
    BY <1>0 DEF TypeOK, Insert
<1>2. status[id] = "NONE" /\ executed[id] = 0 /\ audited[id] = {} /\ told[id] \cap Outcomes = {}
    BY DEF Prior, CallsMatchRows, AuditMatchesBook, TypeOK, Terminal, Outcomes
<1>3. /\ id \notin orphans
      /\ \A g \in Handlers : work[g] # id
    BY <1>2 DEF CallsMatchRows, Terminal, TypeOK
<1>4. /\ status' = [status EXCEPT ![id] = "PENDING"]
      /\ amount' = [amount EXCEPT ![id] = a]
    BY DEF Insert
<1>5. CallsMatchRows'
    BY <1>2, <1>3, <1>4 DEF CallsMatchRows, TypeOK, Prior, Terminal
<1>6. AtMostOneExecution' /\ PostedIsExecuted' /\ AuditMatchesBook'
    BY <1>2, <1>4 DEF AtMostOneExecution, PostedIsExecuted, AuditMatchesBook, TypeOK, Outcomes
<1>7. BookWithinLimit'
  <2> SUFFICES ASSUME NEW b \in Banks
               PROVE  drawn'[b] - repaid'[b] <= NonNegative(Cap[b] - Buffer[b])
      BY DEF BookWithinLimit, Outstanding
  <2>1. drawn[b] - repaid[b] <= NonNegative(Cap[b] - Buffer[b])
      BY DEF BookWithinLimit, Outstanding
  <2>2. CASE OpOf(id) = "draw"
    <3>1. /\ drawn' = [drawn EXCEPT ![BankOf(id)] = @ + a]
          /\ repaid' = repaid
          /\ a <= NonNegative(Cap[BankOf(id)] - (drawn[BankOf(id)] - repaid[BankOf(id)])
                              - Buffer[BankOf(id)])
        BY <2>2 DEF Insert, Admissible, Capacity, Outstanding
    <3> QED BY <1>0, <2>1, <3>1 DEF NonNegative, TypeOK
  <2>3. CASE OpOf(id) # "draw"
    <3>1. drawn' = drawn /\ repaid' = [repaid EXCEPT ![BankOf(id)] = @ + a]
        BY <2>3 DEF Insert
    <3> QED BY <1>0, <2>1, <3>1 DEF NonNegative, TypeOK
  <2> QED BY <2>2, <2>3
<1> QED BY <1>1, <1>5, <1>6, <1>7

\* Both commits decide a PENDING row; POSTED needs the money to have moved.
LEMMA SettleInv ==
    ASSUME IInv, NEW h \in Handlers, NEW s \in Terminal,
           pc[h] = "call", wire[h] # "sent", loop = Free,
           s = "POSTED" => wire[h] = "ok",
           Settle(h, s)
    PROVE  IInv'
<1> USE DEF IInv, Settle, provider
<1>0. work[h] \in Ids
    BY BusyHasRow
<1>1. TypeOK'
    BY <1>0 DEF TypeOK
<1>2. /\ status[work[h]] = "PENDING"
      /\ s = "POSTED" => executed[work[h]] = 1
      /\ audited[work[h]] = {}
      /\ told[work[h]] \cap Outcomes = {}
    BY <1>0 DEF CallsMatchRows, AuditMatchesBook, TypeOK, Terminal, Outcomes
<1>3. \A g \in Handlers : pc[g] # "audit" /\ (work[g] = work[h] => g = h)
    BY <1>0, ConstantsAssumption DEF CallsMatchRows
<1>4. CallsMatchRows'
    BY <1>0, <1>1, <1>2, <1>3 DEF CallsMatchRows, TypeOK, Prior, Terminal
<1>5. AtMostOneExecution' /\ PostedIsExecuted' /\ AuditMatchesBook'
    BY <1>0, <1>2 DEF AtMostOneExecution, PostedIsExecuted, AuditMatchesBook, TypeOK, Outcomes
<1>6. BookWithinLimit'
    BY DEF BookWithinLimit, Outstanding
<1> QED BY <1>1, <1>4, <1>5, <1>6

\* A handler that finishes without touching the book, the journal or the
\* provider leaves every conjunct as it was.
LEMMA FinishInv ==
    ASSUME IInv, NEW h \in Handlers, pc[h] # "idle", wire[h] # "sent", loop \in {Free, h},
           faults' \in 0 .. MaxFaults, Finish(h), UNCHANGED <<db, audited, provider, told>>
    PROVE  IInv'
<1> USE DEF IInv, Finish, db, provider
<1>1. TypeOK'
    BY DEF TypeOK
<1>2. CallsMatchRows'
    BY ConstantsAssumption DEF CallsMatchRows, TypeOK, Prior
<1>3. AtMostOneExecution' /\ PostedIsExecuted' /\ AuditMatchesBook' /\ BookWithinLimit'
    BY DEF AtMostOneExecution, PostedIsExecuted, AuditMatchesBook, BookWithinLimit, Outstanding
<1> QED BY <1>1, <1>2, <1>3

LEMMA AuditInv ==
    ASSUME IInv, NEW h \in Handlers, Audit(h) PROVE IInv'
<1> USE DEF IInv, Audit, Finish, Tell, db, provider
<1>0. work[h] \in Ids /\ status[work[h]] \in Terminal /\ loop = h
    BY BusyHasRow DEF CallsMatchRows
<1>1. TypeOK'
    BY <1>0 DEF TypeOK, Terminal, Outcomes
<1>2. CallsMatchRows'
    BY <1>0, ConstantsAssumption DEF CallsMatchRows, TypeOK, Prior
<1>3. AtMostOneExecution' /\ BookWithinLimit'
    BY DEF AtMostOneExecution, BookWithinLimit, Outstanding
<1>4. PostedIsExecuted'
    BY <1>0 DEF PostedIsExecuted, TypeOK
<1>5. AuditMatchesBook'
    BY <1>0 DEF AuditMatchesBook, TypeOK, Terminal
<1> QED BY <1>1, <1>2, <1>3, <1>4, <1>5

LEMMA CrashInv ==
    ASSUME IInv, Crash PROVE IInv'
<1> USE DEF IInv, Crash, db, provider
<1>0. \A h \in Handlers : wire[h] = "sent" =>
          /\ work[h] \in Ids
          /\ status[work[h]] = "PENDING" /\ executed[work[h]] = 0
    BY BusyHasRow DEF CallsMatchRows, TypeOK
<1>1. TypeOK'
    BY <1>0, ConstantsAssumption DEF TypeOK
<1>2. CallsMatchRows'
    BY <1>0, ConstantsAssumption DEF CallsMatchRows, TypeOK, Prior
<1>3. AtMostOneExecution' /\ PostedIsExecuted' /\ AuditMatchesBook' /\ BookWithinLimit'
    BY DEF AtMostOneExecution, PostedIsExecuted, AuditMatchesBook, BookWithinLimit, Outstanding
<1> QED BY <1>1, <1>2, <1>3

\* The provider moves the money of a PENDING row that it has not executed.
LEMMA ExecuteInv ==
    ASSUME IInv, NEW id \in Ids, status[id] = "PENDING", executed[id] = 0, Execute(id),
           TypeOK', CallsMatchRows', UNCHANGED <<db, audited, told>>
    PROVE  IInv'
<1> USE DEF IInv, Execute, db
<1>1. AtMostOneExecution'
    BY DEF AtMostOneExecution, TypeOK
<1>2. PostedIsExecuted'
    BY DEF PostedIsExecuted, TypeOK
<1>3. AuditMatchesBook' /\ BookWithinLimit'
    BY DEF AuditMatchesBook, BookWithinLimit, Outstanding
<1> QED BY <1>1, <1>2, <1>3

\* A row's money is an integer.
LEMMA SignedInt == ASSUME TypeOK, NEW id \in Ids PROVE Signed(id) \in Int
<1>1. amount[id] \in Amounts \cup {0}
    BY DEF TypeOK
<1>2. \A a \in Amounts \cup {0} : a \in Int
    BY ConstantsAssumption DEF ConstantsAssumption
<1> QED BY <1>1, <1>2 DEF Signed

LEMMA ProviderExecutesInv ==
    ASSUME IInv, NEW h \in Handlers, ProviderExecutes(h) PROVE IInv'
<1> USE DEF IInv, ProviderExecutes, Execute, db
<1>0. /\ work[h] \in Ids /\ status[work[h]] = "PENDING" /\ executed[work[h]] = 0
      /\ pc[h] = "call" /\ work[h] \notin orphans
    BY BusyHasRow DEF CallsMatchRows, TypeOK
<1>1. TypeOK'
    BY <1>0, SignedInt, IdParts DEF TypeOK
<1>2. CallsMatchRows'
    BY <1>0 DEF CallsMatchRows, TypeOK, Prior
<1> QED BY <1>0, <1>1, <1>2, ExecuteInv

LEMMA ProviderRefusesInv ==
    ASSUME IInv, NEW h \in Handlers, ProviderRefuses(h) PROVE IInv'
<1> USE DEF IInv, ProviderRefuses, db, provider
<1>1. TypeOK'
    BY DEF TypeOK
<1>2. CallsMatchRows'
    BY DEF CallsMatchRows, TypeOK, Prior
<1>3. AtMostOneExecution' /\ PostedIsExecuted' /\ AuditMatchesBook' /\ BookWithinLimit'
    BY DEF AtMostOneExecution, PostedIsExecuted, AuditMatchesBook, BookWithinLimit, Outstanding
<1> QED BY <1>1, <1>2, <1>3

LEMMA OrphanExecutesInv ==
    ASSUME IInv, NEW id \in Ids, OrphanExecutes(id) PROVE IInv'
<1> USE DEF IInv, OrphanExecutes, Execute, db, process
<1>0. status[id] = "PENDING" /\ executed[id] = 0 /\ \A h \in Handlers : work[h] # id
    BY DEF CallsMatchRows
<1>1. TypeOK'
    BY SignedInt, IdParts DEF TypeOK
<1>2. CallsMatchRows'
    BY <1>0 DEF CallsMatchRows, TypeOK, Prior
<1> QED BY <1>0, <1>1, <1>2, ExecuteInv

LEMMA OrphanLostInv ==
    ASSUME IInv, NEW id \in Ids, OrphanLost(id) PROVE IInv'
<1> USE DEF IInv, OrphanLost, db, process
<1>1. TypeOK'
    BY DEF TypeOK
<1>2. CallsMatchRows'
    BY DEF CallsMatchRows, Prior
<1>3. AtMostOneExecution' /\ PostedIsExecuted' /\ AuditMatchesBook' /\ BookWithinLimit'
    BY DEF AtMostOneExecution, PostedIsExecuted, AuditMatchesBook, BookWithinLimit, Outstanding
<1> QED BY <1>1, <1>2, <1>3

-----------------------------------------------------------------------------
LEMMA StepInv == IInv /\ [Next]_vars => IInv'
<1> SUFFICES ASSUME IInv, [Next]_vars PROVE IInv'
    OBVIOUS
<1>1. ASSUME NEW id \in Ids, Replay(id) PROVE IInv'
    BY <1>1, ReplayInv
<1>2. ASSUME NEW id \in Ids, OrphanExecutes(id) PROVE IInv'
    BY <1>2, OrphanExecutesInv
<1>3. ASSUME NEW id \in Ids, OrphanLost(id) PROVE IInv'
    BY <1>3, OrphanLostInv
<1>4. ASSUME NEW h \in Handlers, NEW id \in Ids, NEW a \in Amounts, Begin(h, id, a) PROVE IInv'
    BY <1>4, BeginInv
<1>5. ASSUME NEW h \in Handlers, CommitPosted(h) PROVE IInv'
    BY <1>5, SettleInv DEF CommitPosted, Terminal
<1>6. ASSUME NEW h \in Handlers, CommitFailed(h) PROVE IInv'
    BY <1>6, SettleInv DEF CommitFailed, Terminal
<1>7. ASSUME NEW h \in Handlers, Audit(h) PROVE IInv'
    BY <1>7, AuditInv
<1>8. ASSUME NEW h \in Handlers, CommitRaises(h) PROVE IInv'
    BY <1>8, FinishInv, ConstantsAssumption DEF CommitRaises, IInv, TypeOK
<1>9. ASSUME NEW h \in Handlers, AuditRaises(h) PROVE IInv'
    BY <1>9, FinishInv, ConstantsAssumption DEF AuditRaises, IInv, TypeOK, CallsMatchRows
<1>10. ASSUME NEW h \in Handlers, ProviderExecutes(h) PROVE IInv'
    BY <1>10, ProviderExecutesInv
<1>11. ASSUME NEW h \in Handlers, ProviderRefuses(h) PROVE IInv'
    BY <1>11, ProviderRefusesInv
<1>12. CASE Crash
    BY <1>12, CrashInv
<1>13. CASE UNCHANGED vars
    BY <1>13 DEF vars, db, process, provider, IInv, TypeOK, CallsMatchRows, AtMostOneExecution,
                 PostedIsExecuted, AuditMatchesBook, BookWithinLimit, Prior, Outstanding
<1> QED BY <1>1, <1>2, <1>3, <1>4, <1>5, <1>6, <1>7, <1>8, <1>9, <1>10, <1>11, <1>12, <1>13
        DEF Next, Resume, ProviderAnswers

-----------------------------------------------------------------------------
(* What a bank owes at the provider.  The book and the provider each keep  *)
(* a running sum; what lies between them is the money of the rows that the *)
(* provider has not executed.  A sum over a set of rows is characterised,  *)
(* not computed: n is the sum of f over S when every relation that holds   *)
(* of nothing and 0, and with any T and m of T with one more row and m     *)
(* with its value, holds of S and n.  No recursion is needed, and the      *)
(* lemmas follow by choosing the relation.                                 *)

Sums == (SUBSET Ids) \X Int

AddsUp(R, f) ==
    /\ <<{}, 0>> \in R
    /\ \A T \in SUBSET Ids, m \in Int, x \in Ids :
          <<T, m>> \in R /\ x \notin T => <<T \cup {x}, m + f[x]>> \in R

IsSum(f, S, n) == \A R \in SUBSET Sums : AddsUp(R, f) => <<S, n>> \in R

\* The money of a row that the provider has not executed; a repayment counts
\* against what is owed.
Pending == [id \in Ids |-> IF executed[id] = 0 THEN Signed(id) ELSE 0]

Rows(b) == {id \in Ids : BankOf(id) = b /\ Prior(id)}

\* What the book says of a bank and what it owes at the provider differ by the
\* money that is pending.
PendingIsTheDifference ==
    \A b \in Banks : IsSum(Pending, Rows(b), Outstanding(b) - exposure[b])

LEMMA SumEmpty == ASSUME NEW f PROVE IsSum(f, {}, 0)
  BY DEF IsSum, AddsUp

\* A sum is reached by adding one row after the other.
LEMMA SumAdd ==
    ASSUME NEW f, NEW S \in SUBSET Ids, NEW n \in Int, IsSum(f, S, n), NEW x \in Ids, x \notin S
    PROVE  IsSum(f, S \cup {x}, n + f[x])
  BY DEF IsSum, AddsUp

\* Functions that agree on S have the same sum over S.
LEMMA SumAgree ==
    ASSUME NEW f \in [Ids -> Int], NEW g \in [Ids -> Int], NEW S \in SUBSET Ids, NEW n \in Int,
           IsSum(f, S, n), \A x \in S : g[x] = f[x]
    PROVE  IsSum(g, S, n)
<1> DEFINE R == {p \in Sums : p[1] \subseteq S => IsSum(g, p[1], p[2])}
<1>1. <<{}, 0>> \in R
    BY SumEmpty DEF Sums
<1>2. ASSUME NEW T \in SUBSET Ids, NEW m \in Int, NEW x \in Ids, <<T, m>> \in R, x \notin T
      PROVE  <<T \cup {x}, m + f[x]>> \in R
  <2>1. <<T \cup {x}, m + f[x]>> \in Sums
      BY DEF Sums
  <2>2. ASSUME T \cup {x} \subseteq S PROVE IsSum(g, T \cup {x}, m + f[x])
    <3>1. IsSum(g, T, m) /\ g[x] = f[x]
        BY <1>2, <2>2
    <3> QED BY <1>2, <3>1, SumAdd
  <2> QED BY <2>1, <2>2
<1>3. AddsUp(R, f)
    BY <1>1, <1>2 DEF AddsUp
<1>4. R \in SUBSET Sums
    OBVIOUS
<1>5. <<S, n>> \in R
    BY <1>3, <1>4 DEF IsSum
<1> QED BY <1>5

\* When one value changes, so does the sum.
LEMMA SumChange ==
    ASSUME NEW f \in [Ids -> Int], NEW S \in SUBSET Ids, NEW n \in Int, IsSum(f, S, n),
           NEW x \in S, NEW g \in [Ids -> Int], \A y \in Ids : y # x => g[y] = f[y]
    PROVE  IsSum(g, S, n - f[x] + g[x])
<1> DEFINE Moved(T, m) == IF x \in T THEN m - f[x] + g[x] ELSE m
           R == {p \in Sums : IsSum(g, p[1], Moved(p[1], p[2]))}
<1>1. <<{}, 0>> \in R
  <2>1. <<{}, 0>> \in Sums
      BY DEF Sums
  <2>2. IsSum(g, {}, Moved({}, 0))
    <3>1. Moved({}, 0) = 0
        OBVIOUS
    <3>2. IsSum(g, {}, 0)
        BY SumEmpty
    <3> HIDE DEF Moved
    <3> QED BY <3>1, <3>2
  <2> HIDE DEF Moved
  <2> QED BY <2>1, <2>2
<1>2. ASSUME NEW T \in SUBSET Ids, NEW m \in Int, NEW y \in Ids, <<T, m>> \in R, y \notin T
      PROVE  <<T \cup {y}, m + f[y]>> \in R
  <2>1. <<T \cup {y}, m + f[y]>> \in Sums
      BY DEF Sums
  <2>2. IsSum(g, T, Moved(T, m)) /\ Moved(T, m) \in Int
      BY <1>2
  <2>3. IsSum(g, T \cup {y}, Moved(T, m) + g[y])
      BY <1>2, <2>2, SumAdd
  <2>4. Moved(T \cup {y}, m + f[y]) = Moved(T, m) + g[y]
      BY <1>2
  <2> QED BY <2>1, <2>3, <2>4
<1>3. AddsUp(R, f)
    BY <1>1, <1>2 DEF AddsUp
<1>4. R \in SUBSET Sums
    OBVIOUS
<1>5. <<S, n>> \in R
    BY <1>3, <1>4 DEF IsSum
<1> QED BY <1>5

\* A sum of natural numbers is one.
LEMMA SumNatural ==
    ASSUME NEW f \in [Ids -> Int], NEW S \in SUBSET Ids, NEW n \in Int,
           IsSum(f, S, n), \A x \in S : f[x] >= 0
    PROVE  n >= 0
<1> DEFINE R == {p \in Sums : p[1] \subseteq S => p[2] >= 0}
<1>1. <<{}, 0>> \in R
    BY DEF Sums
<1>2. ASSUME NEW T \in SUBSET Ids, NEW m \in Int, NEW x \in Ids, <<T, m>> \in R, x \notin T
      PROVE  <<T \cup {x}, m + f[x]>> \in R
  <2>1. <<T \cup {x}, m + f[x]>> \in Sums
      BY DEF Sums
  <2>2. T \cup {x} \subseteq S => m >= 0 /\ f[x] >= 0
      BY <1>2
  <2> QED BY <2>1, <2>2
<1>3. AddsUp(R, f)
    BY <1>1, <1>2 DEF AddsUp
<1>4. R \in SUBSET Sums
    OBVIOUS
<1>5. <<S, n>> \in R
    BY <1>3, <1>4 DEF IsSum
<1> QED BY <1>5

LEMMA PendingType == ASSUME TypeOK PROVE Pending \in [Ids -> Int]
  BY SignedInt DEF Pending

LEMMA NextPendingType == ASSUME TypeOK' PROVE Pending' \in [Ids -> Int]
<1>1. \A id \in Ids : amount'[id] \in Int
  <2>1. \A id \in Ids : amount'[id] \in Amounts \cup {0}
      BY DEF TypeOK
  <2>2. \A a \in Amounts \cup {0} : a \in Int
      BY ConstantsAssumption
  <2> QED BY <2>1, <2>2
<1>2. \A id \in Ids : Signed(id)' \in Int
    BY <1>1 DEF Signed
<1> QED BY <1>2 DEF Pending

LEMMA DifferenceType ==
    ASSUME TypeOK, NEW b \in Banks PROVE Outstanding(b) \in Int /\ Outstanding(b) - exposure[b] \in Int
  BY DEF TypeOK, Outstanding

LEMMA PendingInit == Init => PendingIsTheDifference
<1> SUFFICES ASSUME Init, NEW b \in Banks
             PROVE  IsSum(Pending, Rows(b), Outstanding(b) - exposure[b])
    BY DEF PendingIsTheDifference
<1>1. Rows(b) = {}
    BY DEF Init, Rows, Prior
<1>2. Outstanding(b) - exposure[b] = 0
    BY DEF Init, Outstanding
<1> QED BY <1>1, <1>2, SumEmpty

\* A step that brings no row and moves no money.
LEMMA PendingKeeps ==
    ASSUME PendingIsTheDifference, UNCHANGED <<amount, drawn, repaid, executed, exposure>>,
           \A id \in Ids : Prior(id)' <=> Prior(id)
    PROVE  PendingIsTheDifference'
<1>1. Pending' = Pending
    BY DEF Pending, Signed
<1>2. \A b \in Banks : Rows(b)' = Rows(b) /\ (Outstanding(b) - exposure[b])' = Outstanding(b) - exposure[b]
    BY DEF Rows, Outstanding
<1> QED BY <1>1, <1>2 DEF PendingIsTheDifference

\* A new row is pending with its whole amount, on both sides of the difference.
LEMMA BeginPending ==
    ASSUME IInv, IInv', PendingIsTheDifference,
           NEW h \in Handlers, NEW id \in Ids, NEW a \in Amounts, Begin(h, id, a)
    PROVE  PendingIsTheDifference'
<1> USE DEF IInv
<1>1. /\ ~Prior(id) /\ executed[id] = 0 /\ BankOf(id) \in Banks /\ a \in Int
      /\ UNCHANGED <<executed, exposure>>
    BY IdParts, ConstantsAssumption DEF Begin, CallsMatchRows, provider
<1>2. status' = [status EXCEPT ![id] = "PENDING"] /\ amount' = [amount EXCEPT ![id] = a]
    BY DEF Begin, Insert
<1>3. Pending \in [Ids -> Int] /\ Pending' \in [Ids -> Int]
    BY PendingType, NextPendingType
<1>4. /\ \A x \in Ids : x # id => Pending'[x] = Pending[x]
      /\ Pending'[id] = IF OpOf(id) = "draw" THEN a ELSE -a
    BY <1>1, <1>2 DEF Pending, Signed, TypeOK
<1> SUFFICES ASSUME NEW b \in Banks
             PROVE  IsSum(Pending, Rows(b), Outstanding(b) - exposure[b])'
    BY DEF PendingIsTheDifference
<1> DEFINE n == Outstanding(b) - exposure[b]
<1>5. n \in Int /\ IsSum(Pending, Rows(b), n) /\ Rows(b) \in SUBSET Ids /\ id \notin Rows(b)
    BY <1>1, DifferenceType DEF PendingIsTheDifference, Rows
<1>6. IsSum(Pending', Rows(b), n)
  <2> HIDE DEF n
  <2> QED BY <1>3, <1>4, <1>5, SumAgree
<1>7. CASE BankOf(id) = b
  <2>1. Rows(b)' = Rows(b) \cup {id}
      BY <1>2, <1>7 DEF Rows, Prior, TypeOK
  <2>2. n' = n + Pending'[id]
    <3>1. CASE OpOf(id) = "draw"
      <4>1. drawn' = [drawn EXCEPT ![b] = @ + a] /\ repaid' = repaid
          BY <1>7, <3>1 DEF Begin, Insert
      <4> QED BY <1>1, <1>4, <3>1, <4>1 DEF Outstanding, TypeOK
    <3>2. CASE OpOf(id) # "draw"
      <4>1. repaid' = [repaid EXCEPT ![b] = @ + a] /\ drawn' = drawn
          BY <1>7, <3>2 DEF Begin, Insert
      <4> QED BY <1>1, <1>4, <3>2, <4>1 DEF Outstanding, TypeOK
    <3> QED BY <3>1, <3>2
  <2>3. IsSum(Pending', Rows(b) \cup {id}, n + Pending'[id])
    <3> HIDE DEF n
    <3> QED BY <1>5, <1>6, SumAdd
  <2> QED BY <2>1, <2>2, <2>3
<1>8. CASE BankOf(id) # b
  <2>1. Rows(b)' = Rows(b)
      BY <1>2, <1>8 DEF Rows, Prior, TypeOK
  <2>2. n' = n
      BY <1>1, <1>8 DEF Outstanding, TypeOK, Begin, Insert
  <2> QED BY <1>6, <2>1, <2>2
<1> QED BY <1>7, <1>8

\* Money that moves is pending no more, and owed from then on.
LEMMA ExecutePending ==
    ASSUME IInv, IInv', PendingIsTheDifference,
           NEW id \in Ids, status[id] = "PENDING", executed[id] = 0, Execute(id), UNCHANGED db
    PROVE  PendingIsTheDifference'
<1> USE DEF IInv, db
<1>1. Signed(id) \in Int /\ BankOf(id) \in Banks
    BY SignedInt, IdParts
<1>2. /\ executed' = [executed EXCEPT ![id] = @ + 1]
      /\ exposure' = [exposure EXCEPT ![BankOf(id)] = @ + Signed(id)]
    BY DEF Execute
<1>3. Pending \in [Ids -> Int] /\ Pending' \in [Ids -> Int]
    BY PendingType, NextPendingType
<1>4. /\ \A x \in Ids : x # id => Pending'[x] = Pending[x]
      /\ Pending[id] = Signed(id) /\ Pending'[id] = 0
    BY <1>2 DEF Pending, Signed, TypeOK
<1> SUFFICES ASSUME NEW b \in Banks
             PROVE  IsSum(Pending, Rows(b), Outstanding(b) - exposure[b])'
    BY DEF PendingIsTheDifference
<1> DEFINE n == Outstanding(b) - exposure[b]
<1>5. n \in Int /\ IsSum(Pending, Rows(b), n) /\ Rows(b) \in SUBSET Ids /\ Rows(b)' = Rows(b)
    BY DifferenceType DEF PendingIsTheDifference, Rows, Prior
<1>6. CASE BankOf(id) = b
  <2>1. id \in Rows(b)
      BY <1>6 DEF Rows, Prior
  <2>2. n' = n - Pending[id] + Pending'[id]
      BY <1>1, <1>2, <1>4, <1>6, DifferenceType DEF Outstanding, TypeOK
  <2>3. IsSum(Pending', Rows(b), n - Pending[id] + Pending'[id])
    <3> HIDE DEF n
    <3> QED BY <1>3, <1>4, <1>5, <2>1, SumChange
  <2> QED BY <1>5, <2>2, <2>3
<1>7. CASE BankOf(id) # b
  <2>1. id \notin Rows(b)
      BY <1>7 DEF Rows
  <2>2. n' = n
      BY <1>2, <1>7 DEF Outstanding, TypeOK
  <2>3. IsSum(Pending', Rows(b), n)
    <3> HIDE DEF n
    <3> QED BY <1>3, <1>4, <1>5, <2>1, SumAgree
  <2> QED BY <1>5, <2>2, <2>3
<1> QED BY <1>6, <1>7

LEMMA PendingStep ==
    ASSUME IInv, IInv', PendingIsTheDifference, [Next]_vars PROVE PendingIsTheDifference'
<1> USE DEF IInv
<1>1. ASSUME NEW h \in Handlers, NEW id \in Ids, NEW a \in Amounts, Begin(h, id, a)
      PROVE  PendingIsTheDifference'
    BY <1>1, BeginPending
<1>2. ASSUME NEW h \in Handlers, ProviderExecutes(h) PROVE PendingIsTheDifference'
  <2>1. work[h] \in Ids /\ status[work[h]] = "PENDING" /\ executed[work[h]] = 0
      BY <1>2, BusyHasRow DEF ProviderExecutes, CallsMatchRows, TypeOK
  <2>2. Execute(work[h]) /\ UNCHANGED db
      BY <1>2 DEF ProviderExecutes
  <2> QED BY <2>1, <2>2, ExecutePending
<1>3. ASSUME NEW id \in Ids, OrphanExecutes(id) PROVE PendingIsTheDifference'
  <2>1. status[id] = "PENDING" /\ executed[id] = 0 /\ Execute(id) /\ UNCHANGED db
      BY <1>3 DEF OrphanExecutes, CallsMatchRows
  <2> QED BY <2>1, ExecutePending
<1>4. ASSUME NEW h \in Handlers, NEW s \in Terminal, pc[h] = "call", Settle(h, s)
      PROVE  PendingIsTheDifference'
  <2>1. work[h] \in Ids /\ Prior(work[h]) /\ s # "NONE"
      BY <1>4, BusyHasRow DEF CallsMatchRows, Prior, Terminal
  <2>2. \A id \in Ids : Prior(id)' <=> Prior(id)
      BY <1>4, <2>1 DEF Settle, Prior, TypeOK
  <2> QED BY <1>4, <2>2, PendingKeeps DEF Settle, provider
<1>5. CASE UNCHANGED <<db, executed, exposure>>
    BY <1>5, PendingKeeps DEF db, Prior
<1>6. \/ \E h \in Handlers, id \in Ids, a \in Amounts : Begin(h, id, a)
      \/ \E h \in Handlers : ProviderExecutes(h)
      \/ \E id \in Ids : OrphanExecutes(id)
      \/ \E h \in Handlers, s \in Terminal : pc[h] = "call" /\ Settle(h, s)
      \/ UNCHANGED <<db, executed, exposure>>
    BY DEF Next, vars, provider, Replay, OrphanLost, Resume, CommitPosted, CommitFailed, Terminal,
           Audit, CommitRaises, AuditRaises, ProviderAnswers, ProviderRefuses, Crash
<1> QED BY <1>1, <1>2, <1>3, <1>4, <1>5, <1>6

-----------------------------------------------------------------------------
(* The theorems.                                                           *)

\* Every conjunct of the inductive invariant holds of every reachable state.
THEOREM Invariance == Spec => []IInv
  BY InitInv, StepInv, PTL DEF Spec

\* Every variable keeps its type: no row leaves the statuses of models.py and
\* no sum over a table goes below 0.
THEOREM TypeCorrect == Spec => []TypeOK
  BY Invariance, PTL DEF IInv

\* No retry, crash, database error or lying answer makes the provider move the
\* money of one idempotency key twice.
THEOREM AtMostOnce == Spec => []AtMostOneExecution
  BY Invariance, PTL DEF IInv

\* A POSTED row is money that moved once, and a 201 is about a POSTED row.
THEOREM PostedExecuted == Spec => []PostedIsExecuted
  BY Invariance, PTL DEF IInv

\* Any number of concurrent draws stays within cap - buffer.
THEOREM WithinLimit == Spec => []BookWithinLimit
  BY Invariance, PTL DEF IInv

\* What a client was told is in the journal, and the journal agrees with the row.
THEOREM AuditMatches == Spec => []AuditMatchesBook
  BY Invariance, PTL DEF IInv

\* The journal holds one status of a row at most, so no client of one key is
\* told that it succeeded and another that it failed.
THEOREM NoContradiction == Spec => []NoContradictoryReplies
<1>1. TypeOK /\ AuditMatchesBook => NoContradictoryReplies
  <2> SUFFICES ASSUME TypeOK, AuditMatchesBook, NEW id \in Ids, told[id] = Outcomes
               PROVE  FALSE
      BY DEF NoContradictoryReplies
  <2>1. "created" \in told[id] /\ "provider_error" \in told[id]
      BY DEF Outcomes
  <2>2. "POSTED" \in audited[id] /\ "FAILED" \in audited[id]
      BY <2>1 DEF AuditMatchesBook
  <2> QED BY <2>2 DEF AuditMatchesBook
<1> QED BY <1>1, TypeCorrect, AuditMatches, PTL

\* A decided row is never decided again and no row's amount changes: an action
\* writes the status of a row that was missing or PENDING, and the amount of a
\* row that was missing.
THEOREM Finality == Spec => RowsAreFinal
<1>1. IInv /\ [Next]_vars =>
        [\A id \in Ids :
            /\ status[id] \in Terminal => status'[id] = status[id]
            /\ Prior(id) => amount'[id] = amount[id]]_db
  <2> SUFFICES ASSUME IInv, [Next]_vars, NEW id \in Ids
               PROVE  /\ status[id] \in Terminal => status'[id] = status[id]
                      /\ Prior(id) => amount'[id] = amount[id]
      OBVIOUS
  <2> USE DEF IInv, TypeOK, Prior
  <2>1. ASSUME NEW h \in Handlers, NEW new \in Ids, NEW a \in Amounts, Begin(h, new, a)
        PROVE  /\ status' = [status EXCEPT ![new] = "PENDING"]
               /\ amount' = [amount EXCEPT ![new] = a]
               /\ status[new] = "NONE"
      BY <2>1 DEF Begin, Insert
  <2>2. CASE \E h \in Handlers, new \in Ids, a \in Amounts : Begin(h, new, a)
      BY <2>1, <2>2 DEF Terminal
  <2>3. ASSUME NEW h \in Handlers, CommitPosted(h) \/ CommitFailed(h)
        PROVE  /\ status[work[h]] = "PENDING" /\ work[h] \in Ids
               /\ \E s \in Terminal : status' = [status EXCEPT ![work[h]] = s]
               /\ amount' = amount
      BY <2>3, BusyHasRow DEF CommitPosted, CommitFailed, Settle, CallsMatchRows, Terminal
  <2>4. CASE \E h \in Handlers : CommitPosted(h) \/ CommitFailed(h)
      BY <2>3, <2>4 DEF Terminal
  <2>5. CASE UNCHANGED db
      BY <2>5 DEF db
  <2> QED
    <3>1. (\E h \in Handlers, new \in Ids, a \in Amounts : Begin(h, new, a))
          \/ (\E h \in Handlers : CommitPosted(h) \/ CommitFailed(h))
          \/ UNCHANGED db
        BY DEF Next, vars, Replay, OrphanExecutes, OrphanLost, Resume, Audit, CommitRaises,
               AuditRaises, ProviderAnswers, ProviderExecutes, ProviderRefuses, Crash
    <3> QED BY <3>1, <2>2, <2>4, <2>5
<1> QED BY <1>1, Invariance, PTL DEF Spec, RowsAreFinal

\* What separates the book from the provider's record is money on its way.
THEOREM DifferenceIsPending == Spec => []PendingIsTheDifference
<1>1. IInv /\ IInv' /\ PendingIsTheDifference /\ [Next]_vars => PendingIsTheDifference'
    BY PendingStep
<1> QED BY <1>1, PendingInit, Invariance, PTL DEF Spec

\* A bank owes no more than cap - buffer at the provider while each of its
\* repayments is money the provider received: then nothing negative is pending,
\* and what is owed is at most what the book says.
THEOREM ExposureLimited == Spec => []ExposureWithinLimit
<1>1. IInv /\ PendingIsTheDifference => ExposureWithinLimit
  <2> SUFFICES ASSUME IInv, PendingIsTheDifference, NEW b \in Banks,
                      \A id \in Ids : OpOf(id) = "repay" /\ BankOf(id) = b /\ Prior(id) => executed[id] > 0
               PROVE  exposure[b] <= NonNegative(Cap[b] - Buffer[b])
      BY DEF ExposureWithinLimit
  <2>1. IsSum(Pending, Rows(b), Outstanding(b) - exposure[b])
      BY DEF PendingIsTheDifference
  <2>2. \A id \in Rows(b) : Pending[id] >= 0
    <3> SUFFICES ASSUME NEW id \in Rows(b) PROVE Pending[id] >= 0
        OBVIOUS
    <3>1. id \in Ids /\ BankOf(id) = b /\ Prior(id) /\ OpOf(id) \in Ops
        BY IdParts DEF Rows
    <3>2. amount[id] \in Nat
      <4>1. amount[id] \in Amounts \cup {0}
          BY <3>1 DEF IInv, TypeOK
      <4>2. \A a \in Amounts \cup {0} : a \in Nat
          BY ConstantsAssumption
      <4> QED BY <4>1, <4>2
    <3>3. CASE OpOf(id) = "draw"
        BY <3>1, <3>2, <3>3 DEF Pending, Signed
    <3>4. CASE OpOf(id) = "repay"
        BY <3>1, <3>2, <3>4 DEF Pending
    <3> QED BY <3>1, <3>3, <3>4 DEF Ops
  <2>3. Pending \in [Ids -> Int] /\ Outstanding(b) \in Int /\ exposure[b] \in Int /\ Rows(b) \in SUBSET Ids
      BY PendingType, DifferenceType DEF IInv, TypeOK, Rows
  <2>4. Outstanding(b) - exposure[b] >= 0
      BY <2>1, <2>2, <2>3, SumNatural
  <2>5. Outstanding(b) <= NonNegative(Cap[b] - Buffer[b])
      BY DEF IInv, BookWithinLimit
  <2>6. NonNegative(Cap[b] - Buffer[b]) \in Int
      BY ConstantsAssumption DEF NonNegative
  <2> QED BY <2>3, <2>4, <2>5, <2>6
<1> QED BY <1>1, Invariance, DifferenceIsPending, PTL
=============================================================================
