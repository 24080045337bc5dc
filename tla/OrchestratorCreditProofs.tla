---------------------- MODULE OrchestratorCreditProofs ----------------------
(***************************************************************************)
(* Proofs about OrchestratorCredit, for every limit, every amount, any     *)
(* collateral, and any number of calls and faults.                         *)
(*                                                                         *)
(* The bound on an overdraft is about the moment of booking, the check was *)
(* made long before; the invariant carries from one to the other that      *)
(* amount and basis of a draw fit the limit together.                      *)
(*                                                                         *)
(* That no booking is lost is about a sum over all calls, which the module *)
(* computes with a fold: the section on sums says what the fold returns,   *)
(* the section on the book how each step changes it.  And a call is lost   *)
(* to a fault only because nothing breaks the session before the first.    *)
(***************************************************************************)
EXTENDS OrchestratorCredit, FiniteSetTheorems, TLAPS

\* What is left to draw was left of the limit when it was computed.
CapacityFits == available > 0 => available + basis <= Limit

\* A draw that passed its check fitted the limit on the figure of the check.
ChecksFit == \A i \in DOMAIN calls :
                calls[i].kind = "DRAW" => calls[i].amount + calls[i].basis <= Limit

IInv == TypeOK /\ CapacityFits /\ ChecksFit

-----------------------------------------------------------------------------
(* The operators.                                                          *)

\* Capacity is a natural number within the limit, and fits it when it is not 0.
LEMMA CapacityBounds ==
    ASSUME collateral \in Nat, NEW d \in Nat
    PROVE  /\ Capacity(d) \in 0 .. Limit
           /\ Capacity(d) > 0 => Capacity(d) + d <= Limit
  BY ConstantsAssumption DEF Capacity, Greatest, Least

\* A booked call leaves a natural number; a draw adds its amount.
LEMMA SettledBounds ==
    ASSUME drawn \in Nat, NEW c \in Call
    PROVE  /\ Settled(c) \in Nat
           /\ c.kind = "DRAW" => Settled(c) = drawn + c.amount
<1>1. c.amount \in Nat
    BY ConstantsAssumption DEF Call
<1> QED BY <1>1 DEF Settled, Greatest

\* Moving a call to another stage changes nothing else of any call.
LEMMA MovedKeeps ==
    ASSUME TypeOK, NEW i \in DOMAIN calls, NEW st \in Progress
    PROVE  /\ Moved(i, st) \in Seq(Call)
           /\ Len(Moved(i, st)) = Len(calls)
           /\ \A j \in DOMAIN Moved(i, st) :
                 /\ j \in DOMAIN calls
                 /\ Moved(i, st)[j].kind = calls[j].kind
                 /\ Moved(i, st)[j].amount = calls[j].amount
                 /\ Moved(i, st)[j].basis = calls[j].basis
<1>1. calls \in Seq(Call) /\ calls[i] \in Call
    BY DEF TypeOK
<1>2. [calls[i] EXCEPT !.st = st] \in Call
    BY <1>1 DEF Call
<1> QED BY <1>1, <1>2 DEF Moved, Call

-----------------------------------------------------------------------------
(* The invariant.                                                          *)

LEMMA InitInv == Init => IInv
<1> SUFFICES ASSUME Init PROVE IInv
    OBVIOUS
<1>1. broken \in BOOLEAN
    BY DEF Init
<1>2. calls \in Seq(Call) /\ Len(calls) = 0 /\ DOMAIN calls = {}
    BY DEF Init
<1>3. TypeOK
    BY <1>1, <1>2, ConstantsAssumption DEF Init, TypeOK
<1> QED BY <1>2, <1>3 DEF Init, IInv, CapacityFits, ChecksFit

\* A step that moves one call and leaves the figures of the check alone, or
\* computes them anew from the drawn it leaves.
LEMMA MoveInv ==
    ASSUME IInv, NEW i \in DOMAIN calls, NEW st \in Progress,
           calls' = Moved(i, st),
           collateral' = collateral, drawn' \in Nat, broken' \in BOOLEAN,
           faults' \in 0 .. MaxFaults,
           Refreshed(drawn') \/ UNCHANGED <<available, basis>>
    PROVE  IInv'
<1> USE DEF IInv
<1>1. /\ available' \in 0 .. Limit /\ basis' \in Nat
      /\ CapacityFits'
  <2>1. collateral \in Nat
      BY ConstantsAssumption DEF TypeOK
  <2>2. CASE Refreshed(drawn')
      BY <2>1, <2>2, CapacityBounds DEF Refreshed, CapacityFits
  <2>3. CASE UNCHANGED <<available, basis>>
      BY <2>3 DEF TypeOK, CapacityFits
  <2> QED BY <2>2, <2>3
<1>2. TypeOK'
    BY <1>1, MovedKeeps DEF TypeOK
<1>3. ChecksFit'
    BY MovedKeeps DEF ChecksFit
<1> QED BY <1>1, <1>2, <1>3

LEMMA RefreshInv == ASSUME IInv, Refresh PROVE IInv'
<1> USE DEF IInv, Refresh
<1>1. collateral \in Nat /\ drawn \in Nat
    BY ConstantsAssumption DEF TypeOK
<1>2. available' \in 0 .. Limit /\ basis' \in Nat /\ CapacityFits'
    BY <1>1, CapacityBounds DEF Refreshed, CapacityFits
<1> QED BY <1>2 DEF TypeOK, ChecksFit

\* A new call is "sent"; a draw takes the figures that admitted it along.
LEMMA StartInv ==
    ASSUME IInv, NEW n \in Amounts, Draw(n) \/ Repay(n)
    PROVE  IInv'
<1> USE DEF IInv
<1> DEFINE c == calls'[Len(calls) + 1]
<1>1. /\ c \in Call
      /\ c.kind = "DRAW" => c.amount + c.basis <= Limit
      /\ calls' = Append(calls, c)
  <2>1. n \in Nat /\ n > 0 /\ calls \in Seq(Call) /\ basis \in Nat /\ available \in Nat
      BY ConstantsAssumption DEF TypeOK
  <2>2. CASE Draw(n)
    <3>1. c = [kind |-> "DRAW", amount |-> n, basis |-> basis, st |-> "sent"]
        BY <2>1, <2>2 DEF Draw
    <3>2. n + basis <= Limit
        BY <2>1, <2>2, ConstantsAssumption DEF Draw, Admitted, CapacityFits
    <3> QED BY <2>1, <2>2, <3>1, <3>2 DEF Draw, Call, Progress
  <2>3. CASE Repay(n)
    <3>1. c = [kind |-> "REPAY", amount |-> n, basis |-> 0, st |-> "sent"]
        BY <2>1, <2>3 DEF Repay
    <3> QED BY <2>1, <2>3, <3>1 DEF Repay, Call, Progress
  <2> QED BY <2>2, <2>3
<1>2. Len(calls) < MaxCalls /\ UNCHANGED <<collateral, available, basis, drawn, broken, faults>>
    BY DEF Draw, Repay
<1>3. TypeOK'
  <2> HIDE DEF c
  <2>1. calls' \in Seq(Call) /\ Len(calls') <= MaxCalls
      BY <1>1, <1>2, ConstantsAssumption DEF TypeOK
  <2> QED BY <1>2, <2>1 DEF TypeOK
<1>4. ChecksFit'
  <2> HIDE DEF c
  <2>1. \A i \in DOMAIN calls' :
         (i \in DOMAIN calls /\ calls'[i] = calls[i]) \/ calls'[i] = c
      BY <1>1 DEF TypeOK
  <2> QED BY <1>1, <2>1 DEF ChecksFit
<1> QED BY <1>2, <1>3, <1>4 DEF CapacityFits

LEMMA CrashInv == ASSUME IInv, Crash PROVE IInv'
<1> USE DEF IInv, Crash
<1>1. \A i \in DOMAIN calls :
         /\ [calls[i] EXCEPT !.st = Orphaned(calls[i])] \in Call
         /\ calls'[i].kind = calls[i].kind
         /\ calls'[i].amount = calls[i].amount
         /\ calls'[i].basis = calls[i].basis
  <2> SUFFICES ASSUME NEW i \in DOMAIN calls
               PROVE  /\ [calls[i] EXCEPT !.st = Orphaned(calls[i])] \in Call
                      /\ calls'[i].kind = calls[i].kind
                      /\ calls'[i].amount = calls[i].amount
                      /\ calls'[i].basis = calls[i].basis
      OBVIOUS
  <2>1. calls[i] \in Call
      BY DEF TypeOK
  <2>2. Orphaned(calls[i]) \in Progress
      BY <2>1 DEF Orphaned, Call, Progress
  <2> QED BY <2>1, <2>2 DEF Call
<1>2. calls' \in Seq(Call) /\ Len(calls') = Len(calls) /\ DOMAIN calls' = DOMAIN calls
  <2>1. calls \in Seq(Call) /\ DOMAIN calls = 1 .. Len(calls) /\ Len(calls) \in Nat
      BY DEF TypeOK
  <2> QED BY <1>1, <2>1
<1>3. TypeOK'
  <2>1. broken' \in BOOLEAN /\ UNCHANGED <<collateral, drawn>>
      OBVIOUS
  <2>2. available' \in 0 .. Limit /\ basis' \in Nat /\ faults' \in 0 .. MaxFaults
      BY ConstantsAssumption DEF TypeOK, Fault
  <2> QED BY <1>2, <2>1, <2>2 DEF TypeOK
<1>4. ChecksFit'
    BY <1>1, <1>2 DEF ChecksFit
<1> QED BY <1>3, <1>4 DEF CapacityFits

LEMMA StepInv == IInv /\ [Next]_vars => IInv'
<1> SUFFICES ASSUME IInv, [Next]_vars PROVE IInv'
    OBVIOUS
<1> USE DEF IInv
<1>1. ASSUME NEW n \in Amounts, Draw(n) \/ Repay(n) PROVE IInv'
    BY <1>1, StartInv
<1>2. ASSUME NEW i \in DOMAIN calls, Execute(i) \/ Refuse(i) \/ SessionRaises(i)
      PROVE  IInv'
  <2>1. PICK st \in Progress : calls' = Moved(i, st)
      BY <1>2 DEF Execute, Refuse, SessionRaises, Progress
  <2>2. UNCHANGED <<collateral, available, basis, drawn, broken, faults>>
      BY <1>2 DEF Execute, Refuse, SessionRaises
  <2>3. drawn' \in Nat /\ broken' \in BOOLEAN /\ faults' \in 0 .. MaxFaults
      BY <2>2 DEF TypeOK
  <2> QED BY <2>1, <2>2, <2>3, MoveInv
<1>3. ASSUME NEW i \in DOMAIN calls, TimeOut(i) \/ CommitRaises(i)
      PROVE  IInv'
  <2>1. PICK st \in Progress : calls' = Moved(i, st)
      BY <1>3 DEF TimeOut, CommitRaises, Progress
  <2>2. UNCHANGED <<collateral, available, basis, drawn>>
      BY <1>3 DEF TimeOut, CommitRaises
  <2>3. drawn' \in Nat /\ faults' \in 0 .. MaxFaults
      BY <1>3, <2>2, ConstantsAssumption DEF TimeOut, CommitRaises, Fault, TypeOK
  <2>4. broken' \in BOOLEAN
      BY <1>3 DEF TimeOut, CommitRaises, TypeOK
  <2> QED BY <2>1, <2>2, <2>3, <2>4, MoveInv
<1>4. ASSUME NEW i \in DOMAIN calls, Book(i) PROVE IInv'
  <2>1. calls[i] \in Call /\ drawn \in Nat
      BY DEF TypeOK
  <2>2. drawn' = Settled(calls[i]) /\ drawn' \in Nat
      BY <1>4, <2>1, SettledBounds DEF Book
  <2>3. /\ calls' = Moved(i, "booked") /\ "booked" \in Progress
        /\ UNCHANGED <<collateral, broken, faults>>
        /\ Refreshed(drawn') \/ UNCHANGED <<available, basis>>
      BY <1>4, <2>2 DEF Book, Progress
  <2>4. broken' \in BOOLEAN /\ faults' \in 0 .. MaxFaults
      BY <2>3 DEF TypeOK
  <2> QED BY <2>2, <2>3, <2>4, MoveInv
<1>5. CASE Refresh
    BY <1>5, RefreshInv
<1>6. CASE Revalue
    BY <1>6 DEF Revalue, TypeOK, CapacityFits, ChecksFit
<1>7. CASE Crash
    BY <1>7, CrashInv
<1>8. CASE UNCHANGED vars
    BY <1>8 DEF vars, TypeOK, CapacityFits, ChecksFit
<1> QED BY <1>1, <1>2, <1>3, <1>4, <1>5, <1>6, <1>7, <1>8 DEF Next, Resume

-----------------------------------------------------------------------------
(* Sums.  The prover cannot argue by induction about the recursion inside  *)
(* MapThenSumSet.  A sum is therefore characterised first: n is the sum of *)
(* f over S when every relation that holds of nothing and 0, and with any  *)
(* T and m of T with one more element and m with its value, holds of S and *)
(* n.  Choosing the relation shows that there is one such n at most; that  *)
(* MapThenSumSet computes it for a finite S is an induction over a set of  *)
(* sets, which the well-foundedness of the strict subsets gives.           *)

Sums == (SUBSET Nat) \X Int

AddsUp(R, f) ==
    /\ <<{}, 0>> \in R
    /\ \A T \in SUBSET Nat, m \in Int, i \in Nat :
          <<T, m>> \in R /\ i \notin T => <<T \cup {i}, m + f[i]>> \in R

IsSum(f, S, n) == \A R \in SUBSET Sums : AddsUp(R, f) => <<S, n>> \in R

LEMMA SumEmpty == ASSUME NEW f PROVE IsSum(f, {}, 0)
  BY DEF IsSum, AddsUp

LEMMA SumAdd ==
    ASSUME NEW f, NEW S \in SUBSET Nat, NEW n \in Int, IsSum(f, S, n), NEW i \in Nat, i \notin S
    PROVE  IsSum(f, S \cup {i}, n + f[i])
  BY DEF IsSum, AddsUp

LEMMA Entry ==
    ASSUME NEW f \in [Nat -> Int], NEW T \in SUBSET Nat, NEW m \in Int, NEW i \in Nat
    PROVE  <<T \cup {i}, m + f[i]>> \in Sums
<1>1. f[i] \in Int
    OBVIOUS
<1>2. m + f[i] \in Int /\ T \cup {i} \in SUBSET Nat
    BY <1>1
<1> QED BY <1>2 DEF Sums

\* Functions that agree on S have the same sum over S.
LEMMA SumAgree ==
    ASSUME NEW f \in [Nat -> Int], NEW g \in [Nat -> Int], NEW S \in SUBSET Nat, NEW n \in Int,
           IsSum(f, S, n), \A i \in S : g[i] = f[i]
    PROVE  IsSum(g, S, n)
<1> DEFINE R == {p \in Sums : p[1] \subseteq S => IsSum(g, p[1], p[2])}
<1>1. <<{}, 0>> \in R
    BY SumEmpty DEF Sums
<1>2. ASSUME NEW T \in SUBSET Nat, NEW m \in Int, NEW i \in Nat, <<T, m>> \in R, i \notin T
      PROVE  <<T \cup {i}, m + f[i]>> \in R
  <2>1. <<T \cup {i}, m + f[i]>> \in Sums
      BY Entry
  <2>2. ASSUME T \cup {i} \subseteq S PROVE IsSum(g, T \cup {i}, m + f[i])
    <3>1. IsSum(g, T, m) /\ g[i] = f[i]
        BY <1>2, <2>2
    <3> QED BY <1>2, <3>1, SumAdd
  <2> QED BY <2>1, <2>2
<1>3. AddsUp(R, f)
    BY <1>1, <1>2 DEF AddsUp
<1>4. R \in SUBSET Sums
    OBVIOUS
<1>5. <<S, n>> \in R
    BY <1>3, <1>4 DEF IsSum
<1> QED BY <1>5

\* An element can be taken out again.
LEMMA SumRemove ==
    ASSUME NEW f \in [Nat -> Int], NEW S \in SUBSET Nat, NEW n \in Int, IsSum(f, S, n), NEW i \in S
    PROVE  IsSum(f, S \ {i}, n - f[i])
<1> DEFINE Less(T, m) == IF i \in T THEN m - f[i] ELSE m
           R == {p \in Sums : IsSum(f, p[1] \ {i}, Less(p[1], p[2]))}
<1>1. <<{}, 0>> \in R
  <2>1. {} \ {i} = {}
      OBVIOUS
  <2> QED BY <2>1, SumEmpty DEF Sums
<1>2. ASSUME NEW T \in SUBSET Nat, NEW m \in Int, NEW j \in Nat, <<T, m>> \in R, j \notin T
      PROVE  <<T \cup {j}, m + f[j]>> \in R
  <2>1. <<T \cup {j}, m + f[j]>> \in Sums
      BY Entry
  <2>2. IsSum(f, T \ {i}, Less(T, m)) /\ Less(T, m) \in Int
      BY <1>2
  <2>3. CASE j = i
    <3>1. (T \cup {j}) \ {i} = T \ {i} /\ Less(T \cup {j}, m + f[j]) = Less(T, m)
        BY <1>2, <2>3
    <3> QED BY <2>1, <2>2, <3>1
  <2>4. CASE j # i
    <3>1. (T \cup {j}) \ {i} = (T \ {i}) \cup {j} /\ Less(T \cup {j}, m + f[j]) = Less(T, m) + f[j]
        BY <1>2, <2>4
    <3>2. IsSum(f, (T \ {i}) \cup {j}, Less(T, m) + f[j])
      <4> HIDE DEF Less
      <4> QED BY <1>2, <2>2, SumAdd
    <3> QED BY <2>1, <3>1, <3>2
  <2> QED BY <2>3, <2>4
<1>3. AddsUp(R, f)
    BY <1>1, <1>2 DEF AddsUp
<1>4. R \in SUBSET Sums
    OBVIOUS
<1>5. <<S, n>> \in R
    BY <1>3, <1>4 DEF IsSum
<1> QED BY <1>5

\* There is one sum at most.
LEMMA SumUnique ==
    ASSUME NEW f \in [Nat -> Int], NEW S \in SUBSET Nat, NEW n \in Int, NEW m \in Int,
           IsSum(f, S, n), IsSum(f, S, m)
    PROVE  n = m
<1> DEFINE R == {p \in Sums : \A k \in Int : IsSum(f, p[1], k) => k = p[2]}
<1>1. <<{}, 0>> \in R
  <2> SUFFICES ASSUME NEW k \in Int, IsSum(f, {}, k) PROVE k = 0
      BY DEF Sums
  <2> DEFINE Q == {p \in Sums : p[1] = {} => p[2] = 0}
  <2>1. AddsUp(Q, f)
    <3>1. <<{}, 0>> \in Q
        BY DEF Sums
    <3>2. ASSUME NEW T \in SUBSET Nat, NEW l \in Int, NEW i \in Nat
          PROVE  <<T \cup {i}, l + f[i]>> \in Q
        BY Entry
    <3> QED BY <3>1, <3>2 DEF AddsUp
  <2>2. <<{}, k>> \in Q
      BY <2>1 DEF IsSum
  <2> QED BY <2>2
<1>2. ASSUME NEW T \in SUBSET Nat, NEW l \in Int, NEW i \in Nat, <<T, l>> \in R, i \notin T
      PROVE  <<T \cup {i}, l + f[i]>> \in R
  <2>1. <<T \cup {i}, l + f[i]>> \in Sums
      BY Entry
  <2>2. ASSUME NEW k \in Int, IsSum(f, T \cup {i}, k) PROVE k = l + f[i]
    <3>1. (T \cup {i}) \ {i} = T /\ f[i] \in Int /\ k - f[i] \in Int
        BY <1>2
    <3>2. IsSum(f, T, k - f[i])
        BY <2>2, <3>1, SumRemove
    <3>3. k - f[i] = l
        BY <1>2, <3>1, <3>2
    <3> QED BY <3>1, <3>3
  <2> QED BY <2>1, <2>2
<1>3. AddsUp(R, f)
    BY <1>1, <1>2 DEF AddsUp
<1>4. R \in SUBSET Sums
    OBVIOUS
<1>5. <<S, n>> \in R
    BY <1>3, <1>4 DEF IsSum
<1> QED BY <1>5

\* Induction over the subsets of a finite set: a family that has a set whenever
\* it has the set without any one element has them all.
LEMMA SubsetInduction ==
    ASSUME NEW S, IsFiniteSet(S), NEW F \in SUBSET SUBSET S,
           \A T \in SUBSET S : (\A x \in T : T \ {x} \in F) => T \in F
    PROVE  F = SUBSET S
<1> SUFFICES ASSUME F # SUBSET S PROVE FALSE
    OBVIOUS
<1> DEFINE Bad == (SUBSET S) \ F
           Order == StrictSubsetOrdering(S)
<1>1. IsWellFoundedOn(Order, FiniteSubsetsOf(S)) /\ FiniteSubsetsOf(S) = SUBSET S
    BY FS_StrictSubsetOrderingWellFounded, FS_FiniteSubsetsOfFinite
<1>2. Bad \subseteq FiniteSubsetsOf(S) /\ Bad # {}
    BY <1>1
<1>3. PICK T \in Bad : \A U \in Bad : ~ (<<U, T>> \in Order)
  <2> HIDE DEF Bad, Order
  <2> QED BY <1>1, <1>2, WFMin
<1>4. \A x \in T : T \ {x} \in F
  <2> SUFFICES ASSUME NEW x \in T, T \ {x} \notin F PROVE FALSE
      OBVIOUS
  <2>1. T \ {x} \in Bad
      OBVIOUS
  <2>2. <<T \ {x}, T>> \in Order
      BY DEF StrictSubsetOrdering
  <2> QED BY <1>3, <2>1, <2>2
<1> QED BY <1>4

\* A finite set has a sum.
LEMMA SumExists ==
    ASSUME NEW f \in [Nat -> Int], NEW S \in SUBSET Nat, IsFiniteSet(S)
    PROVE  \A T \in SUBSET S : \E n \in Int : IsSum(f, T, n)
<1> DEFINE F == {T \in SUBSET S : \E n \in Int : IsSum(f, T, n)}
<1>1. ASSUME NEW T \in SUBSET S, \A x \in T : T \ {x} \in F PROVE T \in F
  <2>1. CASE T = {}
      BY <2>1, SumEmpty
  <2>2. CASE T # {}
    <3>1. PICK x \in T : TRUE
        BY <2>2
    <3>2. PICK n \in Int : IsSum(f, T \ {x}, n)
        BY <1>1
    <3>3. (T \ {x}) \cup {x} = T /\ x \in Nat /\ n + f[x] \in Int
        BY <3>1
    <3>4. IsSum(f, T, n + f[x])
        BY <3>2, <3>3, SumAdd
    <3> QED BY <3>3, <3>4
  <2> QED BY <2>1, <2>2
<1>2. F = SUBSET S
  <2> HIDE DEF F
  <2>1. F \in SUBSET SUBSET S
      BY DEF F
  <2> QED BY <1>1, <2>1, SubsetInduction
<1> QED BY <1>2

\* The sum over calls, in the form of Total.
AmountSum(c, S) == MapThenSumSet(LAMBDA i : c[i].amount, S)

\* MapThenSumSet computes the sum.
LEMMA FoldIsSum ==
    ASSUME NEW c, NEW f \in [Nat -> Int], NEW S \in SUBSET Nat, IsFiniteSet(S),
           \A i \in S : c[i].amount = f[i]
    PROVE  /\ AmountSum(c, S) \in Int
           /\ IsSum(f, S, AmountSum(c, S))
<1> DEFINE Pick(T) == CHOOSE x \in T : TRUE
           Step(g, T) == IF T = {} THEN 0 ELSE c[Pick(T)].amount + g[T \ {Pick(T)}]
           Solves(g) == g = [T \in SUBSET S |-> Step(g, T)]
           sum == [T \in SUBSET S |-> CHOOSE n \in Int : IsSum(f, T, n)]
           iter == CHOOSE g : Solves(g)
<1>1. \A T \in SUBSET S : sum[T] \in Int /\ IsSum(f, T, sum[T])
    BY SumExists
<1>2. \A T \in SUBSET S : T # {} => Pick(T) \in T
    OBVIOUS
<1>3. Solves(sum)
  <2>1. ASSUME NEW T \in SUBSET S PROVE sum[T] = Step(sum, T)
    <3>1. CASE T = {}
      <4>1. IsSum(f, T, 0)
          BY <3>1, SumEmpty
      <4> QED BY <1>1, <3>1, <4>1, SumUnique
    <3>2. CASE T # {}
      <4> DEFINE x == Pick(T)
      <4>1. x \in T /\ x \in Nat /\ T \ {x} \in SUBSET S /\ (T \ {x}) \cup {x} = T /\ T \in SUBSET Nat
          BY <1>2, <3>2
      <4>2. sum[T \ {x}] \in Int /\ IsSum(f, T \ {x}, sum[T \ {x}]) /\ sum[T] \in Int /\ IsSum(f, T, sum[T])
          BY <1>1, <4>1
      <4>3. c[x].amount = f[x] /\ f[x] \in Int
          BY <4>1
      <4> HIDE DEF x, sum
      <4>4. IsSum(f, T, sum[T \ {x}] + f[x])
        <5>1. IsSum(f, (T \ {x}) \cup {x}, sum[T \ {x}] + f[x])
            BY <4>1, <4>2, SumAdd
        <5> QED BY <4>1, <5>1
      <4>5. sum[T] = sum[T \ {x}] + f[x]
          BY <4>1, <4>2, <4>3, <4>4, SumUnique
      <4>6. sum[T] = c[x].amount + sum[T \ {x}]
          BY <4>2, <4>3, <4>5
      <4> QED BY <3>2, <4>6 DEF x
    <3> QED BY <3>1, <3>2
  <2> HIDE DEF Step
  <2> QED BY <2>1
<1>4. Solves(iter)
  <2> HIDE DEF Solves, sum
  <2> QED BY <1>3
<1>5. \A T \in SUBSET S : iter[T] \in Int /\ IsSum(f, T, iter[T])
  <2> DEFINE F == {T \in SUBSET S : iter[T] \in Int /\ IsSum(f, T, iter[T])}
  <2>1. \A T \in SUBSET S : iter[T] = Step(iter, T)
    <3> HIDE DEF iter, Step
    <3> QED BY <1>4
  <2> HIDE DEF iter
  <2>2. ASSUME NEW T \in SUBSET S, \A x \in T : T \ {x} \in F PROVE T \in F
    <3>1. CASE T = {}
      <4>1. iter[T] = 0
          BY <2>1, <3>1
      <4> QED BY <3>1, <4>1, SumEmpty
    <3>2. CASE T # {}
      <4> DEFINE x == Pick(T)
      <4>1. x \in T /\ x \in Nat /\ T \ {x} \in SUBSET Nat /\ (T \ {x}) \cup {x} = T
          BY <1>2, <3>2
      <4>2. iter[T] = c[x].amount + iter[T \ {x}]
          BY <2>1, <3>2
      <4>3. c[x].amount = f[x] /\ f[x] \in Int
          BY <4>1
      <4> HIDE DEF x
      <4>4. iter[T \ {x}] \in Int /\ IsSum(f, T \ {x}, iter[T \ {x}])
          BY <2>2, <4>1
      <4>5. iter[T] = iter[T \ {x}] + f[x]
          BY <4>2, <4>3, <4>4
      <4>6. IsSum(f, T, iter[T]) /\ iter[T] \in Int
        <5>1. IsSum(f, (T \ {x}) \cup {x}, iter[T \ {x}] + f[x])
            BY <4>1, <4>4, SumAdd
        <5> QED BY <4>1, <4>3, <4>4, <4>5, <5>1
      <4> QED BY <4>6
    <3> QED BY <3>1, <3>2
  <2>3. F = SUBSET S
    <3> HIDE DEF F
    <3>1. F \in SUBSET SUBSET S
        BY DEF F
    <3> QED BY <2>2, <3>1, SubsetInduction
  <2> QED BY <2>3
<1>6. AmountSum(c, S) = iter[S]
    BY DEF AmountSum, MapThenSumSet, MapThenFoldSet
<1> HIDE DEF iter
<1> QED BY <1>5, <1>6

AmountOf(c) == [i \in Nat |-> IF i \in DOMAIN c THEN c[i].amount ELSE 0]

LEMMA AmountSumIsSum ==
    ASSUME NEW c \in Seq(Call), NEW S \in SUBSET DOMAIN c
    PROVE  /\ AmountOf(c) \in [Nat -> Int]
           /\ S \in SUBSET Nat
           /\ \A i \in S : AmountOf(c)[i] = c[i].amount
           /\ AmountSum(c, S) \in Int
           /\ IsSum(AmountOf(c), S, AmountSum(c, S))
<1>1. DOMAIN c = 1 .. Len(c) /\ Len(c) \in Nat
    OBVIOUS
<1>2. S \in SUBSET Nat /\ IsFiniteSet(S)
  <2>1. IsFiniteSet(1 .. Len(c))
      BY <1>1, FS_Interval
  <2>2. IsFiniteSet(S)
      BY <1>1, <2>1, FS_Subset
  <2> QED BY <1>1, <2>2
<1>3. \A i \in DOMAIN c : c[i].amount \in Int
  <2>1. \A call \in Call : call.amount \in Amounts
      BY DEF Call
  <2>2. \A a \in Amounts : a \in Int
      BY ConstantsAssumption
  <2>3. \A i \in DOMAIN c : c[i] \in Call
      OBVIOUS
  <2> QED BY <2>1, <2>2, <2>3
<1>4. AmountOf(c) \in [Nat -> Int]
    BY <1>3 DEF AmountOf
<1>5. \A i \in S : AmountOf(c)[i] = c[i].amount
    BY <1>2 DEF AmountOf
<1> QED BY <1>2, <1>4, <1>5, FoldIsSum

\* Calls that keep their amounts keep their sum.
LEMMA AmountSumAgree ==
    ASSUME NEW c \in Seq(Call), NEW d \in Seq(Call), NEW S \in SUBSET DOMAIN c, S \subseteq DOMAIN d,
           \A i \in S : d[i].amount = c[i].amount
    PROVE  AmountSum(d, S) = AmountSum(c, S)
<1>1. IsSum(AmountOf(c), S, AmountSum(d, S))
  <2>1. \A i \in S : AmountOf(c)[i] = AmountOf(d)[i]
      BY AmountSumIsSum
  <2> QED BY <2>1, AmountSumIsSum, SumAgree
<1> QED BY <1>1, AmountSumIsSum, SumUnique

\* One more call adds its amount.
LEMMA AmountSumAdd ==
    ASSUME NEW c \in Seq(Call), NEW S \in SUBSET DOMAIN c, NEW i \in DOMAIN c, i \notin S
    PROVE  AmountSum(c, S \cup {i}) = AmountSum(c, S) + c[i].amount
<1>1. S \cup {i} \in SUBSET DOMAIN c /\ i \in Nat /\ AmountOf(c)[i] = c[i].amount
    BY DEF AmountOf
<1>2. AmountOf(c)[i] \in Int
    BY <1>1, AmountSumIsSum
<1>3. IsSum(AmountOf(c), S \cup {i}, AmountSum(c, S) + AmountOf(c)[i])
    BY <1>1, AmountSumIsSum, SumAdd
<1>4. IsSum(AmountOf(c), S \cup {i}, AmountSum(c, S \cup {i})) /\ S \cup {i} \in SUBSET Nat
      /\ AmountSum(c, S \cup {i}) \in Int /\ AmountSum(c, S) + AmountOf(c)[i] \in Int
    BY <1>1, <1>2, AmountSumIsSum
<1> QED BY <1>1, <1>3, <1>4, AmountSumIsSum, SumUnique

-----------------------------------------------------------------------------
(* The book.                                                               *)

\* Total in terms of AmountSum; the step lemmas need it of both their states.
TotalIsSum == \A kind : Total(kind) = AmountSum(calls, Booked(kind))

LEMMA TotalDefined == TotalIsSum
  BY DEF TotalIsSum, Total, AmountSum

LEMMA TotalType ==
    ASSUME TypeOK, NEW kind PROVE Total(kind) \in Int /\ Total(kind) = AmountSum(calls, Booked(kind))
<1>1. calls \in Seq(Call) /\ Booked(kind) \in SUBSET DOMAIN calls
    BY DEF TypeOK, Booked
<1>2. Total(kind) = AmountSum(calls, Booked(kind))
    BY TotalDefined DEF TotalIsSum
<1> QED BY <1>1, <1>2, AmountSumIsSum

\* A step after which the same calls are booked keeps both totals.
LEMMA BookKeeps ==
    ASSUME TypeOK, TypeOK', TotalIsSum', DrawnIsTheBook, drawn' = drawn,
           \A kind \in {"DRAW", "REPAY"} : Booked(kind)' = Booked(kind),
           \A i \in DOMAIN calls : calls[i].st = "booked" => calls'[i].amount = calls[i].amount
    PROVE  DrawnIsTheBook'
<1>1. \A kind \in {"DRAW", "REPAY"} : Total(kind)' = Total(kind)
  <2> SUFFICES ASSUME NEW kind \in {"DRAW", "REPAY"} PROVE Total(kind)' = Total(kind)
      OBVIOUS
  <2>1. calls \in Seq(Call) /\ calls' \in Seq(Call)
      BY DEF TypeOK
  <2>2. Booked(kind) \in SUBSET DOMAIN calls /\ Booked(kind) \subseteq DOMAIN calls'
    <3>1. Booked(kind)' \subseteq DOMAIN calls'
        BY DEF Booked
    <3> QED BY <3>1 DEF Booked
  <2>3. \A i \in Booked(kind) : calls'[i].amount = calls[i].amount
      BY DEF Booked
  <2>4. AmountSum(calls', Booked(kind)) = AmountSum(calls, Booked(kind))
      BY <2>1, <2>2, <2>3, AmountSumAgree
  <2>5. Total(kind)' = AmountSum(calls', Booked(kind)) /\ Total(kind) = AmountSum(calls, Booked(kind))
      BY TotalDefined DEF TotalIsSum
  <2> QED BY <2>4, <2>5
<1> QED BY <1>1 DEF DrawnIsTheBook

\* Booking a call adds it to one total and to the balance; a repayment that is
\* cut at 0 leaves more than the difference.
LEMMA BookBooks ==
    ASSUME TypeOK, TypeOK', TotalIsSum', DrawnIsTheBook, NEW i \in DOMAIN calls, Book(i)
    PROVE  DrawnIsTheBook'
<1>1. /\ calls \in Seq(Call) /\ calls' \in Seq(Call) /\ calls[i] \in Call /\ drawn \in Int
      /\ drawn' = Settled(calls[i]) /\ calls' = Moved(i, "booked") /\ calls[i].st = "done"
    BY DEF TypeOK, Book
<1>2. calls[i].amount \in Int /\ calls[i].amount > 0 /\ calls[i].kind \in {"DRAW", "REPAY"}
  <2>1. calls[i].amount \in Amounts /\ calls[i].kind \in {"DRAW", "REPAY"}
      BY <1>1 DEF Call
  <2>2. \A a \in Amounts : a \in Int /\ a > 0
      BY ConstantsAssumption
  <2> QED BY <2>1, <2>2
<1>3. /\ DOMAIN calls' = DOMAIN calls /\ \A j \in DOMAIN calls : j # i => calls'[j] = calls[j]
      /\ calls'[i].kind = calls[i].kind /\ calls'[i].amount = calls[i].amount /\ calls'[i].st = "booked"
    BY <1>1 DEF Moved, Call
<1> DEFINE kind == calls[i].kind
<1>4. \A k : Total(k) \in Int /\ Total(k) = AmountSum(calls, Booked(k))
    BY TotalType
<1>5. \A k : Total(k)' = AmountSum(calls', Booked(k)')
    BY DEF TotalIsSum
<1>6. \A k \in {"DRAW", "REPAY"} : Booked(k)' = IF k = kind THEN Booked(k) \cup {i} ELSE Booked(k)
    BY <1>1, <1>3 DEF Booked
<1>7. \A k : Booked(k) \in SUBSET DOMAIN calls /\ i \notin Booked(k)
    BY <1>1 DEF Booked
<1>8. \A k : AmountSum(calls', Booked(k)) = AmountSum(calls, Booked(k))
  <2> SUFFICES ASSUME NEW k PROVE AmountSum(calls', Booked(k)) = AmountSum(calls, Booked(k))
      OBVIOUS
  <2>1. \A j \in Booked(k) : calls'[j].amount = calls[j].amount
      BY <1>3, <1>7
  <2> QED BY <1>1, <1>3, <1>7, <2>1, AmountSumAgree
<1>9. AmountSum(calls', Booked(kind) \cup {i}) = AmountSum(calls', Booked(kind)) + calls[i].amount
  <2>1. AmountSum(calls', Booked(kind) \cup {i}) = AmountSum(calls', Booked(kind)) + calls'[i].amount
      BY <1>1, <1>3, <1>7, AmountSumAdd
  <2> QED BY <1>3, <2>1
<1>10. \A k \in {"DRAW", "REPAY"} :
          Total(k)' = IF k = kind THEN Total(k) + calls[i].amount ELSE Total(k)
    BY <1>4, <1>5, <1>6, <1>8, <1>9
<1>11. drawn >= 0 /\ drawn \in Total("DRAW") - Total("REPAY") .. Total("DRAW")
    BY DEF DrawnIsTheBook, TypeOK
<1> HIDE DEF kind
<1>12. CASE calls[i].kind = "DRAW"
  <2>1. Total("DRAW")' = Total("DRAW") + calls[i].amount /\ Total("REPAY")' = Total("REPAY")
      BY <1>10, <1>12 DEF kind
  <2>2. drawn' = drawn + calls[i].amount
      BY <1>1, <1>12 DEF Settled
  <2> QED BY <1>1, <1>2, <1>4, <1>11, <2>1, <2>2 DEF DrawnIsTheBook
<1>13. CASE calls[i].kind = "REPAY"
  <2>1. Total("REPAY")' = Total("REPAY") + calls[i].amount /\ Total("DRAW")' = Total("DRAW")
      BY <1>10, <1>13 DEF kind
  <2>2. drawn' = Greatest(0, drawn - calls[i].amount)
      BY <1>1, <1>13 DEF Settled
  <2> QED BY <1>1, <1>2, <1>4, <1>11, <2>1, <2>2 DEF DrawnIsTheBook, Greatest
<1> QED BY <1>2, <1>12, <1>13

\* A call leaves or reaches "booked" in Book only.
LEMMA OnlyBookBooks ==
    ASSUME IInv, [Next]_vars, \A i \in DOMAIN calls : ~Book(i)
    PROVE  /\ drawn' = drawn
           /\ \A kind \in {"DRAW", "REPAY"} : Booked(kind)' = Booked(kind)
           /\ \A i \in DOMAIN calls : calls[i].st = "booked" => calls'[i].amount = calls[i].amount
<1> USE DEF IInv
<1>0. calls \in Seq(Call) /\ \A i \in DOMAIN calls : calls[i] \in Call
    BY DEF TypeOK
<1>1. ASSUME NEW n \in Amounts, Draw(n) \/ Repay(n) PROVE
           /\ drawn' = drawn
           /\ \A kind \in {"DRAW", "REPAY"} : Booked(kind)' = Booked(kind)
           /\ \A i \in DOMAIN calls : calls'[i] = calls[i]
  <2>1. PICK c : calls' = Append(calls, c) /\ c.st = "sent" /\ drawn' = drawn
      BY <1>1 DEF Draw, Repay
  <2>2. /\ DOMAIN calls' = DOMAIN calls \cup {Len(calls) + 1}
        /\ calls'[Len(calls) + 1] = c
        /\ \A i \in DOMAIN calls : calls'[i] = calls[i]
      BY <1>0, <2>1
  <2> QED BY <2>1, <2>2 DEF Booked
<1>2. ASSUME NEW i \in DOMAIN calls,
             Execute(i) \/ Refuse(i) \/ TimeOut(i) \/ CommitRaises(i) \/ SessionRaises(i)
      PROVE  /\ drawn' = drawn
             /\ \A kind \in {"DRAW", "REPAY"} : Booked(kind)' = Booked(kind)
             /\ \A j \in DOMAIN calls : calls'[j].amount = calls[j].amount
  <2>1. PICK st \in Progress \ {"booked"} : calls' = Moved(i, st)
      BY <1>2 DEF Execute, Refuse, TimeOut, CommitRaises, SessionRaises, Progress
  <2>2. drawn' = drawn /\ calls[i].st # "booked"
      BY <1>2 DEF Execute, Refuse, TimeOut, CommitRaises, SessionRaises
  <2>3. /\ DOMAIN calls' = DOMAIN calls /\ \A j \in DOMAIN calls : j # i => calls'[j] = calls[j]
        /\ calls'[i].st = st /\ calls'[i].amount = calls[i].amount
      BY <1>0, <2>1 DEF Moved, Call
  <2> QED BY <2>2, <2>3 DEF Booked
<1>3. CASE Crash
  <2>1. DOMAIN calls' = DOMAIN calls /\ drawn' = drawn
      BY <1>3 DEF Crash
  <2>2. \A j \in DOMAIN calls :
          /\ calls'[j].kind = calls[j].kind /\ calls'[j].amount = calls[j].amount
          /\ calls'[j].st = "booked" <=> calls[j].st = "booked"
    <3> SUFFICES ASSUME NEW j \in DOMAIN calls
                 PROVE  /\ calls'[j].kind = calls[j].kind /\ calls'[j].amount = calls[j].amount
                        /\ calls'[j].st = "booked" <=> calls[j].st = "booked"
        OBVIOUS
    <3>1. calls'[j] = [calls[j] EXCEPT !.st = Orphaned(calls[j])]
        BY <1>3 DEF Crash
    <3>2. Orphaned(calls[j]) = "booked" <=> calls[j].st = "booked"
        BY DEF Orphaned
    <3> QED BY <1>0, <3>1, <3>2 DEF Call
  <2> QED BY <2>1, <2>2 DEF Booked
<1>4. CASE Refresh \/ Revalue \/ UNCHANGED vars
    BY <1>4 DEF Refresh, Revalue, vars, Booked
<1> QED BY <1>1, <1>2, <1>3, <1>4 DEF Next, Resume

LEMMA BookStep ==
    ASSUME IInv, IInv', TotalIsSum', DrawnIsTheBook, [Next]_vars PROVE DrawnIsTheBook'
<1>1. CASE \E i \in DOMAIN calls : Book(i)
    BY <1>1, BookBooks DEF IInv
<1>2. CASE \A i \in DOMAIN calls : ~Book(i)
    BY <1>2, OnlyBookBooks, BookKeeps DEF IInv
<1> QED BY <1>1, <1>2

LEMMA BookInit == Init => DrawnIsTheBook
<1> SUFFICES ASSUME Init PROVE DrawnIsTheBook
    OBVIOUS
<1>1. calls \in Seq(Call) /\ DOMAIN calls = {} /\ drawn = 0
    BY DEF Init
<1>2. \A kind : Total(kind) = 0
  <2> SUFFICES ASSUME NEW kind PROVE Total(kind) = 0
      OBVIOUS
  <2>1. {} \in SUBSET DOMAIN calls
      OBVIOUS
  <2>2. AmountSum(calls, {}) = 0
    <3>1. /\ AmountOf(calls) \in [Nat -> Int] /\ {} \in SUBSET Nat /\ AmountSum(calls, {}) \in Int
          /\ IsSum(AmountOf(calls), {}, AmountSum(calls, {}))
        BY <1>1, <2>1, AmountSumIsSum
    <3>2. IsSum(AmountOf(calls), {}, 0)
        BY <3>1, SumEmpty
    <3>3. 0 \in Int
        OBVIOUS
    <3> QED BY <3>1, <3>2, <3>3, SumUnique
  <2>3. Booked(kind) = {}
      BY <1>1 DEF Booked
  <2> QED BY <2>2, <2>3, TotalDefined DEF TotalIsSum
<1> QED BY <1>1, <1>2 DEF DrawnIsTheBook

-----------------------------------------------------------------------------
(* Faults.                                                                 *)

\* Before the first fault the session works, nobody stopped waiting, and nothing
\* that the bank executed has gone unbooked.
NothingLostBefore ==
    faults = 0 => ~broken /\ \A i \in DOMAIN calls : calls[i].st \notin {"adrift", "unbooked"}

LEMMA FaultsStep ==
    ASSUME IInv, NothingLostBefore, [Next]_vars PROVE NothingLostBefore'
<1> USE DEF IInv, NothingLostBefore
<1>0. faults \in Nat /\ calls \in Seq(Call) /\ \A i \in DOMAIN calls : calls[i] \in Call
    BY DEF TypeOK
<1>1. ASSUME NEW n \in Amounts, Draw(n) \/ Repay(n) PROVE NothingLostBefore'
  <2>1. PICK c : calls' = Append(calls, c) /\ c.st = "sent"
      BY <1>1 DEF Draw, Repay
  <2>2. \A i \in DOMAIN calls' : (i \in DOMAIN calls /\ calls'[i] = calls[i]) \/ calls'[i] = c
      BY <1>0, <2>1
  <2> QED BY <1>1, <2>1, <2>2 DEF Draw, Repay
<1>2. ASSUME NEW i \in DOMAIN calls, Execute(i) \/ Refuse(i) \/ Book(i) \/ SessionRaises(i)
      PROVE  NothingLostBefore'
  <2> SUFFICES ASSUME faults = 0 PROVE NothingLostBefore'
      BY <1>2 DEF Execute, Refuse, Book, SessionRaises
  <2>1. \E st \in {"done", "refused", "booked"} : calls' = Moved(i, st)
      BY <1>2 DEF Execute, Refuse, Book, SessionRaises
  <2>2. \A j \in DOMAIN calls' : j \in DOMAIN calls /\ calls'[j].st \in {calls[j].st, "done", "refused", "booked"}
      BY <1>0, <2>1 DEF Moved, Call
  <2> QED BY <1>2, <2>2 DEF Execute, Refuse, Book, SessionRaises
<1>3. ASSUME NEW i \in DOMAIN calls, TimeOut(i) \/ CommitRaises(i) PROVE NothingLostBefore'
    BY <1>0, <1>3 DEF TimeOut, CommitRaises, Fault
<1>4. CASE Crash
    BY <1>0, <1>4 DEF Crash, Fault
<1>5. CASE Refresh \/ Revalue \/ UNCHANGED vars
    BY <1>5 DEF Refresh, Revalue, vars
<1> QED BY <1>1, <1>2, <1>3, <1>4, <1>5 DEF Next, Resume

-----------------------------------------------------------------------------
(* The theorems.                                                           *)

THEOREM Invariance == Spec => []IInv
  BY InitInv, StepInv, PTL DEF Spec

\* Whatever answers, timeouts, failing commits and crashes come in between, the
\* balance stays a natural number and the available amount within the limit.
THEOREM TypeCorrect == Spec => []TypeOK
<1>1. IInv => TypeOK
    BY DEF IInv
<1> QED BY <1>1, Invariance, PTL

\* The check that draw makes before it awaits the bank bounds what it books
\* after: a draw exceeds the limit by at most what was booked since its figure.
THEOREM BoundedOverdraft == Spec => OverdraftIsWhatTheCheckMissed
<1> DEFINE Bounded == \A i \in DOMAIN calls :
                         /\ calls[i].kind = "DRAW"
                         /\ calls[i].st = "done" /\ calls'[i].st = "booked"
                         => drawn' <= Limit + (drawn - calls[i].basis)
<1>1. IInv /\ [Next]_vars => [Bounded]_vars
  <2> SUFFICES ASSUME IInv, Next, NEW i \in DOMAIN calls,
                      calls[i].kind = "DRAW",
                      calls[i].st = "done", calls'[i].st = "booked"
               PROVE  drawn' <= Limit + (drawn - calls[i].basis)
      OBVIOUS
  <2>1. /\ calls \in Seq(Call) /\ calls[i] \in Call /\ drawn \in Nat /\ Limit \in Nat
        /\ calls[i].amount \in Nat /\ calls[i].basis \in Nat
    <3>1. calls \in Seq(Call) /\ drawn \in Nat
        BY DEF IInv, TypeOK
    <3>2. calls[i] \in Call
        BY <3>1
    <3>3. calls[i].amount \in Nat /\ calls[i].basis \in Nat
        BY <3>2, ConstantsAssumption DEF Call
    <3> QED BY <3>1, <3>2, <3>3, ConstantsAssumption
  <2>2. Book(i)
    <3>1. \A j \in DOMAIN calls, st \in Progress \ {"booked"} :
             calls' = Moved(j, st) => calls'[i].st # "booked"
        BY <2>1 DEF Moved, Call, Progress
    <3>2. ASSUME NEW j \in DOMAIN calls, Book(j) PROVE j = i
        BY <2>1, <3>2 DEF Book, Moved
    <3>3. ASSUME NEW n \in Amounts, Draw(n) \/ Repay(n) PROVE FALSE
      <4>1. PICK c : calls' = Append(calls, c)
          BY <3>3 DEF Draw, Repay
      <4>2. calls'[i] = calls[i]
          BY <2>1, <4>1
      <4> QED BY <4>2
    <3>4. ASSUME NEW j \in DOMAIN calls,
                 Execute(j) \/ Refuse(j) \/ TimeOut(j) \/ CommitRaises(j) \/ SessionRaises(j)
          PROVE  FALSE
      <4>1. \E st \in Progress \ {"booked"} : calls' = Moved(j, st)
          BY <3>4 DEF Execute, Refuse, TimeOut, CommitRaises, SessionRaises, Progress
      <4> QED BY <3>1, <4>1
    <3>5. CASE Refresh \/ Revalue
        BY <3>5 DEF Refresh, Revalue
    <3>6. CASE Crash
      <4>1. calls'[i] = [calls[i] EXCEPT !.st = Orphaned(calls[i])]
          BY <3>6 DEF Crash
      <4>2. Orphaned(calls[i]) = "unbooked"
          BY DEF Orphaned
      <4>3. calls'[i].st = "unbooked"
          BY <2>1, <4>1, <4>2 DEF Call
      <4> QED BY <4>3
    <3> QED BY <3>2, <3>3, <3>4, <3>5, <3>6 DEF Next, Resume
  <2>3. drawn' = drawn + calls[i].amount
      BY <2>1, <2>2, SettledBounds DEF Book
  <2>4. calls[i].amount + calls[i].basis <= Limit
      BY DEF IInv, ChecksFit
  <2> QED BY <2>1, <2>3, <2>4
<1> QED BY <1>1, Invariance, PTL DEF Spec, OverdraftIsWhatTheCheckMissed

\* In whatever order answers come back, the balance is the booked draws less
\* the booked repayments, or more where a repayment was cut at 0: no booking is
\* lost to another one.
THEOREM DrawnIsBooked == Spec => []DrawnIsTheBook
<1>1. IInv /\ IInv' /\ TotalIsSum' /\ DrawnIsTheBook /\ [Next]_vars => DrawnIsTheBook'
    BY BookStep
<1> QED BY <1>1, BookInit, TotalDefined, Invariance, PTL DEF Spec

\* A call that the bank executed is missing from the book only after a fault:
\* a collateral API that does not answer costs no CreditTxn.
THEOREM FaultsLoseCalls == Spec => []OnlyFaultsLoseCalls
<1>1. Init => NothingLostBefore
    BY DEF Init, NothingLostBefore
<1>2. IInv /\ NothingLostBefore /\ [Next]_vars => NothingLostBefore'
    BY FaultsStep
<1>3. IInv /\ NothingLostBefore => OnlyFaultsLoseCalls
    BY DEF IInv, TypeOK, NothingLostBefore, OnlyFaultsLoseCalls
<1> QED BY <1>1, <1>2, <1>3, Invariance, PTL DEF Spec
=============================================================================
