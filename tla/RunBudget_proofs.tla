-------------------------- MODULE RunBudget_proofs --------------------------
(***************************************************************************)
(* Proofs about module RunBudget, for every finite set of requests and     *)
(* every limit.                                                            *)
(***************************************************************************)
EXTENDS RunBudget, FiniteSetTheorems, TLAPS

\* What is needed of the sizes of the sets of requests that have passed.
LEMMA PassedSizes ==
    ASSUME BudgetAssumption, TypeOK
    PROVE  /\ IsFiniteSet(passed)
           /\ Cardinality(passed) \in Nat
           /\ Cardinality(Requests) \in Nat
           /\ Cardinality(passed) <= Cardinality(Requests)
  <1>1. IsFiniteSet(passed) /\ Cardinality(passed) <= Cardinality(Requests)
    BY FS_Subset DEF BudgetAssumption, TypeOK
  <1>2. Cardinality(passed) \in Nat /\ Cardinality(Requests) \in Nat
    BY <1>1, FS_CardinalityType DEF BudgetAssumption
  <1>. QED
    BY <1>1, <1>2

\* Every step keeps the types of the budget's state.
LEMMA TypeStep == TypeOK /\ [Next]_vars => TypeOK'
  <1>. SUFFICES ASSUME TypeOK, [Next]_vars
                PROVE  TypeOK'
    OBVIOUS
  <1>1. ASSUME NEW q \in Requests, Pass(q)
        PROVE  TypeOK'
    BY <1>1 DEF TypeOK, Pass
  <1>2. ASSUME NEW q \in Requests, Create(q)
        PROVE  TypeOK'
    BY <1>2 DEF TypeOK, Create
  <1>3. ASSUME NEW Q \in SUBSET Requests, Withdraw(Q)
        PROVE  TypeOK'
    BY <1>3 DEF TypeOK, Withdraw
  <1>4. CASE CreateExempt
    BY <1>4 DEF TypeOK, CreateExempt
  <1>5. CASE Age
    BY <1>5 DEF TypeOK, Age
  <1>6. CASE UNCHANGED vars
    BY <1>6 DEF TypeOK, vars
  <1>. QED
    BY <1>1, <1>2, <1>3, <1>4, <1>5, <1>6 DEF Next

\* The bound is inductive as it stands, given the types: a request that
\* passes has read a count below the limit, and creating a run only moves a
\* request from one summand to the other.
LEMMA OverdraftStep ==
    BudgetAssumption /\ TypeOK /\ OverdraftBounded /\ [Next]_vars => OverdraftBounded'
  <1>. SUFFICES ASSUME BudgetAssumption, TypeOK, OverdraftBounded, [Next]_vars
                PROVE  OverdraftBounded'
    OBVIOUS
  <1>t. TypeOK'
    BY TypeStep
  <1>s. /\ Cardinality(passed) \in Nat
        /\ Cardinality(Requests) \in Nat
        /\ IsFiniteSet(passed)
    BY PassedSizes
  <1>n. /\ counted \in Nat /\ exempt \in Nat /\ MaxRuns \in Nat
        /\ counted' \in Nat
    BY <1>t DEF BudgetAssumption, TypeOK
  <1>1. ASSUME NEW q \in Requests, Pass(q)
        PROVE  OverdraftBounded'
    <2>1. /\ passed' \in SUBSET Requests
          /\ IsFiniteSet(passed')
      BY <1>t, FS_Subset DEF BudgetAssumption, TypeOK
    <2>2. /\ Cardinality(passed') \in Nat
          /\ Cardinality(passed') <= Cardinality(Requests)
      BY <2>1, FS_Subset, FS_CardinalityType DEF BudgetAssumption
    <2>3. counted' = counted /\ counted + exempt < MaxRuns
      BY <1>1 DEF Pass
    <2>. QED
      BY <1>n, <1>s, <2>2, <2>3 DEF OverdraftBounded
  <1>2. ASSUME NEW q \in Requests, Create(q)
        PROVE  OverdraftBounded'
    <2>1. /\ q \in passed
          /\ passed' = passed \ {q}
          /\ counted' = counted + 1
      BY <1>2 DEF Create
    <2>2. Cardinality(passed') = Cardinality(passed) - 1
      BY <1>s, <2>1, FS_RemoveElement
    <2>. QED
      BY <1>n, <1>s, <2>1, <2>2 DEF OverdraftBounded
  <1>3. ASSUME NEW Q \in SUBSET Requests, Withdraw(Q)
        PROVE  OverdraftBounded'
    <2>1. passed' \in SUBSET passed /\ counted' = counted
      BY <1>3 DEF Withdraw
    <2>2. /\ Cardinality(passed') <= Cardinality(passed)
          /\ Cardinality(passed') \in Nat
      BY <1>s, <2>1, FS_Subset, FS_CardinalityType
    <2>. QED
      BY <1>n, <1>s, <2>1, <2>2 DEF OverdraftBounded
  <1>4. CASE CreateExempt
    BY <1>4 DEF CreateExempt, OverdraftBounded
  <1>5. CASE Age
    <2>1. counted' <= counted /\ passed' = passed
      BY <1>5, <1>n DEF Age
    <2>. QED
      BY <1>n, <1>s, <2>1 DEF OverdraftBounded
  <1>6. CASE UNCHANGED vars
    BY <1>6 DEF OverdraftBounded, vars
  <1>. QED
    BY <1>1, <1>2, <1>3, <1>4, <1>5, <1>6 DEF Next

\* The budget's state has its types in every reachable state.
THEOREM TypeCorrect == Spec => []TypeOK
  <1>1. Init => TypeOK
    BY DEF Init, TypeOK
  <1>. QED
    BY <1>1, TypeStep, PTL DEF Spec

\* However requests interleave and however many doors ask for no budget, the
\* runs that did ask exceed the limit by less than the requests in flight.
THEOREM OverdraftIsBounded == BudgetAssumption => (Spec => []OverdraftBounded)
  <1>. SUFFICES ASSUME BudgetAssumption
                PROVE  Spec => []OverdraftBounded
    OBVIOUS
  <1>1. Init => TypeOK /\ OverdraftBounded
    <2>. SUFFICES ASSUME Init
                  PROVE  TypeOK /\ OverdraftBounded
      OBVIOUS
    <2>1. Cardinality(Requests) \in Nat /\ Cardinality(Requests) # 0
      BY FS_CardinalityType, FS_EmptySet DEF BudgetAssumption
    <2>2. Cardinality(passed) = 0
      BY FS_EmptySet DEF Init
    <2>. QED
      BY <2>1, <2>2 DEF BudgetAssumption, Init, TypeOK, OverdraftBounded
  <1>2. TypeOK /\ OverdraftBounded /\ [Next]_vars => (TypeOK /\ OverdraftBounded)'
    BY TypeStep, OverdraftStep
  <1>. QED
    BY <1>1, <1>2, PTL DEF Spec

=============================================================================
