------------------------ MODULE SpendBalancesProofs ------------------------
(***************************************************************************)
(* Proofs about spend accounts, for every number of runs, every set of     *)
(* accounts in any units, every rates and every call.                      *)
(***************************************************************************)
EXTENDS SpendBalances, NatLemmas, FiniteSetTheorems

-----------------------------------------------------------------------------
(* The sum of the runs' reservations *)

IsSum(f, rv, a) ==
    f = [i \in 0..NumRuns |-> IF i = 0 THEN 0 ELSE f[i - 1] + rv[i][a]]

(* The recursive definition of Total defines a function. *)
LEMMA TotalDefined ==
    ASSUME NEW rv, NEW a
    PROVE  \E f : IsSum(f, rv, a) /\ Total(rv, a) = f[NumRuns]
<1> DEFINE Step(x, i) == x + rv[i][a]
           Solves(f, n) == \A i \in 0..n : f[i] = IF i = 0 THEN 0 ELSE Step(f[i - 1], i)
           A == {n \in Nat : \E f : Solves(f, n)}
<1>1. \A n \in Nat : n \in A
  <2> HIDE DEF Step
  <2>1. 0 \in A
    <3>1. Solves([i \in 0..0 |-> 0], 0)
      OBVIOUS
    <3> QED
      BY <3>1
  <2>2. ASSUME NEW n \in Nat, n \in A PROVE n + 1 \in A
    <3>1. PICK f : Solves(f, n)
      BY <2>2
    <3> DEFINE g == [i \in 0..(n + 1) |-> IF i <= n THEN f[i] ELSE Step(f[i - 1], i)]
    <3>2. Solves(g, n + 1)
      <4> SUFFICES ASSUME NEW i \in 0..(n + 1)
                   PROVE  g[i] = IF i = 0 THEN 0 ELSE Step(g[i - 1], i)
        OBVIOUS
      <4>1. i = 0 \/ g[i - 1] = f[i - 1]
        OBVIOUS
      <4> QED
        BY <3>1, <4>1
    <3> HIDE DEF Solves
    <3> QED
      BY <3>2
  <2> HIDE DEF A
  <2> QED
    BY <2>1, <2>2, SetInduction
<1>2. PICK g : Solves(g, NumRuns)
  BY <1>1, RunAssumption
<1> DEFINE h == [i \in 0..NumRuns |-> g[i]]
<1>3. IsSum(h, rv, a)
  <2> HIDE DEF Step
  <2>1. \A i \in 0..NumRuns : h[i] = IF i = 0 THEN 0 ELSE Step(h[i - 1], i)
    <3> SUFFICES ASSUME NEW i \in 0..NumRuns
                 PROVE  h[i] = IF i = 0 THEN 0 ELSE Step(h[i - 1], i)
      OBVIOUS
    <3>1. i = 0 \/ h[i - 1] = g[i - 1]
      BY RunAssumption
    <3> QED
      BY <1>2, <3>1
  <2> QED
    BY <2>1 DEF IsSum, Step
<1>4. Total(rv, a) = (CHOOSE k : IsSum(k, rv, a))[NumRuns]
  BY DEF Total, IsSum
<1>5. IsSum(CHOOSE k : IsSum(k, rv, a), rv, a)
  BY <1>3
<1> QED
  BY <1>4, <1>5

(* A total of naturals is a natural, bounds each of its parts, and is 0 when
   they all are. *)
LEMMA TotalBounds ==
    ASSUME NEW rv, NEW a, \A r \in Runs : rv[r][a] \in Nat
    PROVE  /\ Total(rv, a) \in Nat
           /\ \A r \in Runs : rv[r][a] <= Total(rv, a)
           /\ (\A r \in Runs : rv[r][a] = 0) => Total(rv, a) = 0
<1>1. PICK f : IsSum(f, rv, a) /\ Total(rv, a) = f[NumRuns]
  BY TotalDefined
<1> DEFINE Good(n) == /\ f[n] \in Nat
                      /\ \A r \in 1..n : rv[r][a] <= f[n]
                      /\ (\A r \in 1..n : rv[r][a] = 0) => f[n] = 0
           B == {n \in Nat : n <= NumRuns => Good(n)}
<1>2. \A n \in Nat : n \in B
  <2>1. 0 \in B
    BY <1>1, RunAssumption DEF IsSum
  <2>2. ASSUME NEW n \in Nat, n \in B PROVE n + 1 \in B
    <3> SUFFICES ASSUME n + 1 <= NumRuns PROVE Good(n + 1)
      OBVIOUS
    <3>1. Good(n)
      BY <2>2, RunAssumption
    <3>2. f[n + 1] = f[n] + rv[n + 1][a]
      BY <1>1, RunAssumption DEF IsSum
    <3>3. \A r \in 1..(n + 1) : rv[r][a] \in Nat
      BY RunAssumption DEF Runs
    <3>4. rv[n + 1][a] \in Nat
      BY <3>3
    <3>5. \A r \in 1..(n + 1) : r = n + 1 \/ r \in 1..n
      OBVIOUS
    <3> QED
      BY <3>1, <3>2, <3>3, <3>4, <3>5
  <2> HIDE DEF B
  <2> QED
    BY <2>1, <2>2, SetInduction
<1>3. Good(NumRuns)
  BY <1>2, RunAssumption
<1> QED
  BY <1>1, <1>3 DEF Runs

(* Replacing one run's reservation moves the total by the difference. *)
LEMMA TotalUpdate ==
    ASSUME NEW rv \in [Runs -> [Accounts -> Nat]], NEW a \in Accounts,
           NEW r \in Runs, NEW x \in [Accounts -> Nat]
    PROVE  Total([rv EXCEPT ![r] = x], a) = Total(rv, a) - rv[r][a] + x[a]
<1> DEFINE rw == [rv EXCEPT ![r] = x]
<1>1. PICK f : IsSum(f, rv, a) /\ Total(rv, a) = f[NumRuns]
  BY TotalDefined
<1>2. PICK g : IsSum(g, rw, a) /\ Total(rw, a) = g[NumRuns]
  BY TotalDefined
<1>3. /\ rw[r][a] = x[a] /\ \A s \in Runs : s # r => rw[s][a] = rv[s][a]
      /\ \A s \in Runs : rv[s][a] \in Nat /\ rw[s][a] \in Nat
  OBVIOUS
<1> HIDE DEF rw
<1> DEFINE Good(n) == /\ f[n] \in Int /\ g[n] \in Int
                      /\ g[n] = f[n] + (IF r <= n THEN x[a] - rv[r][a] ELSE 0)
           B == {n \in Nat : n <= NumRuns => Good(n)}
<1>4. \A n \in Nat : n \in B
  <2>1. 0 \in B
    BY <1>1, <1>2, RunAssumption DEF IsSum, Runs
  <2>2. ASSUME NEW n \in Nat, n \in B PROVE n + 1 \in B
    <3> SUFFICES ASSUME n + 1 <= NumRuns PROVE Good(n + 1)
      OBVIOUS
    <3>1. Good(n)
      BY <2>2, RunAssumption
    <3>2. f[n + 1] = f[n] + rv[n + 1][a] /\ g[n + 1] = g[n] + rw[n + 1][a]
      BY <1>1, <1>2, RunAssumption DEF IsSum
    <3>3. n + 1 \in Runs
      BY RunAssumption DEF Runs
    <3>4. rv[n + 1][a] \in Nat /\ rw[n + 1][a] \in Nat /\ rv[r][a] \in Nat /\ x[a] \in Nat
      BY <1>3, <3>3
    <3>5. r \in Nat
      BY RunAssumption DEF Runs
    <3>6. CASE r = n + 1
      BY <1>3, <3>1, <3>2, <3>4, <3>5, <3>6
    <3>7. CASE r # n + 1
      <4>1. rw[n + 1][a] = rv[n + 1][a]
        BY <1>3, <3>3, <3>7
      <4>2. r <= n + 1 <=> r <= n
        BY <3>5, <3>7
      <4> QED
        BY <3>1, <3>2, <3>4, <4>1, <4>2
    <3> QED
      BY <3>6, <3>7
  <2> HIDE DEF B
  <2> QED
    BY <2>1, <2>2, SetInduction
<1>5. Good(NumRuns)
  BY <1>4, RunAssumption
<1>6. r <= NumRuns /\ rv[r][a] \in Nat /\ x[a] \in Nat
  BY RunAssumption, <1>3 DEF Runs
<1> QED
  BY <1>1, <1>2, <1>5, <1>6 DEF rw

-----------------------------------------------------------------------------
(* What a call costs *)

(* Rates are naturals, so the cost of a call is one. *)
LEMMA CostTypes ==
    ASSUME NEW r \in Runs, NEW a \in Accounts
    PROVE  /\ InputRate(r, a) \in Nat /\ OutputRate(r, a) \in Nat
           /\ \A i, o \in Nat : ProjectedCost(r, a, i, o) \in Nat
<1>1. InputRate(r, a) \in Nat /\ OutputRate(r, a) \in Nat
  BY RateAssumption, UnitAssumption DEF InputRate, OutputRate
<1> QED
  BY <1>1 DEF ProjectedCost

(* A granted call's worst case fits every account it names: the clamp of the
   output, rounded down, undoes the price. *)
LEMMA GrantFits ==
    ASSUME TypeOK, NEW r \in Runs, NEW input \in Tokens, NEW maxOutput \in Tokens,
           NEW out \in Tokens, IsGrant(r, input, maxOutput, out), NEW a \in Names[r]
    PROVE  ProjectedCost(r, a, input, out) <= Available(r, a)
<1> DEFINE ri == InputRate(r, a)
           ro == OutputRate(r, a)
           av == Available(r, a)
<1>1. a \in Accounts
  BY NameAssumption
<1>2. ri \in Nat /\ ro \in Nat
  BY <1>1, CostTypes
<1>3. av \in Int
  BY <1>1 DEF TypeOK, Available, ReservedWithout
<1>4. input \in Nat /\ out \in Nat
  BY BoundAssumption DEF Tokens
<1>5. input * ri <= av
  BY DEF IsGrant, InputFits
<1>6. input * ri \in Nat
  BY <1>2, <1>4
<1>7. CASE ro = 0
  BY <1>3, <1>4, <1>5, <1>6, <1>7 DEF ProjectedCost
<1>8. CASE ro # 0
  <2>1. out <= (av - input * ri) \div ro
    BY <1>8 DEF IsGrant, OutputAllowance
  <2>2. av - input * ri \in Nat
    BY <1>3, <1>5, <1>6
  <2> HIDE DEF ri, ro, av
  <2>3. out * ro <= av - input * ri
    BY <1>2, <1>4, <1>8, <2>1, <2>2, DivTimes
  <2>4. out * ro \in Int
    BY <1>2, <1>4
  <2> QED
    BY <1>3, <1>6, <2>3, <2>4 DEF ProjectedCost, ri, ro, av
<1> QED
  BY <1>7, <1>8

(* What a call is charged is within its reservation, apart from the input beyond
   its projection. *)
LEMMA ChargeFits ==
    ASSUME NEW r \in Runs, NEW a \in Names[r],
           call[r].input \in Nat, call[r].output \in Nat,
           NEW input \in Nat, NEW output \in Nat, output <= call[r].output
    PROVE  ProjectedCost(r, a, input, output) <=
             ProjectedCost(r, a, call[r].input, call[r].output) + Beyond(r, a, input)
<1> DEFINE ri == InputRate(r, a)
           ro == OutputRate(r, a)
           ci == call[r].input
           co == call[r].output
<1>1. ri \in Nat /\ ro \in Nat
  BY NameAssumption, CostTypes
<1> HIDE DEF ri, ro, ci, co
<1>2. ci \in Nat /\ co \in Nat /\ output <= co
  BY DEF ci, co
<1>3. output * ro <= co * ro
  BY <1>1, <1>2, TimesMonotone
<1>4. input * ri \in Nat /\ output * ro \in Nat /\ ci * ri \in Nat /\ co * ro \in Nat
  BY <1>1, <1>2
<1>5. CASE input > ci
  <2>1. Beyond(r, a, input) = (input - ci) * ri
    BY <1>5 DEF Beyond, ri, ci
  <2>2. (input - ci) * ri = input * ri - ci * ri
    BY <1>1, <1>2
  <2> QED
    BY <1>3, <1>4, <2>1, <2>2 DEF ProjectedCost, ri, ro, ci, co
<1>6. CASE ~(input > ci)
  <2>1. Beyond(r, a, input) = 0
    BY <1>6 DEF Beyond, ci
  <2>2. input * ri <= ci * ri
    BY <1>1, <1>2, <1>6, TimesMonotone
  <2> QED
    BY <1>3, <1>4, <2>1, <2>2 DEF ProjectedCost, ri, ro, ci, co
<1> QED
  BY <1>5, <1>6

-----------------------------------------------------------------------------
(* The inductive invariant *)

Holding(a) == {r \in Runs : hold[r] = "open" /\ a \in Names[r]}

(* A call in flight reserves exactly its projected cost, in the accounts its run
   names and in no other. *)
CallsReserved ==
    \A r \in Runs :
        /\ call[r] # NoCall => hold[r] = "open" /\ call[r].input \in Tokens /\ call[r].output \in Tokens
        /\ \A a \in Accounts :
              reservation[r][a] = IF a \in Names[r] /\ call[r] # NoCall
                                  THEN ProjectedCost(r, a, call[r].input, call[r].output)
                                  ELSE 0

Types ==
    /\ holders \in [Accounts -> Nat]
    /\ balance \in [Accounts -> Int]
    /\ reserved \in [Accounts -> Int]
    /\ excess \in [Accounts -> Nat]
    /\ hold \in [Runs -> {"closed", "open"}]
    /\ reservation \in [Runs -> [Accounts -> Nat]]
    /\ call \in [Runs -> [input : Tokens \cup {-1}, output : Tokens \cup {-1}]]

Summed == \A a \in Accounts : reserved[a] = Total(reservation, a)

Counted == \A a \in Accounts : holders[a] = Cardinality(Holding(a))

IInv == Types /\ Summed /\ Counted /\ CallsReserved /\ NotOverspent

(* The invariant implies the properties the model checker verifies. *)
LEMMA IInvImplies ==
    ASSUME IInv
    PROVE  TypeOK /\ ReservationsAccounted /\ NotOverspent
<1>1. \A a \in Accounts : \A r \in Runs : reservation[r][a] \in Nat
  BY DEF IInv, Types
<1>2. \A a \in Accounts : reserved[a] \in Nat
  BY <1>1, TotalBounds DEF IInv, Summed
<1>3. TypeOK
  BY <1>2 DEF IInv, Types, TypeOK
<1>4. ReservationsAccounted
  <2> SUFFICES ASSUME NEW a \in Accounts
               PROVE  /\ reserved[a] = Total(reservation, a)
                      /\ holders[a] = Cardinality(Holding(a))
                      /\ \A r \in Runs : reservation[r][a] > 0 => hold[r] = "open" /\ call[r] # NoCall
    BY DEF ReservationsAccounted, Holding
  <2>1. ASSUME NEW r \in Runs, reservation[r][a] > 0
        PROVE  hold[r] = "open" /\ call[r] # NoCall
    BY <2>1 DEF IInv, CallsReserved
  <2> QED
    BY <2>1 DEF IInv, Summed, Counted
<1> QED
  BY <1>3, <1>4 DEF IInv

(* The runs are finitely many, and so are those that hold an account. *)
LEMMA HoldingFinite ==
    \A a \in Accounts : IsFiniteSet(Holding(a)) /\ Cardinality(Holding(a)) \in Nat
<1>1. IsFiniteSet(Runs)
  BY RunAssumption, FS_Interval DEF Runs
<1>2. \A a \in Accounts : Holding(a) \subseteq Runs
  BY DEF Holding
<1> QED
  BY <1>1, <1>2, FS_Subset, FS_CardinalityType

(* An account nobody holds has nothing reserved. *)
LEMMA UnheldUnreserved ==
    ASSUME IInv, NEW a \in Accounts, holders[a] = 0
    PROVE  reserved[a] = 0
<1>1. Holding(a) = {}
  BY HoldingFinite, FS_EmptySet DEF IInv, Counted
<1>2. \A r \in Runs : reservation[r][a] = 0
  BY <1>1 DEF IInv, CallsReserved, Holding
<1> QED
  BY <1>2, TotalBounds DEF IInv, Summed

(* Dropping a run's reservation drops it from the totals. *)
LEMMA UnreserveSummed ==
    ASSUME IInv, NEW r \in Runs,
           reserved' = [a \in Accounts |-> ReservedWithout(r, a)],
           reservation' = [reservation EXCEPT ![r] = Nothing]
    PROVE  /\ Summed'
           /\ reserved' \in [Accounts -> Int]
           /\ reservation' \in [Runs -> [Accounts -> Nat]]
           /\ \A a \in Accounts : reserved'[a] = reserved[a] - reservation[r][a]
           /\ \A a \in Accounts : reservation'[r][a] = 0
           /\ \A s \in Runs : s # r => reservation'[s] = reservation[s]
<1>1. Nothing \in [Accounts -> Nat] /\ \A a \in Accounts : Nothing[a] = 0
  BY DEF Nothing
<1> HIDE DEF Nothing
<1>2. \A a \in Accounts : reserved'[a] = reserved[a] - reservation[r][a]
  BY DEF ReservedWithout
<1>3. \A a \in Accounts : reserved[a] \in Int /\ reservation[r][a] \in Nat
  BY DEF IInv, Types
<1>4. \A a \in Accounts :
          Total(reservation', a) = Total(reservation, a) - reservation[r][a] + Nothing[a]
  BY <1>1, TotalUpdate DEF IInv, Types
<1>5. Summed'
  <2>1. \A a \in Accounts : reserved[a] = Total(reservation, a)
    BY DEF IInv, Summed
  <2>2. ASSUME NEW a \in Accounts PROVE reserved'[a] = Total(reservation', a)
    <3>1. Total(reservation', a) = reserved[a] - reservation[r][a] + 0
      BY <1>1, <1>4, <2>1
    <3>2. reserved'[a] = reserved[a] - reservation[r][a]
      BY <1>2
    <3>3. reserved[a] - reservation[r][a] \in Int
      BY <1>3
    <3> QED
      BY <3>1, <3>2, <3>3
  <2> QED
    BY <2>2 DEF Summed
<1>6. reserved' \in [Accounts -> Int]
  BY <1>3 DEF ReservedWithout
<1> QED
  BY <1>1, <1>2, <1>5, <1>6 DEF IInv, Types

(* Initially no account is open. *)
LEMMA InitIInv == Init => IInv
<1> SUFFICES ASSUME Init PROVE IInv
  OBVIOUS
<1>1. Types
  BY BoundAssumption DEF Init, Types, Nothing, NoCall, Tokens
<1>2. \A a \in Accounts : \A r \in Runs : reservation[r][a] = 0
  BY DEF Init, Nothing
<1>3. Summed
  BY <1>2, TotalBounds DEF Summed, Init, Nothing
<1>4. Counted
  <2>1. \A a \in Accounts : Holding(a) = {}
    BY DEF Init, Holding
  <2> QED
    BY <2>1, FS_EmptySet DEF Counted, Init, Nothing
<1>5. CallsReserved
  BY <1>2 DEF CallsReserved, Init
<1>6. NotOverspent
  BY DEF NotOverspent, Init, Nothing
<1> QED
  BY <1>1, <1>3, <1>4, <1>5, <1>6 DEF IInv

(* A hold that opens or is released moves the counts of the accounts it names. *)
LEMMA HoldCounted ==
    ASSUME IInv, NEW r \in Runs, NEW st \in {"closed", "open"},
           hold' = [hold EXCEPT ![r] = st],
           \/ /\ hold[r] # "open" /\ st = "open"
              /\ holders' = [a \in Accounts |-> IF a \in Names[r] THEN holders[a] + 1 ELSE holders[a]]
           \/ /\ hold[r] = "open" /\ st # "open"
              /\ holders' = [a \in Accounts |-> IF a \in Names[r] THEN holders[a] - 1 ELSE holders[a]]
    PROVE  Counted' /\ holders' \in [Accounts -> Nat]
<1>1. hold \in [Runs -> {"closed", "open"}] /\ holders \in [Accounts -> Nat]
  BY DEF IInv, Types
<1> SUFFICES ASSUME NEW a \in Accounts
             PROVE  holders'[a] = Cardinality(Holding(a)') /\ holders'[a] \in Nat
  BY DEF Counted
<1>2. IsFiniteSet(Holding(a)) /\ holders[a] = Cardinality(Holding(a)) /\ Cardinality(Holding(a)) \in Nat
  BY HoldingFinite DEF IInv, Counted
<1>3. CASE a \notin Names[r]
  <2>1. Holding(a)' = Holding(a)
    BY <1>1, <1>3 DEF Holding
  <2> QED
    BY <1>1, <1>2, <1>3, <2>1
<1>4. CASE a \in Names[r] /\ st = "open"
  <2>1. Holding(a)' = Holding(a) \cup {r} /\ r \notin Holding(a)
    BY <1>1, <1>4 DEF Holding
  <2>2. Cardinality(Holding(a)') = Cardinality(Holding(a)) + 1
    BY <1>2, <2>1, FS_AddElement
  <2> QED
    BY <1>1, <1>2, <1>4, <2>2
<1>5. CASE a \in Names[r] /\ st # "open"
  <2>1. Holding(a)' = Holding(a) \ {r} /\ r \in Holding(a)
    BY <1>1, <1>5 DEF Holding
  <2>2. /\ IsFiniteSet(Holding(a)')
        /\ Cardinality(Holding(a)') = Cardinality(Holding(a)) - 1
    BY <1>2, <2>1, FS_RemoveElement
  <2>3. Cardinality(Holding(a)') \in Nat
    BY <2>2, FS_CardinalityType
  <2> QED
    BY <1>1, <1>2, <1>5, <2>2, <2>3
<1> QED
  BY <1>3, <1>4, <1>5

LEMMA OpenIInv ==
    ASSUME IInv, NEW r \in Runs, NEW remaining \in [Accounts -> Nat], Open(r, remaining)
    PROVE  IInv'
<1>1. Counted' /\ holders' \in [Accounts -> Nat]
  BY HoldCounted DEF Open
<1>2. Types'
  BY <1>1, BoundAssumption DEF IInv, Types, Open
<1>3. Summed'
  BY DEF IInv, Summed, Open
<1>4. CallsReserved'
  <2>1. \A s \in Runs : hold[s] = "open" => hold'[s] = "open"
    BY DEF IInv, Types, Open
  <2> QED
    BY <2>1 DEF IInv, CallsReserved, Open
<1>5. NotOverspent'
  <2> SUFFICES ASSUME NEW a \in Accounts PROVE reserved'[a] <= balance'[a] + excess'[a]
    BY DEF NotOverspent
  <2>1. reserved'[a] = reserved[a] /\ remaining[a] \in Nat
    BY BoundAssumption DEF Open
  <2>2. CASE a \in Names[r] /\ holders[a] = 0
    <3>1. reserved[a] = 0
      BY <2>2, UnheldUnreserved
    <3> QED
      BY <2>1, <2>2, <3>1 DEF Open
  <2>3. CASE ~(a \in Names[r] /\ holders[a] = 0)
    BY <2>1, <2>3 DEF Open, IInv, NotOverspent
  <2> QED
    BY <2>2, <2>3
<1> QED
  BY <1>1, <1>2, <1>3, <1>4, <1>5 DEF IInv

LEMMA GrantedIInv ==
    ASSUME IInv, NEW r \in Runs, NEW input \in Tokens, NEW maxOutput \in Tokens,
           NEW minOutput \in Tokens, NEW out \in Tokens,
           CheckGranted(r, input, maxOutput, minOutput, out)
    PROVE  IInv'
<1> DEFINE amount == [a \in Accounts |->
                         IF a \in Names[r] THEN ProjectedCost(r, a, input, out) ELSE 0]
<1>1. TypeOK
  BY IInvImplies
<1>2. amount \in [Accounts -> Nat]
  <2>1. input \in Nat /\ out \in Nat
    BY BoundAssumption DEF Tokens
  <2> QED
    BY <2>1, CostTypes
<1>3. \A a \in Accounts : amount[a] = IF a \in Names[r] THEN ProjectedCost(r, a, input, out) ELSE 0
  OBVIOUS
<1>4. /\ hold[r] = "open"
      /\ IsGrant(r, input, maxOutput, out)
      /\ reserved' = [a \in Accounts |-> ReservedWithout(r, a) + amount[a]]
      /\ reservation' = [reservation EXCEPT ![r] = amount]
      /\ call' = [call EXCEPT ![r] = [input |-> input, output |-> out]]
      /\ UNCHANGED <<holders, balance, hold, excess>>
  BY DEF CheckGranted
<1> HIDE DEF amount
<1>5. \A a \in Accounts : reserved'[a] = reserved[a] - reservation[r][a] + amount[a]
  BY <1>4 DEF ReservedWithout
<1>6. \A a \in Accounts : /\ reserved[a] \in Int /\ reservation[r][a] \in Nat
                           /\ amount[a] \in Nat /\ balance[a] \in Int /\ excess[a] \in Nat
  BY <1>2 DEF IInv, Types
<1>7. Types'
  <2>1. reserved' \in [Accounts -> Int]
    BY <1>4, <1>6 DEF ReservedWithout
  <2>2. reservation' \in [Runs -> [Accounts -> Nat]]
    BY <1>2, <1>4 DEF IInv, Types
  <2>3. call' \in [Runs -> [input : Tokens \cup {-1}, output : Tokens \cup {-1}]]
    BY <1>4 DEF IInv, Types
  <2> QED
    BY <1>4, <2>1, <2>2, <2>3 DEF IInv, Types
<1>8. Summed'
  <2>1. \A a \in Accounts : Total(reservation', a) = Total(reservation, a) - reservation[r][a] + amount[a]
    BY <1>2, <1>4, TotalUpdate DEF IInv, Types
  <2> QED
    BY <1>5, <2>1 DEF IInv, Summed
<1>9. Counted'
  BY <1>4 DEF IInv, Counted, Holding
<1>10. CallsReserved'
  <2> SUFFICES ASSUME NEW s \in Runs
               PROVE  /\ call'[s] # NoCall => /\ hold'[s] = "open"
                                              /\ call'[s].input \in Tokens
                                              /\ call'[s].output \in Tokens
                      /\ \A a \in Accounts :
                            reservation'[s][a] = IF a \in Names[s] /\ call'[s] # NoCall
                                                 THEN ProjectedCost(s, a, call'[s].input, call'[s].output)
                                                 ELSE 0
    BY DEF CallsReserved, ProjectedCost, InputRate, OutputRate
  <2>1. CASE s = r
    <3>1. call'[r] = [input |-> input, output |-> out] /\ reservation'[r] = amount
      BY <1>4 DEF IInv, Types
    <3>2. call'[r] # NoCall
      BY <3>1, BoundAssumption DEF NoCall, Tokens
    <3> QED
      BY <1>3, <1>4, <2>1, <3>1, <3>2
  <2>2. CASE s # r
    <3>1. call'[s] = call[s] /\ reservation'[s] = reservation[s] /\ hold'[s] = hold[s]
      BY <1>4, <2>2 DEF IInv, Types
    <3> QED
      BY <3>1 DEF IInv, CallsReserved
  <2> QED
    BY <2>1, <2>2
<1>11. NotOverspent'
  <2> SUFFICES ASSUME NEW a \in Accounts PROVE reserved'[a] <= balance'[a] + excess'[a]
    BY DEF NotOverspent
  <2>1. CASE a \in Names[r]
    <3>1. amount[a] <= balance[a] - (reserved[a] - reservation[r][a])
      BY <1>1, <1>3, <1>4, <2>1, GrantFits DEF Available, ReservedWithout
    <3> QED
      BY <1>4, <1>5, <1>6, <3>1
  <2>2. CASE a \notin Names[r]
    <3>1. amount[a] = 0 /\ reservation[r][a] = 0
      BY <1>3, <2>2 DEF IInv, CallsReserved
    <3> QED
      BY <1>4, <1>5, <1>6, <3>1 DEF IInv, NotOverspent
  <2> QED
    BY <2>1, <2>2
<1> QED
  BY <1>7, <1>8, <1>9, <1>10, <1>11 DEF IInv

(* A run without a call reserves nothing; the other runs' calls are untouched. *)
LEMMA CallEnds ==
    ASSUME IInv, NEW r \in Runs,
           call' = [call EXCEPT ![r] = NoCall],
           \A s \in Runs : s # r => hold'[s] = hold[s],
           \A a \in Accounts : reservation'[r][a] = 0,
           \A s \in Runs : s # r => reservation'[s] = reservation[s]
    PROVE  /\ CallsReserved'
           /\ call' \in [Runs -> [input : Tokens \cup {-1}, output : Tokens \cup {-1}]]
<1>1. call \in [Runs -> [input : Tokens \cup {-1}, output : Tokens \cup {-1}]]
  BY DEF IInv, Types
<1>2. NoCall \in [input : Tokens \cup {-1}, output : Tokens \cup {-1}]
  BY DEF NoCall
<1>3. call' \in [Runs -> [input : Tokens \cup {-1}, output : Tokens \cup {-1}]]
  BY <1>1, <1>2
<1> SUFFICES ASSUME NEW s \in Runs
             PROVE  /\ call'[s] # NoCall => /\ hold'[s] = "open"
                                            /\ call'[s].input \in Tokens
                                            /\ call'[s].output \in Tokens
                    /\ \A a \in Accounts :
                          reservation'[s][a] = IF a \in Names[s] /\ call'[s] # NoCall
                                               THEN ProjectedCost(s, a, call'[s].input, call'[s].output)
                                               ELSE 0
  BY <1>3 DEF CallsReserved, ProjectedCost, InputRate, OutputRate
<1>4. CASE s = r
  BY <1>1, <1>4
<1>5. CASE s # r
  <2>1. call'[s] = call[s]
    BY <1>1, <1>5
  <2> QED
    BY <1>5, <2>1 DEF IInv, CallsReserved
<1> QED
  BY <1>4, <1>5

LEMMA RefusedIInv ==
    ASSUME IInv, NEW r \in Runs, NEW input, NEW maxOutput, NEW minOutput,
           CheckRefused(r, input, maxOutput, minOutput)
    PROVE  IInv'
<1>1. /\ reserved' = [a \in Accounts |-> ReservedWithout(r, a)]
      /\ reservation' = [reservation EXCEPT ![r] = Nothing]
      /\ call' = [call EXCEPT ![r] = NoCall]
      /\ UNCHANGED <<holders, balance, hold, excess>>
  BY DEF CheckRefused, Unreserve
<1>2. /\ Summed'
      /\ reserved' \in [Accounts -> Int]
      /\ reservation' \in [Runs -> [Accounts -> Nat]]
      /\ \A a \in Accounts : reserved'[a] = reserved[a] - reservation[r][a]
      /\ \A a \in Accounts : reservation'[r][a] = 0
      /\ \A s \in Runs : s # r => reservation'[s] = reservation[s]
  BY <1>1, UnreserveSummed
<1>3. /\ CallsReserved'
      /\ call' \in [Runs -> [input : Tokens \cup {-1}, output : Tokens \cup {-1}]]
  BY <1>1, <1>2, CallEnds
<1>4. Types'
  BY <1>1, <1>2, <1>3 DEF IInv, Types
<1>5. Counted'
  BY <1>1 DEF IInv, Counted, Holding
<1>6. NotOverspent'
  <2> SUFFICES ASSUME NEW a \in Accounts PROVE reserved'[a] <= balance'[a] + excess'[a]
    BY DEF NotOverspent
  <2>1. /\ reserved[a] \in Int /\ reservation[r][a] \in Nat /\ balance[a] \in Int /\ excess[a] \in Nat
        /\ reserved[a] <= balance[a] + excess[a]
    BY DEF IInv, Types, NotOverspent
  <2> QED
    BY <1>1, <1>2, <2>1
<1> QED
  BY <1>2, <1>3, <1>4, <1>5, <1>6 DEF IInv

LEMMA DebitIInv ==
    ASSUME IInv, NEW r \in Runs, NEW input \in Tokens, NEW output \in Tokens,
           NEW cost \in Costs(r, input, output), Debit(r, input, output, cost)
    PROVE  IInv'
<1>1. /\ call[r] # NoCall /\ output <= call[r].output
      /\ reserved' = [a \in Accounts |-> ReservedWithout(r, a)]
      /\ reservation' = [reservation EXCEPT ![r] = Nothing]
      /\ balance' = [a \in Accounts |-> balance[a] - cost[a]]
      /\ excess' = [a \in Accounts |-> excess[a] + Beyond(r, a, input)]
      /\ call' = [call EXCEPT ![r] = NoCall]
      /\ UNCHANGED <<holders, hold>>
  BY DEF Debit, Unreserve
<1>2. /\ Summed'
      /\ reserved' \in [Accounts -> Int]
      /\ reservation' \in [Runs -> [Accounts -> Nat]]
      /\ \A a \in Accounts : reserved'[a] = reserved[a] - reservation[r][a]
      /\ \A a \in Accounts : reservation'[r][a] = 0
      /\ \A s \in Runs : s # r => reservation'[s] = reservation[s]
  BY <1>1, UnreserveSummed
<1>3. /\ CallsReserved'
      /\ call' \in [Runs -> [input : Tokens \cup {-1}, output : Tokens \cup {-1}]]
  BY <1>1, <1>2, CallEnds
<1>4. input \in Nat /\ output \in Nat /\ call[r].input \in Nat /\ call[r].output \in Nat
  BY <1>1, BoundAssumption DEF IInv, CallsReserved, Tokens
<1>5. ASSUME NEW a \in Accounts
      PROVE  /\ cost[a] \in Nat /\ Beyond(r, a, input) \in Nat
             /\ cost[a] <= reservation[r][a] + Beyond(r, a, input)
  <2>1. cost[a] \in Nat
    BY BoundAssumption DEF Costs
  <2>2. InputRate(r, a) \in Nat
    BY CostTypes
  <2>3. Beyond(r, a, input) \in Nat
    <3>1. input > call[r].input => input - call[r].input \in Nat
      BY <1>4
    <3> QED
      BY <2>2, <3>1 DEF Beyond
  <2>4. CASE a \in Names[r]
    <3>1. reservation[r][a] = ProjectedCost(r, a, call[r].input, call[r].output)
      BY <1>1, <2>4 DEF IInv, CallsReserved
    <3>2. ProjectedCost(r, a, input, output) <= reservation[r][a] + Beyond(r, a, input)
      BY <1>1, <1>4, <2>4, <3>1, ChargeFits
    <3>3. ProjectedCost(r, a, input, output) \in Nat
      BY <1>4, CostTypes
    <3>4. cost[a] <= ProjectedCost(r, a, input, output)
      BY <2>1, <2>4, <3>3 DEF Costs
    <3>5. reservation[r][a] \in Nat
      BY DEF IInv, Types
    <3> QED
      BY <2>1, <2>3, <3>2, <3>3, <3>4, <3>5
  <2>5. CASE a \notin Names[r]
    <3>1. cost[a] = 0
      BY <2>5 DEF Costs
    <3>2. reservation[r][a] \in Nat
      BY DEF IInv, Types
    <3> QED
      BY <2>1, <2>3, <3>1, <3>2
  <2> QED
    BY <2>4, <2>5
<1>6. Types'
  <2>1. balance' \in [Accounts -> Int]
    BY <1>1, <1>5 DEF IInv, Types
  <2>2. excess' \in [Accounts -> Nat]
    BY <1>1, <1>5 DEF IInv, Types
  <2> QED
    BY <1>1, <1>2, <1>3, <2>1, <2>2 DEF IInv, Types
<1>7. Counted'
  BY <1>1 DEF IInv, Counted, Holding
<1>8. NotOverspent'
  <2> SUFFICES ASSUME NEW a \in Accounts PROVE reserved'[a] <= balance'[a] + excess'[a]
    BY DEF NotOverspent
  <2> DEFINE c == cost[a]
             b == Beyond(r, a, input)
  <2>1. /\ reserved[a] \in Int /\ reservation[r][a] \in Nat /\ balance[a] \in Int /\ excess[a] \in Nat
        /\ reserved[a] <= balance[a] + excess[a]
    BY DEF IInv, Types, NotOverspent
  <2>2. c \in Nat /\ b \in Nat /\ c <= reservation[r][a] + b
    BY <1>5
  <2>3. balance'[a] = balance[a] - c /\ excess'[a] = excess[a] + b
    BY <1>1
  <2> HIDE DEF c, b
  <2> QED
    BY <1>2, <2>1, <2>2, <2>3
<1> QED
  BY <1>2, <1>3, <1>6, <1>7, <1>8 DEF IInv

LEMMA ReleaseIInv ==
    ASSUME IInv, NEW r \in Runs, Release(r)
    PROVE  IInv'
<1>1. /\ hold[r] = "open"
      /\ hold' = [hold EXCEPT ![r] = "closed"]
      /\ holders' = [a \in Accounts |-> IF a \in Names[r] THEN holders[a] - 1 ELSE holders[a]]
      /\ reserved' = [a \in Accounts |-> ReservedWithout(r, a)]
      /\ reservation' = [reservation EXCEPT ![r] = Nothing]
      /\ call' = [call EXCEPT ![r] = NoCall]
  BY DEF Release
<1>2. /\ Summed'
      /\ reserved' \in [Accounts -> Int]
      /\ reservation' \in [Runs -> [Accounts -> Nat]]
      /\ \A a \in Accounts : reserved'[a] = reserved[a] - reservation[r][a]
      /\ \A a \in Accounts : reservation'[r][a] = 0
      /\ \A s \in Runs : s # r => reservation'[s] = reservation[s]
  BY <1>1, UnreserveSummed
<1>3. hold' \in [Runs -> {"closed", "open"}] /\ \A s \in Runs : s # r => hold'[s] = hold[s]
  BY <1>1 DEF IInv, Types
<1>4. /\ CallsReserved'
      /\ call' \in [Runs -> [input : Tokens \cup {-1}, output : Tokens \cup {-1}]]
  BY <1>1, <1>2, <1>3, CallEnds
<1>5. Counted' /\ holders' \in [Accounts -> Nat]
  BY <1>1, HoldCounted
<1>6. Types'
  <2>1. balance' \in [Accounts -> Int] /\ excess' \in [Accounts -> Nat]
    BY DEF Release, IInv, Types
  <2> QED
    BY <1>2, <1>3, <1>4, <1>5, <2>1 DEF Types
<1>7. NotOverspent'
  <2> SUFFICES ASSUME NEW a \in Accounts PROVE reserved'[a] <= balance'[a] + excess'[a]
    BY DEF NotOverspent
  <2>1. /\ reserved[a] \in Int /\ reservation[r][a] \in Nat /\ balance[a] \in Int /\ excess[a] \in Nat
        /\ reserved[a] <= balance[a] + excess[a]
    BY DEF IInv, Types, NotOverspent
  <2>2. CASE a \in Names[r] /\ holders[a] = 1
    (* The last holder leaves: nothing of the account is left reserved. *)
    <3>1. Cardinality(Holding(a)') = 0 /\ IsFiniteSet(Holding(a)')
      <4>1. holders'[a] = 0
        BY <1>1, <2>2
      <4>2. IsFiniteSet(Runs)
        BY RunAssumption, FS_Interval DEF Runs
      <4>3. Holding(a)' \subseteq Runs
        BY DEF Holding
      <4> QED
        BY <1>5, <4>1, <4>2, <4>3, FS_Subset DEF Counted
    <3>2. Holding(a)' = {}
      BY <3>1, FS_EmptySet
    <3>3. \A s \in Runs : reservation'[s][a] = 0
      <4> SUFFICES ASSUME NEW s \in Runs, s # r PROVE reservation'[s][a] = 0
        BY <1>2
      <4>1. hold[s] # "open" \/ a \notin Names[s]
        BY <1>3, <3>2 DEF Holding
      <4>2. reservation[s][a] = 0
        BY <4>1 DEF IInv, CallsReserved
      <4> QED
        BY <1>2, <4>2
    <3>4. Total(reservation', a) = 0
      BY <3>3, TotalBounds
    <3>5. reserved'[a] = 0
      BY <1>2, <3>4 DEF Summed
    <3> QED
      BY <2>2, <3>5 DEF Release
  <2>3. CASE ~(a \in Names[r] /\ holders[a] = 1)
    <3>1. balance'[a] = balance[a] /\ excess'[a] = excess[a]
      BY <2>3 DEF Release
    <3> QED
      BY <1>2, <2>1, <3>1
  <2> QED
    BY <2>2, <2>3
<1> QED
  BY <1>2, <1>4, <1>5, <1>6, <1>7 DEF IInv

(* Every step keeps the invariant. *)
LEMMA StepIInv == IInv /\ [Next]_vars => IInv'
<1> SUFFICES ASSUME IInv, [Next]_vars PROVE IInv'
  OBVIOUS
<1>1. CASE UNCHANGED vars
  BY <1>1 DEF vars, IInv, Types, Summed, Counted, Holding, CallsReserved, NotOverspent
<1>2. ASSUME NEW r \in Runs, NEW remaining \in [Accounts -> 0..MaxAmount], Open(r, remaining)
      PROVE  IInv'
  <2>1. remaining \in [Accounts -> Nat]
    BY BoundAssumption
  <2> QED
    BY <1>2, <2>1, OpenIInv
<1>3. ASSUME NEW r \in Runs, NEW input \in Tokens, NEW maxOutput \in Tokens,
             NEW minOutput \in Tokens, NEW out \in Tokens,
             CheckGranted(r, input, maxOutput, minOutput, out)
      PROVE  IInv'
  BY <1>3, GrantedIInv
<1>4. ASSUME NEW r \in Runs, NEW input \in Tokens, NEW maxOutput \in Tokens,
             NEW minOutput \in Tokens, CheckRefused(r, input, maxOutput, minOutput)
      PROVE  IInv'
  BY <1>4, RefusedIInv
<1>5. ASSUME NEW r \in Runs, NEW input \in Tokens, NEW output \in Tokens,
             NEW cost \in Costs(r, input, output), Debit(r, input, output, cost)
      PROVE  IInv'
  BY <1>5, DebitIInv
<1>6. ASSUME NEW r \in Runs, Release(r)
      PROVE  IInv'
  BY <1>6, ReleaseIInv
<1> QED
  BY <1>1, <1>2, <1>3, <1>4, <1>5, <1>6 DEF Next

LEMMA Invariance == Spec => []IInv
<1> QED
  BY InitIInv, StepIInv, PTL DEF Spec

(* Nothing is ever reserved below zero, and no count of holders goes wrong. *)
THEOREM BalancesTypes == Spec => []TypeOK
<1> QED
  BY Invariance, IInvImplies, PTL

(* What an account knows of its holders is what they hold, in every state. *)
THEOREM BalancesAccounted == Spec => []ReservationsAccounted
<1> QED
  BY Invariance, IInvImplies, PTL

(* Runs that share an account cannot together exceed it, for any number of runs,
   accounts, units and rates, except by input beyond what was projected. *)
THEOREM BalancesNotOverspent == Spec => []NotOverspent
<1> QED
  BY Invariance, IInvImplies, PTL

=============================================================================
