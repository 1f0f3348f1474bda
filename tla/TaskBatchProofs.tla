--------------------------- MODULE TaskBatchProofs ---------------------------
(***************************************************************************)
(* Proofs about the batch driver, for every number of items, runs and      *)
(* crashes, every budget and every price of a call.                        *)
(*                                                                         *)
(* The spend account inside the batch keeps the invariant of the accounts' *)
(* own proofs, whose lemmas are cited here through an instance.  On top of *)
(* it the runs match the items, the order of what is pending matches the   *)
(* items, the files match the runs, the items' cost and what the ledger    *)
(* still owes cover what was spent and is on record or will be (Due), and  *)
(* the live balance what was not.                                          *)
(***************************************************************************)
EXTENDS TaskBatch, FiniteSetTheorems, SequenceTheorems, NatLemmas

Money == INSTANCE SpendBalancesProofs
    WITH NumRuns <- Anchor, Accounts <- {Account},
         Names <- [r \in 1..Anchor |-> {Account}],
         UnitOf <- [a \in {Account} |-> "usd"],
         RateIn <- [r \in 1..Anchor |-> 0], RateOut <- [r \in 1..Anchor |-> 1],
         Unpriced <- {Anchor},
         MaxTokens <- MaxCall, MaxCost <- MaxCall, MaxAmount <- MaxCall, MaxExcess <- 0

-----------------------------------------------------------------------------
(* The spend account inside the batch *)

MoneyOK == Money!IInv /\ excess[Account] = 0

LEMMA MoneyAssumptions ==
    /\ Money!RunAssumption /\ Money!NameAssumption /\ Money!UnitAssumption
    /\ Money!RateAssumption /\ Money!BoundAssumption
BY BatchConstants
DEF Money!RunAssumption, Money!NameAssumption, Money!UnitAssumption, Money!RateAssumption,
    Money!BoundAssumption, Anchor, Money!Runs

LEMMA Holds == RunIds \subseteq Money!Runs /\ Anchor \in Money!Runs /\ Anchor \notin RunIds
BY BatchConstants DEF Money!Runs, RunIds, Anchor

LEMMA MoneyTypes ==
    ASSUME MoneyOK
    PROVE  /\ holders[Account] \in Nat /\ balance[Account] \in Int
           /\ reserved[Account] \in Nat /\ reserved[Account] <= balance[Account]
           /\ hold \in [Money!Runs -> {"closed", "open"}]
<1>1. Money!TypeOK /\ Money!NotOverspent
  BY Money!IInvImplies, MoneyAssumptions DEF MoneyOK
<1> QED
  BY <1>1 DEF Money!TypeOK, Money!NotOverspent, MoneyOK

(* An account has holders exactly while somebody holds it. *)
LEMMA MoneyHolders ==
    ASSUME MoneyOK
    PROVE  /\ holders[Account] > 0 <=> \E r \in Money!Runs : hold[r] = "open"
<1>1. holders[Account] = Money!Cardinality(Money!Holding(Account)) /\ holders[Account] \in Nat
  <2>1. \A a \in {Account} : holders[a] = Money!Cardinality(Money!Holding(a)) /\ holders[a] \in Nat
    BY DEF MoneyOK, Money!IInv, Money!Counted, Money!Types
  <2> QED
    BY <2>1
<1>2. Money!Holding(Account) = {r \in Money!Runs : hold[r] = "open"}
  BY DEF Money!Holding, Money!Runs
<1>3. IsFiniteSet(Money!Holding(Account))
  BY Money!HoldingFinite, MoneyAssumptions DEF Money!IsFiniteSet, IsFiniteSet
<1>4. Money!Cardinality(Money!Holding(Account)) = 0 <=> Money!Holding(Account) = {}
  BY <1>3, FS_EmptySet DEF Money!Cardinality, Cardinality
<1>5. holders[Account] > 0 <=> Money!Holding(Account) # {}
  BY <1>1, <1>4
<1> QED
  BY <1>2, <1>5

LEMMA MoneyUnchanged ==
    ASSUME MoneyOK, UNCHANGED balVars
    PROVE  MoneyOK'
<1>1. Money!IInv /\ UNCHANGED Money!vars
  BY DEF MoneyOK, balVars, Money!vars
<1>2. Money!IInv'
  BY <1>1, Money!StepIInv, MoneyAssumptions
<1> QED
  BY <1>2 DEF MoneyOK, balVars

LEMMA MoneyInit ==
    ASSUME Bal!Init
    PROVE  MoneyOK
<1>1. Money!Init /\ excess[Account] = 0
  BY DEF Bal!Init, Money!Init, Bal!Nothing, Money!Nothing, Bal!NoCall, Money!NoCall, Bal!Runs, Money!Runs
<1> QED
  BY <1>1, Money!InitIInv, MoneyAssumptions DEF MoneyOK

LEMMA MoneyLost ==
    ASSUME Lost
    PROVE  MoneyOK' /\ holders'[Account] = 0 /\ \A r \in Money!Runs : hold'[r] = "closed"
<1>1. Bal!Init'
  BY DEF Lost, Bal!Init, Bal!Runs
<1>2. MoneyOK'
  BY <1>1, MoneyInit, PTL
<1> QED
  BY <1>2 DEF Lost, Bal!Nothing, Money!Runs

LEMMA MoneyOpens ==
    ASSUME MoneyOK, NEW r \in Money!Runs, NEW remaining \in [{Account} -> Nat], Bal!Open(r, remaining)
    PROVE  /\ MoneyOK'
           /\ hold[r] # "open" /\ hold' = [hold EXCEPT ![r] = "open"]
           /\ balance'[Account] = IF holders[Account] = 0 THEN remaining[Account] ELSE balance[Account]
<1>1. Money!Open(r, remaining)
  BY DEF Bal!Open, Money!Open
<1>2. Money!IInv'
  BY <1>1, Money!OpenIInv, MoneyAssumptions DEF MoneyOK
<1>3. Account \in [s \in 1..Anchor |-> {Account}][r]
  BY DEF Money!Runs
<1>4. excess'[Account] = 0
  BY <1>1, <1>3 DEF Money!Open, MoneyOK
<1> QED
  BY <1>1, <1>2, <1>3, <1>4 DEF Money!Open, MoneyOK

LEMMA MoneyReleases ==
    ASSUME MoneyOK, NEW r \in Money!Runs, Bal!Release(r)
    PROVE  /\ MoneyOK'
           /\ hold[r] = "open" /\ hold' = [hold EXCEPT ![r] = "closed"]
           /\ holders[Account] > 1 => balance'[Account] = balance[Account]
           /\ holders[Account] <= 1 => holders'[Account] = 0
<1>1. Money!Release(r)
  BY DEF Bal!Release, Money!Release, Bal!ReservedWithout, Money!ReservedWithout, Bal!Nothing,
         Money!Nothing, Bal!NoCall, Money!NoCall
<1>2. Money!IInv'
  BY <1>1, Money!ReleaseIInv, MoneyAssumptions DEF MoneyOK
<1>3. Account \in [s \in 1..Anchor |-> {Account}][r]
  BY DEF Money!Runs
<1>4. excess'[Account] = 0
  BY <1>1, <1>3 DEF Money!Release, MoneyOK
<1>5. hold[r] = "open" /\ hold' = [hold EXCEPT ![r] = "closed"]
  BY <1>1 DEF Money!Release
<1>6. holders[Account] \in Nat /\ holders[Account] > 0
  BY <1>5, MoneyTypes, MoneyHolders
<1>7. holders[Account] > 1 => balance'[Account] = balance[Account]
  BY <1>1, <1>6 DEF Money!Release
<1>8. holders[Account] <= 1 => holders'[Account] = 0
  BY <1>1, <1>3, <1>6 DEF Money!Release
<1> QED
  BY <1>2, <1>4, <1>5, <1>7, <1>8 DEF MoneyOK

LEMMA MoneyGrants ==
    ASSUME MoneyOK, NEW r \in RunIds, NEW out \in MinCall..MaxCall,
           Bal!CheckGranted(r, 0, MaxCall, MinCall, out)
    PROVE  MoneyOK' /\ UNCHANGED <<holders, balance, hold>>
<1>1. Money!CheckGranted(r, 0, MaxCall, MinCall, out)
  BY DEF Bal!CheckGranted, Money!CheckGranted, Bal!IsGrant, Money!IsGrant, Bal!InputFits, Money!InputFits,
         Bal!OutputAllowance, Money!OutputAllowance, Bal!Available, Money!Available,
         Bal!ReservedWithout, Money!ReservedWithout, Bal!InputRate, Money!InputRate,
         Bal!OutputRate, Money!OutputRate, Bal!ProjectedCost, Money!ProjectedCost
<1>2. 0 \in Money!Tokens /\ MaxCall \in Money!Tokens /\ MinCall \in Money!Tokens /\ out \in Money!Tokens
  BY BatchConstants DEF Money!Tokens
<1>3. Money!IInv'
  BY <1>1, <1>2, Holds, Money!GrantedIInv, MoneyAssumptions DEF MoneyOK
<1> QED
  BY <1>1, <1>3 DEF Money!CheckGranted, MoneyOK

LEMMA MoneyRefuses ==
    ASSUME MoneyOK, NEW r \in RunIds, Bal!CheckRefused(r, 0, MaxCall, MinCall)
    PROVE  MoneyOK' /\ UNCHANGED <<holders, balance, hold>>
<1>1. Money!CheckRefused(r, 0, MaxCall, MinCall)
  BY DEF Bal!CheckRefused, Money!CheckRefused, Bal!InputFits, Money!InputFits,
         Bal!OutputAllowance, Money!OutputAllowance, Bal!Available, Money!Available,
         Bal!ReservedWithout, Money!ReservedWithout, Bal!InputRate, Money!InputRate,
         Bal!OutputRate, Money!OutputRate, Bal!Unreserve, Money!Unreserve,
         Bal!Nothing, Money!Nothing, Bal!NoCall, Money!NoCall
<1>2. Money!IInv'
  BY <1>1, Holds, Money!RefusedIInv, MoneyAssumptions DEF MoneyOK
<1> QED
  BY <1>1, <1>2 DEF Money!CheckRefused, MoneyOK

LEMMA MoneyDebits ==
    ASSUME MoneyOK, NEW r \in RunIds, NEW cost \in CallCosts, cost <= call[r].output,
           Bal!Debit(r, 0, call[r].output, [a \in {Account} |-> cost])
    PROVE  /\ MoneyOK' /\ UNCHANGED <<holders, hold>>
           /\ balance'[Account] = balance[Account] - cost
<1> DEFINE c == [a \in {Account} |-> cost]
           out == call[r].output
<1>1. Money!Debit(r, 0, out, c)
  BY DEF Bal!Debit, Money!Debit, Bal!Beyond, Money!Beyond, Bal!InputRate, Money!InputRate,
         Bal!ReservedWithout, Money!ReservedWithout, Bal!Unreserve, Money!Unreserve,
         Bal!Nothing, Money!Nothing, Bal!NoCall, Money!NoCall
<1>2. call[r] # Money!NoCall
  BY <1>1 DEF Money!Debit
<1>3. out \in Money!Tokens /\ 0 \in Money!Tokens
  BY <1>2, Holds, BatchConstants DEF MoneyOK, Money!IInv, Money!CallsReserved, Money!Tokens
<1>4. c \in Money!Costs(r, 0, out)
  <2>1. cost \in 0..MaxCall /\ out \in Nat
    BY <1>3, BatchConstants DEF Money!Tokens
  <2>2. /\ [s \in 1..Anchor |-> {Account}][r] = {Account}
        /\ [s \in 1..Anchor |-> 0][r] = 0 /\ [s \in 1..Anchor |-> 1][r] = 1
    BY Holds DEF Money!Runs
  <2>3. Money!ProjectedCost(r, Account, 0, out) = out
    BY <2>1, <2>2 DEF Money!ProjectedCost, Money!InputRate, Money!OutputRate
  <2> HIDE DEF out
  <2> QED
    BY <2>1, <2>2, <2>3 DEF Money!Costs, out
<1> HIDE DEF c, out
<1>5. Money!IInv'
  BY <1>1, <1>3, <1>4, Holds, Money!DebitIInv, MoneyAssumptions DEF MoneyOK
<1>6. excess'[Account] = 0
  <2>1. excess'[Account] \in Nat
    BY <1>5 DEF Money!IInv, Money!Types
  <2>2. excess[Account] + Money!Beyond(r, Account, 0) <= 0
    BY <1>1 DEF Money!Debit
  <2>3. excess'[Account] = excess[Account] + Money!Beyond(r, Account, 0)
    BY <1>1 DEF Money!Debit
  <2> QED
    BY <2>1, <2>2, <2>3
<1> QED
  BY <1>1, <1>5, <1>6 DEF Money!Debit, MoneyOK, c

-----------------------------------------------------------------------------
(* The sum of the items' costs *)

IsSum(f, its) ==
    f = [i \in 0..NumItems |-> IF i = 0 THEN 0 ELSE f[i - 1] + its[i].cost]

(* The recursive definition of SumCost defines a function. *)
LEMMA SumDefined ==
    ASSUME NEW its
    PROVE  \E f : IsSum(f, its) /\ SumCost(its) = f[NumItems]
<1> DEFINE Step(x, i) == x + its[i].cost
           Solves(f, n) == \A i \in 0..n : f[i] = IF i = 0 THEN 0 ELSE Step(f[i - 1], i)
           A == {n \in Nat : \E f : Solves(f, n)}
<1>1. \A n \in Nat : n \in A
  <2> HIDE DEF Step
  <2>1. 0 \in A
    <3>1. Solves([i \in 0..0 |-> 0], 0)
      OBVIOUS
    <3> QED
      BY <3>1
  <2>2. ASSUME NEW n \in Nat, n \in A PROVE n + 1 \in A
    <3>1. PICK f : Solves(f, n)
      BY <2>2
    <3> DEFINE g == [i \in 0..(n + 1) |-> IF i <= n THEN f[i] ELSE Step(f[i - 1], i)]
    <3>2. Solves(g, n + 1)
      <4> SUFFICES ASSUME NEW i \in 0..(n + 1)
                   PROVE  g[i] = IF i = 0 THEN 0 ELSE Step(g[i - 1], i)
        OBVIOUS
      <4>1. i = 0 \/ g[i - 1] = f[i - 1]
        OBVIOUS
      <4> QED
        BY <3>1, <4>1
    <3> HIDE DEF Solves
    <3> QED
      BY <3>2
  <2> HIDE DEF A
  <2> QED
    BY <2>1, <2>2, SetInduction
<1>2. PICK g : Solves(g, NumItems)
  BY <1>1, BatchConstants
<1> DEFINE h == [i \in 0..NumItems |-> g[i]]
<1>3. IsSum(h, its)
  <2> HIDE DEF Step
  <2>1. \A i \in 0..NumItems : h[i] = IF i = 0 THEN 0 ELSE Step(h[i - 1], i)
    <3> SUFFICES ASSUME NEW i \in 0..NumItems
                 PROVE  h[i] = IF i = 0 THEN 0 ELSE Step(h[i - 1], i)
      OBVIOUS
    <3>1. i = 0 \/ h[i - 1] = g[i - 1]
      BY BatchConstants
    <3> QED
      BY <1>2, <3>1
  <2> QED
    BY <2>1 DEF IsSum, Step
<1>4. SumCost(its) = (CHOOSE k : IsSum(k, its))[NumItems]
  BY DEF SumCost, IsSum
<1>5. IsSum(CHOOSE k : IsSum(k, its), its)
  BY <1>3
<1> QED
  BY <1>4, <1>5

(* Items that cost no more each cost no more together, and less by what one of
   them costs less. *)
LEMMA CostsCompare ==
    ASSUME NEW less, NEW more, NEW x \in Nat,
           \A i \in Items : /\ less[i].cost \in Nat /\ more[i].cost \in Nat
                            /\ less[i].cost <= more[i].cost,
           x = 0 \/ \E j \in Items : less[j].cost + x <= more[j].cost
    PROVE  SumCost(less) \in Nat /\ SumCost(more) \in Nat /\ SumCost(less) + x <= SumCost(more)
<1>1. PICK f : IsSum(f, less) /\ SumCost(less) = f[NumItems]
  BY SumDefined
<1>2. PICK g : IsSum(g, more) /\ SumCost(more) = g[NumItems]
  BY SumDefined
<1>3. PICK j \in Items : x = 0 \/ less[j].cost + x <= more[j].cost
  BY BatchConstants DEF Items
<1> DEFINE Good(n) == /\ f[n] \in Nat /\ g[n] \in Nat
                      /\ f[n] <= g[n]
                      /\ j <= n => f[n] + x <= g[n]
           B == {n \in Nat : n <= NumItems => Good(n)}
<1>4. \A n \in Nat : n \in B
  <2>1. 0 \in B
    BY <1>1, <1>2, BatchConstants DEF IsSum, Items
  <2>2. ASSUME NEW n \in Nat, n \in B PROVE n + 1 \in B
    <3> SUFFICES ASSUME n + 1 <= NumItems PROVE Good(n + 1)
      OBVIOUS
    <3>1. Good(n)
      BY <2>2, BatchConstants
    <3>2. f[n + 1] = f[n] + less[n + 1].cost /\ g[n + 1] = g[n] + more[n + 1].cost
      BY <1>1, <1>2, BatchConstants DEF IsSum
    <3>3. n + 1 \in Items
      BY BatchConstants DEF Items
    <3>4. less[n + 1].cost \in Nat /\ more[n + 1].cost \in Nat /\ less[n + 1].cost <= more[n + 1].cost
      BY <3>3
    <3>5. j = n + 1 => less[n + 1].cost + x <= more[n + 1].cost
      BY <1>3, <3>4
    <3>6. j \in Nat
      BY DEF Items
    <3> QED
      BY <3>1, <3>2, <3>4, <3>5, <3>6
  <2> HIDE DEF B
  <2> QED
    BY <2>1, <2>2, SetInduction
<1>5. Good(NumItems)
  BY <1>4, BatchConstants
<1>6. j <= NumItems
  BY DEF Items
<1> QED
  BY <1>1, <1>2, <1>5, <1>6

(* One item that costs x more makes the sum x more. *)
LEMMA CostsRise ==
    ASSUME NEW less, NEW more, NEW x \in Nat, NEW j \in Items,
           \A i \in Items : less[i].cost \in Nat /\ more[i].cost \in Nat,
           \A i \in Items : i # j => more[i].cost = less[i].cost,
           more[j].cost = less[j].cost + x
    PROVE  SumCost(less) \in Nat /\ SumCost(more) = SumCost(less) + x
<1>1. PICK f : IsSum(f, less) /\ SumCost(less) = f[NumItems]
  BY SumDefined
<1>2. PICK g : IsSum(g, more) /\ SumCost(more) = g[NumItems]
  BY SumDefined
<1> DEFINE Good(n) == f[n] \in Nat /\ g[n] = IF j <= n THEN f[n] + x ELSE f[n]
           B == {n \in Nat : n <= NumItems => Good(n)}
<1>3. j \in Nat /\ 0 < j /\ j <= NumItems
  BY DEF Items
<1>4. \A n \in Nat : n \in B
  <2>1. 0 \in B
    BY <1>1, <1>2, <1>3, BatchConstants DEF IsSum
  <2>2. ASSUME NEW n \in Nat, n \in B PROVE n + 1 \in B
    <3> SUFFICES ASSUME n + 1 <= NumItems PROVE Good(n + 1)
      OBVIOUS
    <3>1. Good(n)
      BY <2>2, BatchConstants
    <3>2. f[n + 1] = f[n] + less[n + 1].cost /\ g[n + 1] = g[n] + more[n + 1].cost
      BY <1>1, <1>2, BatchConstants DEF IsSum
    <3>3. n + 1 \in Items
      BY BatchConstants DEF Items
    <3>4. /\ less[n + 1].cost \in Nat /\ more[n + 1].cost \in Nat
          /\ more[n + 1].cost = IF n + 1 = j THEN less[n + 1].cost + x ELSE less[n + 1].cost
      BY <3>3
    <3> QED
      BY <1>3, <3>1, <3>2, <3>4
  <2> HIDE DEF B
  <2> QED
    BY <2>1, <2>2, SetInduction
<1>5. Good(NumItems)
  BY <1>4, BatchConstants
<1> QED
  BY <1>1, <1>2, <1>3, <1>5

LEMMA CostIsNatural ==
    ASSUME NEW its, \A i \in Items : its[i].cost \in Nat
    PROVE  SumCost(its) \in Nat
<1>1. \A i \in Items : its[i].cost \in Nat /\ its[i].cost <= its[i].cost
  OBVIOUS
<1>2. 0 \in Nat
  OBVIOUS
<1> QED
  BY <1>1, <1>2, CostsCompare

-----------------------------------------------------------------------------
(* The order of what is pending *)

IsUpTo(f, S) ==
    f = [i \in 0..NumItems |->
            IF i = 0 THEN <<>> ELSE IF i \in S THEN Append(f[i - 1], i) ELSE f[i - 1]]

LEMMA InOrderDefined ==
    ASSUME NEW S
    PROVE  \E f : IsUpTo(f, S) /\ InOrder(S) = f[NumItems]
<1> DEFINE Step(s, i) == IF i \in S THEN Append(s, i) ELSE s
           Solves(f, n) == \A i \in 0..n : f[i] = IF i = 0 THEN <<>> ELSE Step(f[i - 1], i)
           A == {n \in Nat : \E f : Solves(f, n)}
<1>1. \A n \in Nat : n \in A
  <2> HIDE DEF Step
  <2>1. 0 \in A
    <3>1. Solves([i \in 0..0 |-> <<>>], 0)
      OBVIOUS
    <3> QED
      BY <3>1
  <2>2. ASSUME NEW n \in Nat, n \in A PROVE n + 1 \in A
    <3>1. PICK f : Solves(f, n)
      BY <2>2
    <3> DEFINE g == [i \in 0..(n + 1) |-> IF i <= n THEN f[i] ELSE Step(f[i - 1], i)]
    <3>2. Solves(g, n + 1)
      <4> SUFFICES ASSUME NEW i \in 0..(n + 1)
                   PROVE  g[i] = IF i = 0 THEN <<>> ELSE Step(g[i - 1], i)
        OBVIOUS
      <4>1. i = 0 \/ g[i - 1] = f[i - 1]
        OBVIOUS
      <4> QED
        BY <3>1, <4>1
    <3> HIDE DEF Solves
    <3> QED
      BY <3>2
  <2> HIDE DEF A
  <2> QED
    BY <2>1, <2>2, SetInduction
<1>2. PICK g : Solves(g, NumItems)
  BY <1>1, BatchConstants
<1> DEFINE h == [i \in 0..NumItems |-> g[i]]
<1>3. IsUpTo(h, S)
  <2> HIDE DEF Step
  <2>1. \A i \in 0..NumItems : h[i] = IF i = 0 THEN <<>> ELSE Step(h[i - 1], i)
    <3> SUFFICES ASSUME NEW i \in 0..NumItems
                 PROVE  h[i] = IF i = 0 THEN <<>> ELSE Step(h[i - 1], i)
      OBVIOUS
    <3>1. i = 0 \/ h[i - 1] = g[i - 1]
      BY BatchConstants
    <3> QED
      BY <1>2, <3>1
  <2> QED
    BY <2>1 DEF IsUpTo, Step
<1>4. InOrder(S) = (CHOOSE k : IsUpTo(k, S))[NumItems]
  BY DEF InOrder, IsUpTo
<1>5. IsUpTo(CHOOSE k : IsUpTo(k, S), S)
  BY <1>3
<1> QED
  BY <1>4, <1>5

(* A list without repetitions of the members of S. *)
Lists(s, S) == s \in Seq(Items) /\ IsInjective(s) /\ ToSet(s) = S

LEMMA ListsNothing == Lists(<<>>, {})
BY EmptySeq DEF Lists, IsInjective, ToSet

LEMMA AppendLists ==
    ASSUME NEW S, NEW s, Lists(s, S), NEW e \in Items, e \notin S
    PROVE  Lists(Append(s, e), S \cup {e})
<1>1. /\ Append(s, e) \in Seq(Items)
      /\ Len(Append(s, e)) = Len(s) + 1
      /\ \A i \in 1..Len(s) : Append(s, e)[i] = s[i]
      /\ Append(s, e)[Len(s) + 1] = e
  BY AppendProperties DEF Lists
<1>2. Len(s) \in Nat /\ DOMAIN s = 1..Len(s) /\ DOMAIN Append(s, e) = 1..(Len(s) + 1)
  BY <1>1, LenProperties DEF Lists
<1>3. ToSet(Append(s, e)) = ToSet(s) \cup {e}
  BY <1>1, <1>2 DEF ToSet
<1>4. IsInjective(Append(s, e))
  BY <1>1, <1>2 DEF ToSet, IsInjective, Lists
<1> QED
  BY <1>1, <1>3, <1>4 DEF Lists

LEMMA InOrderLists ==
    ASSUME NEW S \in SUBSET Items
    PROVE  Lists(InOrder(S), S)
<1>1. PICK f : IsUpTo(f, S) /\ InOrder(S) = f[NumItems]
  BY InOrderDefined
<1> DEFINE Good(n) == Lists(f[n], S \cap 1..n)
           B == {n \in Nat : n <= NumItems => Good(n)}
<1>2. \A n \in Nat : n \in B
  <2>1. 0 \in B
    <3>1. f[0] = <<>> /\ S \cap 1..0 = {}
      BY <1>1, BatchConstants DEF IsUpTo
    <3> QED
      BY <3>1, ListsNothing
  <2>2. ASSUME NEW n \in Nat, n \in B PROVE n + 1 \in B
    <3> SUFFICES ASSUME n + 1 <= NumItems PROVE Good(n + 1)
      OBVIOUS
    <3>1. Good(n)
      BY <2>2, BatchConstants
    <3>2. f[n + 1] = IF n + 1 \in S THEN Append(f[n], n + 1) ELSE f[n]
      <4>1. n + 1 \in 0..NumItems /\ n + 1 # 0 /\ (n + 1) - 1 = n
        BY BatchConstants
      <4>2. \A i \in 0..NumItems :
               f[i] = IF i = 0 THEN <<>> ELSE IF i \in S THEN Append(f[i - 1], i) ELSE f[i - 1]
        BY <1>1, Zenon DEF IsUpTo
      <4>3. f[n + 1] = IF n + 1 \in S THEN Append(f[(n + 1) - 1], n + 1) ELSE f[(n + 1) - 1]
        BY <4>1, <4>2, Zenon
      <4> QED
        BY <4>1, <4>3, Zenon
    <3>3. CASE n + 1 \in S
      <4>1. S \cap 1..(n + 1) = (S \cap 1..n) \cup {n + 1} /\ n + 1 \notin S \cap 1..n /\ n + 1 \in Items
        BY <3>3 DEF Items
      <4> QED
        BY <3>1, <3>2, <3>3, <4>1, AppendLists
    <3>4. CASE n + 1 \notin S
      <4>1. S \cap 1..(n + 1) = S \cap 1..n
        BY <3>4
      <4> QED
        BY <3>1, <3>2, <3>4, <4>1
    <3> QED
      BY <3>3, <3>4
  <2> HIDE DEF B
  <2> QED
    BY <2>1, <2>2, SetInduction
<1>3. Good(NumItems)
  BY <1>2, BatchConstants
<1>4. S \cap 1..NumItems = S
  BY DEF Items
<1> QED
  BY <1>1, <1>3, <1>4

LEMMA TailLists ==
    ASSUME NEW S, NEW s, Lists(s, S), s # <<>>
    PROVE  Head(s) \in S /\ Head(s) \in Items /\ Lists(Tail(s), S \ {Head(s)})
<1>1. /\ Len(s) \in Nat /\ Len(s) > 0 /\ DOMAIN s = 1..Len(s) /\ Head(s) = s[1]
      /\ Tail(s) \in Seq(Items) /\ Len(Tail(s)) = Len(s) - 1
      /\ \A i \in 1..(Len(s) - 1) : Tail(s)[i] = s[i + 1]
  BY HeadTailProperties, LenProperties, EmptySeq DEF Lists
<1>2. DOMAIN Tail(s) = 1..(Len(s) - 1)
  BY <1>1, LenProperties
<1>3. 1 \in DOMAIN s /\ Head(s) \in S /\ Head(s) \in Items
  BY <1>1 DEF Lists, ToSet
<1>4. ToSet(Tail(s)) = S \ {Head(s)}
  <2>1. ASSUME NEW e \in ToSet(Tail(s)) PROVE e \in S \ {Head(s)}
    <3>1. PICK i \in 1..(Len(s) - 1) : e = s[i + 1]
      BY <1>1, <1>2 DEF ToSet
    <3>2. i + 1 \in DOMAIN s /\ i + 1 # 1
      BY <1>1
    <3> QED
      BY <1>1, <1>3, <3>1, <3>2 DEF Lists, ToSet, IsInjective
  <2>2. ASSUME NEW e \in S \ {Head(s)} PROVE e \in ToSet(Tail(s))
    <3>1. PICK i \in 1..Len(s) : e = s[i]
      BY <1>1 DEF Lists, ToSet
    <3>2. i - 1 \in 1..(Len(s) - 1) /\ (i - 1) + 1 = i
      BY <1>1, <3>1
    <3> QED
      BY <1>1, <1>2, <3>1, <3>2 DEF ToSet
  <2> QED
    BY <2>1, <2>2
<1>5. IsInjective(Tail(s))
  <2> SUFFICES ASSUME NEW i \in 1..(Len(s) - 1), NEW j \in 1..(Len(s) - 1), Tail(s)[i] = Tail(s)[j]
               PROVE  i = j
    BY <1>2 DEF IsInjective
  <2>1. i + 1 \in DOMAIN s /\ j + 1 \in DOMAIN s /\ s[i + 1] = s[j + 1]
    BY <1>1
  <2>2. i + 1 = j + 1
    BY <2>1 DEF Lists, IsInjective
  <2> QED
    BY <1>1, <2>2
<1> QED
  BY <1>1, <1>3, <1>4, <1>5 DEF Lists

LEMMA ConcatLists ==
    ASSUME NEW S, NEW T, NEW s, NEW t, Lists(s, S), Lists(t, T), S \cap T = {}
    PROVE  Lists(s \o t, S \cup T)
<1>1. /\ s \o t \in Seq(Items) /\ Len(s) \in Nat /\ Len(t) \in Nat
      /\ DOMAIN s = 1..Len(s) /\ DOMAIN t = 1..Len(t)
      /\ Len(s \o t) = Len(s) + Len(t)
      /\ \A i \in 1..(Len(s) + Len(t)) : (s \o t)[i] = IF i <= Len(s) THEN s[i] ELSE t[i - Len(s)]
  BY ConcatProperties, LenProperties DEF Lists
<1>2. DOMAIN (s \o t) = 1..(Len(s) + Len(t))
  BY <1>1, LenProperties
<1> DEFINE u == s \o t
           m == Len(s)
           n == Len(t)
<1>3. /\ DOMAIN u = 1..(m + n) /\ m \in Nat /\ n \in Nat
      /\ \A i \in 1..(m + n) : u[i] = IF i <= m THEN s[i] ELSE t[i - m]
  BY <1>1, <1>2
<1>4. DOMAIN s = 1..m /\ DOMAIN t = 1..n
  BY <1>1
<1> HIDE DEF u, m, n
<1>5. ToSet(u) = S \cup T
  <2>1. ASSUME NEW e \in ToSet(u) PROVE e \in S \cup T
    <3>1. PICK i \in 1..(m + n) : e = u[i]
      BY <1>3 DEF ToSet
    <3>2. CASE i <= m
      BY <1>3, <1>4, <3>1, <3>2 DEF Lists, ToSet
    <3>3. CASE ~(i <= m)
      <4>1. i - m \in 1..n /\ e = t[i - m]
        BY <1>3, <3>1, <3>3
      <4> QED
        BY <1>4, <4>1 DEF Lists, ToSet
    <3> QED
      BY <3>2, <3>3
  <2>2. ASSUME NEW e \in S PROVE e \in ToSet(u)
    <3>1. PICK i \in 1..m : e = s[i]
      BY <1>4 DEF Lists, ToSet
    <3>2. i \in 1..(m + n) /\ i <= m
      BY <1>3
    <3> QED
      BY <1>3, <3>1, <3>2 DEF ToSet
  <2>3. ASSUME NEW e \in T PROVE e \in ToSet(u)
    <3>1. PICK i \in 1..n : e = t[i]
      BY <1>4 DEF Lists, ToSet
    <3>2. i + m \in 1..(m + n) /\ ~(i + m <= m) /\ (i + m) - m = i
      BY <1>3
    <3> QED
      BY <1>3, <3>1, <3>2 DEF ToSet
  <2> QED
    BY <2>1, <2>2, <2>3
<1>6. IsInjective(u)
  <2> SUFFICES ASSUME NEW i \in 1..(m + n), NEW j \in 1..(m + n), u[i] = u[j]
               PROVE  i = j
    BY <1>3 DEF IsInjective
  <2>1. CASE i <= m /\ j <= m
    <3>1. i \in DOMAIN s /\ j \in DOMAIN s /\ s[i] = s[j]
      BY <1>3, <1>4, <2>1
    <3> QED
      BY <3>1 DEF Lists, IsInjective
  <2>2. CASE ~(i <= m) /\ ~(j <= m)
    <3>1. i - m \in DOMAIN t /\ j - m \in DOMAIN t /\ t[i - m] = t[j - m]
      BY <1>3, <1>4, <2>2
    <3>2. i - m = j - m
      BY <3>1 DEF Lists, IsInjective
    <3> QED
      BY <1>3, <3>2
  <2>3. ASSUME NEW k \in 1..(m + n), NEW l \in 1..(m + n), k <= m, ~(l <= m), u[k] = u[l]
        PROVE  FALSE
    <3>1. k \in DOMAIN s /\ l - m \in DOMAIN t /\ s[k] = t[l - m]
      BY <1>3, <1>4, <2>3
    <3>2. s[k] \in S /\ t[l - m] \in T
      BY <3>1 DEF Lists, ToSet
    <3> QED
      BY <3>1, <3>2
  <2> QED
    BY <2>1, <2>2, <2>3
<1> QED
  BY <1>1, <1>5, <1>6 DEF Lists, u

(* Putting one in front. *)
LEMMA RequeueLists ==
    ASSUME NEW S, NEW s, Lists(s, S), NEW e \in Items, e \notin S
    PROVE  Lists(Requeue(e, s), S \cup {e})
<1>1. <<e>> \in Seq(Items) /\ DOMAIN <<e>> = {1} /\ <<e>>[1] = e
  OBVIOUS
<1>2. Lists(<<e>>, {e})
  BY <1>1 DEF Lists, IsInjective, ToSet
<1>3. Lists(<<e>> \o s, {e} \cup S)
  BY <1>2, ConcatLists
<1> QED
  BY <1>3 DEF Requeue

-----------------------------------------------------------------------------
(* The inductive invariant *)

BatchRecord ==
    [state : {"none", "running", "paused", "completed", "cancelled"}, budget : Nat,
     reason : {"none", "manual", "budget", "pass_rate", "unavailable"}, disarmed : BOOLEAN]

Item ==
    [state : {"pending", "queued", "running", "done"}, run : RunIds \cup {NoRun},
     execution : {"none", "produced", "failed", "skipped", "cancelled"},
     verdict : Verdicts \cup {"none"}, cost : Nat]

RunFile ==
    [ticket : {"none", "queued", "running", "closed"}, line : BOOLEAN,
     execution : {"none", "produced", "failed", "skipped", "cancelled"},
     started : BOOLEAN, cost : Nat, used : Nat]

Carried ==
    [phase : {"idle", "queued", "dispatched", "running", "ended", "recorded"},
     item : 0..NumItems, remaining : Nat, called : BOOLEAN, stop : {"none", "batch", "task"},
     execution : {"none", "produced", "failed", "cancelled"}]

LiveBatch ==
    [live : BOOLEAN, pending : Seq(Items), outstanding : SUBSET Items, anchored : BOOLEAN,
     retry : BOOLEAN, withdrawn : SUBSET RunIds, waitForSettle : BOOLEAN,
     endedSince : [RunIds -> BOOLEAN]]

Carries == proc \in {"up", "stopping"}

InFlight(its) == {i \in Items : its[i].state \in {"queued", "running"}}

PendingItems(its) == {i \in Items : its[i].state = "pending"}

(* A pending item names no run, one in flight does, and no two name the same. *)
Named(its) ==
    \A i \in Items :
        /\ its[i].state = "pending" => its[i].run = NoRun
        /\ its[i].state \in {"queued", "running"} => its[i].run # NoRun
        /\ \A j \in Items : its[i].run = its[j].run /\ its[i].run # NoRun => i = j

(* A run that is carried belongs to the item in flight that names it, and its
   file says how far it came. *)
RunPlaced(r, d, its, rn, f) ==
    LET i == rn[r].item IN
    /\ i \in d.outstanding /\ its[i].run = r
    /\ rn[r].phase = "queued" =>
          /\ its[i].state = "queued" /\ d.anchored
          /\ f[r].ticket = "queued" /\ ~f[r].line /\ f[r].used = 0
    /\ rn[r].phase \in {"dispatched", "running", "ended"} =>
          its[i].state = "running" /\ f[r].ticket = "running" /\ ~f[r].line
    /\ rn[r].phase = "recorded" =>
          /\ f[r].line /\ f[r].ticket = "closed" /\ f[r].used <= f[r].cost
          /\ its[i].state = "running" <=> f[r].started
          /\ ~f[r].started => f[r].used = 0

Placed(d, its, rn, f) ==
    /\ \A r \in RunIds : rn[r].phase # "idle" => RunPlaced(r, d, its, rn, f)
    /\ \A i \in d.outstanding :
          its[i].run \in RunIds /\ rn[its[i].run].phase # "idle" /\ rn[its[i].run].item = i

(* What a handler of process p may find and must leave: in the record b, the
   driver's memory d, the items its, the runs rn and the files f. *)
Consistent(p, b, d, its, rn, f) ==
    /\ b \in BatchRecord /\ d \in LiveBatch /\ its \in [Items -> Item]
    /\ rn \in [RunIds -> Carried] /\ f \in [RunIds -> RunFile]
    /\ Named(its)
    /\ Placed(d, its, rn, f)
    /\ ~d.live => d.pending = <<>> /\ d.outstanding = {} /\ ~d.anchored /\ ~d.retry
    /\ p \in {"up", "stopping"} => d.outstanding = InFlight(its)
    /\ p = "up" /\ d.live => Lists(d.pending, PendingItems(its))

(* The driver's hold and those of the runs are the open ones. *)
HeldBy(d, rn) ==
    /\ d.anchored <=> hold[Anchor] = "open"
    /\ \A r \in RunIds : rn[r].phase = "running" <=> hold[r] = "open"

Driven ==
    /\ proc = "up" /\ batch.state = "running" => lb.live /\ lb.anchored
    /\ pumping # "no" => lb.live /\ Carries
    /\ ~Carries => ~lb.live /\ run = [r \in RunIds |-> NotCarried]
    /\ proc = "none" => InFlight(items) = {}

Counters ==
    /\ pumping \in {"no", "driver", "control"} /\ proc \in {"none", "up", "stopping", "down"}
    /\ spent \in Nat /\ unbilled \in Nat /\ crashes \in 0..MaxCrashes /\ escaped \subseteq {"gap", "torn"}

Structure ==
    /\ Consistent(proc, batch, lb, items, run, file)
    /\ HeldBy(lb, run)
    /\ Driven
    /\ Counters

(* What the ledger has for a run in flight and its item does not. *)
Owed(its, f, i) == IF i \in InFlight(its) THEN f[its[i].run].used ELSE 0

Bill(its, f) == [i \in Items |-> [cost |-> its[i].cost + Owed(its, f, i)]]

(* The file of a run in flight accounts for what the ledger says of it. *)
FileAccounts(state, g) ==
    /\ g.line /\ g.ticket # "running" => g.used <= g.cost
    /\ g.line /\ ~g.started => g.used = 0
    /\ g.ticket # "running" /\ ~g.line => g.used = 0
    /\ state = "queued" => g.used = 0

Filed(its, f) == \A i \in InFlight(its) : FileAccounts(its[i].state, f[its[i].run])

(* What was spent and some record tells of, or will. *)
Due == spent - unbilled

Charged == "torn" \notin escaped => Filed(items, file) /\ SumCost(Bill(items, file)) >= Due

(* What is left on the account is at most what may still be spent, and nobody
   spends from it without the driver. *)
NobodyRuns(d, its) == \A i \in d.outstanding : its[i].state # "running"

Budgeted ==
    escaped = {} =>
        /\ Due <= batch.budget
        /\ holders[Account] > 0 => balance[Account] + Due <= batch.budget
        /\ ~lb.anchored => NobodyRuns(lb, items)

Books == Charged /\ Budgeted

LEMMA RemainingTypes ==
    ASSUME NEW b \in BatchRecord, NEW its \in [Items -> Item]
    PROVE  Remaining(b, its) \in [{Account} -> Nat]
<1>1. b.budget \in Nat /\ \A i \in Items : its[i].cost \in Nat
  BY DEF BatchRecord, Item
<1>2. SumCost(its) \in Nat
  BY <1>1, CostIsNatural
<1> DEFINE left == b.budget - SumCost(its)
<1>3. left \in Int
  BY <1>1, <1>2
<1>4. Remaining(b, its) = [a \in {Account} |-> IF left > 0 THEN left ELSE 0]
  BY DEF Remaining
<1> HIDE DEF left
<1> QED
  BY <1>3, <1>4

(* The two readings of the invariant's primed form. *)
LEMMA StructurePrimed ==
    ASSUME Consistent(proc', batch', lb', items', run', file'),
           HeldBy(lb, run)', Driven', Counters'
    PROVE  Structure'
BY DEF Structure

-----------------------------------------------------------------------------
(* Parts of handlers *)

LEMMA IsFreshBatch ==
    ASSUME NEW its
    PROVE  /\ FreshBatch(its) \in LiveBatch
           /\ FreshBatch(its).live /\ FreshBatch(its).outstanding = {}
           /\ ~FreshBatch(its).anchored /\ ~FreshBatch(its).retry
           /\ Lists(FreshBatch(its).pending, PendingItems(its))
<1>1. Lists(PendingOf(its), PendingItems(its))
  BY InOrderLists DEF PendingOf, PendingItems
<1>2. PendingOf(its) \in Seq(Items)
  BY <1>1 DEF Lists
<1> QED
  BY <1>1, <1>2 DEF FreshBatch, LiveBatch

LEMMA IsNotLoaded ==
    /\ NotLoaded \in LiveBatch
    /\ ~NotLoaded.live /\ NotLoaded.pending = <<>> /\ NotLoaded.outstanding = {}
    /\ ~NotLoaded.anchored /\ ~NotLoaded.retry
<1>1. <<>> \in Seq(Items)
  OBVIOUS
<1> QED
  BY <1>1 DEF NotLoaded, FreshBatch, LiveBatch

(* With nothing outstanding no run is carried. *)
LEMMA NothingOut ==
    ASSUME NEW p, NEW b, NEW d, NEW its, NEW rn, NEW f,
           Consistent(p, b, d, its, rn, f), d.outstanding = {}
    PROVE  \A r \in RunIds : rn[r].phase = "idle"
BY DEF Consistent, Placed, RunPlaced

(* Then memory may be dropped or loaded. *)
LEMMA Reloads ==
    ASSUME NEW p, NEW b, NEW d, NEW its, NEW rn, NEW f, NEW q, NEW c \in BatchRecord,
           Consistent(p, b, d, its, rn, f), d.outstanding = {},
           q \in {"up", "stopping"} => InFlight(its) = {}
    PROVE  /\ Consistent(q, c, FreshBatch(its), its, rn, f)
           /\ Consistent(q, c, NotLoaded, its, rn, f)
<1>1. \A r \in RunIds : rn[r].phase = "idle"
  BY NothingOut
<1>2. Placed(FreshBatch(its), its, rn, f) /\ Placed(NotLoaded, its, rn, f)
  BY <1>1, IsFreshBatch, IsNotLoaded DEF Placed
<1> QED
  BY <1>2, IsFreshBatch, IsNotLoaded DEF Consistent

LEMMA LoadedConsistent ==
    ASSUME Structure, Carries
    PROVE  /\ Consistent(proc, batch, Loaded, items, run, file)
           /\ Loaded.live /\ Loaded.outstanding = lb.outstanding /\ Loaded.anchored = lb.anchored
<1>1. CASE lb.live
  BY <1>1 DEF Structure, Loaded
<1>2. CASE ~lb.live
  <2>1. lb.outstanding = {} /\ ~lb.anchored /\ InFlight(items) = {}
    BY <1>2 DEF Structure, Consistent, Carries
  <2>2. batch \in BatchRecord
    BY DEF Structure, Consistent
  <2>3. Consistent(proc, batch, FreshBatch(items), items, run, file)
    BY <2>1, <2>2, Reloads DEF Structure
  <2>4. FreshBatch(items).anchored = FALSE /\ lb.anchored = FALSE
    BY <2>1 DEF Structure, Consistent, LiveBatch, FreshBatch
  <2>5. Loaded = FreshBatch(items)
    BY <1>2 DEF Loaded
  <2> QED
    BY <2>1, <2>3, <2>4, <2>5, IsFreshBatch
<1> QED
  BY <1>1, <1>2

(* The files of the runs that items name are kept. *)
LEMMA KeptFiles ==
    ASSUME NEW its, NEW f \in [RunIds -> RunFile]
    PROVE  /\ Kept(its, f) \in [RunIds -> RunFile]
           /\ \A i \in Items : its[i].run \in RunIds => Kept(its, f)[its[i].run] = f[its[i].run]
<1>1. NoRecord \in RunFile
  BY DEF NoRecord, RunFile
<1> QED
  BY <1>1 DEF Kept

(* Dropping the files that no item names changes nothing. *)
LEMMA KeepsConsistent ==
    ASSUME NEW p, NEW b, NEW d, NEW its, NEW rn, NEW f, Consistent(p, b, d, its, rn, f)
    PROVE  Consistent(p, b, d, its, rn, Kept(its, f))
<1>1. f \in [RunIds -> RunFile]
  BY DEF Consistent
<1>2. Kept(its, f) \in [RunIds -> RunFile]
  BY <1>1, KeptFiles
<1>3. ASSUME NEW r \in RunIds, rn[r].phase # "idle"
      PROVE  RunPlaced(r, d, its, rn, Kept(its, f))
  <2>1. RunPlaced(r, d, its, rn, f)
    BY <1>3 DEF Consistent, Placed
  <2>2. rn[r].item \in Items /\ its[rn[r].item].run = r
    BY <2>1 DEF RunPlaced, Consistent, LiveBatch
  <2>3. Kept(its, f)[r] = f[r]
    BY <1>1, <2>2, KeptFiles
  <2> QED
    BY <2>1, <2>3 DEF RunPlaced
<1> QED
  BY <1>2, <1>3 DEF Consistent, Placed

LEMMA IsNeverStarted ==
    ASSUME NEW st \in {"skipped", "cancelled"}
    PROVE  /\ NeverStarted(st) \in RunFile /\ NeverStarted(st).line /\ NeverStarted(st).ticket = "closed"
           /\ ~NeverStarted(st).started /\ NeverStarted(st).used = 0 /\ NeverStarted(st).cost = 0
BY DEF NeverStarted, RunFile

(* Runs that leave the queue are recorded, and none waits any more; what the
   driver remembers beside what is outstanding does not matter. *)
LEMMA QueueLeft ==
    ASSUME NEW p, NEW b, NEW d, NEW its, NEW rn, NEW e, NEW st \in {"skipped", "cancelled"},
           Consistent(p, b, d, its, rn, file), e.outstanding = d.outstanding,
           LeaveQueue(d, its, rn, st)
    PROVE  /\ run' \in [RunIds -> Carried] /\ file' \in [RunIds -> RunFile]
           /\ Placed(e, its, run', file')
           /\ \A r \in RunIds : /\ run'[r].phase # "queued"
                                /\ run'[r].phase = "running" <=> rn[r].phase = "running"
<1> DEFINE out == Waiting(d, its)
           all == [r \in RunIds |-> IF r \in out THEN NeverStarted(st) ELSE file[r]]
<1>1. /\ d \in LiveBatch /\ its \in [Items -> Item] /\ rn \in [RunIds -> Carried]
      /\ file \in [RunIds -> RunFile] /\ d.outstanding \in SUBSET Items
  BY DEF Consistent, LiveBatch
<1>2. all \in [RunIds -> RunFile]
  BY <1>1, IsNeverStarted
<1>3. /\ run' = [r \in RunIds |-> IF r \in out THEN [rn[r] EXCEPT !.phase = "recorded"] ELSE rn[r]]
      /\ file' = Kept(its, all)
  BY DEF LeaveQueue
<1>4. \A r \in RunIds : [rn[r] EXCEPT !.phase = "recorded"] \in Carried
  BY <1>1 DEF Carried
<1>5. run' \in [RunIds -> Carried] /\ file' \in [RunIds -> RunFile]
  BY <1>1, <1>2, <1>3, <1>4, KeptFiles
<1>6. \A r \in RunIds : /\ r \in out => rn[r].phase # "idle"
                        /\ rn[r].phase # "idle" => rn[r].item \in d.outstanding /\ its[rn[r].item].run = r
                        /\ rn[r].phase = "queued" => its[rn[r].item].state = "queued"
                        /\ r \in out => its[rn[r].item].state = "queued"
                        /\ rn[r].phase \in {"dispatched", "running", "ended"} => its[rn[r].item].state = "running"
  BY DEF Consistent, Placed, RunPlaced, Waiting
<1>7. \A r \in RunIds : rn[r].phase = "queued" => r \in out
  BY <1>6 DEF Waiting
<1>8. \A r \in RunIds : /\ run'[r].item = rn[r].item
                        /\ r \in out => run'[r].phase = "recorded"
                        /\ r \notin out => run'[r] = rn[r]
  BY <1>1, <1>3 DEF Carried
<1> HIDE DEF out
<1>9. ASSUME NEW r \in RunIds, run'[r].phase # "idle"
      PROVE  RunPlaced(r, e, its, run', file')
  <2>1. RunPlaced(r, d, its, rn, file)
    <3>1. rn[r].phase # "idle"
      <4>1. CASE r \in out
        BY <1>6, <4>1
      <4>2. CASE r \notin out
        BY <1>8, <1>9, <4>2
      <4> QED
        BY <4>1, <4>2
    <3> QED
      BY <3>1 DEF Consistent, Placed
  <2>2. rn[r].item \in Items /\ its[rn[r].item].run = r
    BY <1>1, <2>1 DEF RunPlaced
  <2>3. file'[r] = all[r]
    BY <1>2, <1>3, <2>2, KeptFiles
  <2>4. CASE r \in out
    <3>1. file'[r] = NeverStarted(st)
      BY <2>3, <2>4
    <3>2. run'[r].phase = "recorded" /\ run'[r].item = rn[r].item /\ its[rn[r].item].state = "queued"
      BY <1>6, <1>8, <2>4
    <3>3. file'[r].line /\ file'[r].ticket = "closed" /\ file'[r].used <= file'[r].cost /\ ~file'[r].started
          /\ file'[r].used = 0
      BY <3>1, IsNeverStarted
    <3> QED
      BY <2>1, <3>2, <3>3 DEF RunPlaced
  <2>5. CASE r \notin out
    <3>1. file'[r] = file[r]
      BY <2>3, <2>5
    <3>2. run'[r] = rn[r] /\ rn[r].phase # "queued"
      BY <1>7, <1>8, <2>5
    <3> QED
      BY <2>1, <3>1, <3>2 DEF RunPlaced
  <2> QED
    BY <2>4, <2>5
<1>10. ASSUME NEW i \in e.outstanding
       PROVE  its[i].run \in RunIds /\ run'[its[i].run].phase # "idle" /\ run'[its[i].run].item = i
  <2>1. its[i].run \in RunIds /\ rn[its[i].run].phase # "idle" /\ rn[its[i].run].item = i
    BY <1>10 DEF Consistent, Placed
  <2> QED
    BY <1>8, <2>1
<1>11. \A r \in RunIds : /\ run'[r].phase # "queued"
                         /\ run'[r].phase = "running" <=> rn[r].phase = "running"
  <2> SUFFICES ASSUME NEW r \in RunIds
               PROVE  /\ run'[r].phase # "queued"
                      /\ run'[r].phase = "running" <=> rn[r].phase = "running"
    OBVIOUS
  <2>1. CASE r \in out
    BY <1>6, <1>8, <2>1
  <2>2. CASE r \notin out
    BY <1>7, <1>8, <2>2
  <2> QED
    BY <2>1, <2>2
<1> QED
  BY <1>5, <1>9, <1>10, <1>11 DEF Placed

(* Giving up the anchor. *)
LEMMA AnchorReleased ==
    ASSUME MoneyOK, NEW d, NEW rn, HeldBy(d, rn), ReleaseAnchor(d)
    PROVE  /\ MoneyOK' /\ hold'[Anchor] = "closed"
           /\ \A r \in RunIds : hold'[r] = "open" <=> rn[r].phase = "running"
<1>1. CASE d.anchored
  <2>1. Bal!Release(Anchor)
    BY <1>1 DEF ReleaseAnchor
  <2>2. MoneyOK' /\ hold' = [hold EXCEPT ![Anchor] = "closed"]
    BY <2>1, Holds, MoneyReleases
  <2>3. hold \in [Money!Runs -> {"closed", "open"}]
    BY MoneyTypes
  <2>4. hold'[Anchor] = "closed" /\ \A r \in RunIds : hold'[r] = hold[r]
    BY <2>2, <2>3, Holds
  <2> QED
    BY <2>2, <2>4 DEF HeldBy
<1>2. CASE ~d.anchored
  <2>1. UNCHANGED balVars
    BY <1>2 DEF ReleaseAnchor
  <2>2. MoneyOK'
    BY <2>1, MoneyUnchanged
  <2>3. hold[Anchor] \in {"closed", "open"}
    BY MoneyTypes, Holds
  <2> QED
    BY <1>2, <2>1, <2>2, <2>3 DEF HeldBy, balVars
<1> QED
  BY <1>1, <1>2

(* pause() *)
LEMMA PauseStructure ==
    ASSUME NEW b, NEW d, NEW its, NEW rn, NEW reason \in {"manual", "budget", "pass_rate", "unavailable"},
           MoneyOK, Counters, Carries, HeldBy(d, rn), d.live,
           Consistent(proc, b, d, its, rn, file),
           Pause(b, d, its, rn, reason),
           proc' = proc, pumping' \in {"no", "driver"}, UNCHANGED <<spent, unbilled, crashes>>
    PROVE  Structure' /\ MoneyOK'
<1>1. /\ b \in BatchRecord /\ d \in LiveBatch /\ its \in [Items -> Item]
  BY DEF Consistent
<1>2. /\ batch' = [b EXCEPT !.state = "paused", !.reason = reason]
      /\ items' = its
      /\ lb' = [d EXCEPT !.retry = FALSE, !.anchored = FALSE, !.withdrawn = @ \cup Waiting(d, its)]
      /\ LeaveQueue(d, its, rn, "skipped")
      /\ ReleaseAnchor(d)
      /\ escaped' = escaped \cup LeavesRunning(d, its)
  BY DEF Pause
<1>3. batch' \in BatchRecord /\ batch'.state = "paused"
  BY <1>1, <1>2 DEF BatchRecord
<1>4. Waiting(d, its) \subseteq RunIds
  BY DEF Waiting, Consistent, Placed
<1>5. /\ lb' \in LiveBatch /\ ~lb'.anchored /\ ~lb'.retry
      /\ lb'.live = d.live /\ lb'.pending = d.pending /\ lb'.outstanding = d.outstanding
  <2> DEFINE w == d.withdrawn \cup Waiting(d, its)
  <2>1. w \in SUBSET RunIds
    BY <1>1, <1>4 DEF LiveBatch
  <2>2. lb' = [d EXCEPT !.retry = FALSE, !.anchored = FALSE, !.withdrawn = w]
    BY <1>2
  <2> HIDE DEF w
  <2> QED
    BY <1>1, <2>1, <2>2 DEF LiveBatch
<1>6. /\ run' \in [RunIds -> Carried] /\ file' \in [RunIds -> RunFile]
      /\ Placed(lb', its, run', file')
      /\ \A r \in RunIds : run'[r].phase = "running" <=> rn[r].phase = "running"
  <2>1. LeaveQueue(d, its, rn, "skipped") /\ lb'.outstanding = d.outstanding
        /\ "skipped" \in {"skipped", "cancelled"}
    BY <1>2, <1>5
  <2> QED
    BY <2>1, QueueLeft
<1>7. /\ MoneyOK' /\ hold'[Anchor] = "closed"
      /\ \A r \in RunIds : hold'[r] = "open" <=> rn[r].phase = "running"
  BY <1>2, AnchorReleased
<1>8. Consistent(proc', batch', lb', items', run', file')
  BY <1>2, <1>3, <1>5, <1>6 DEF Consistent
<1>9. HeldBy(lb, run)'
  BY <1>5, <1>6, <1>7 DEF HeldBy
<1>10. Driven'
  BY <1>3, <1>5 DEF Driven, Carries, Consistent
<1>11. Counters'
  BY <1>2 DEF Counters, LeavesRunning
<1> QED
  BY <1>7, <1>8, <1>9, <1>10, <1>11, StructurePrimed

(* A handler that goes on without a pause. *)
LEMMA ProceedStructure ==
    ASSUME NEW b, NEW d, NEW its, NEW rn,
           MoneyOK, Counters, Carries, HeldBy(d, rn), d.live,
           b.state = "running" /\ proc = "up" => d.anchored,
           Consistent(proc, b, d, its, rn, file),
           Proceed(b, d, its, rn),
           proc' = proc, pumping' \in {"no", "driver"}, UNCHANGED <<spent, unbilled, crashes>>
    PROVE  Structure' /\ MoneyOK'
<1>1. /\ batch' = b /\ lb' = d /\ items' = its /\ run' = rn /\ file' = Kept(its, file)
      /\ UNCHANGED <<balVars, escaped>>
  BY DEF Proceed
<1>2. Consistent(proc', batch', lb', items', run', file')
  BY <1>1, KeepsConsistent
<1>3. MoneyOK'
  BY <1>1, MoneyUnchanged
<1>4. HeldBy(lb, run)'
  BY <1>1 DEF HeldBy, balVars
<1>5. Driven'
  BY <1>1 DEF Driven, Carries
<1>6. Counters'
  BY <1>1 DEF Counters
<1> QED
  BY <1>2, <1>3, <1>4, <1>5, <1>6, StructurePrimed

(* activate(): what the caller leaves of the rest must be consistent. *)
LEMMA ActivateStructure ==
    ASSUME NEW b, NEW d, NEW its, NEW caller \in {"driver", "control"},
           MoneyOK, Counters, HeldBy(d, run), d.live,
           Consistent("up", b, d, its, run, file'),
           Activate(b, d, its, caller),
           proc' = "up", run' = run, UNCHANGED history
    PROVE  Structure' /\ MoneyOK'
<1>1. /\ b \in BatchRecord /\ d \in LiveBatch /\ its \in [Items -> Item]
  BY DEF Consistent
<1>2. /\ batch' = b /\ items' = its
      /\ lb' = [d EXCEPT !.waitForSettle = FALSE, !.anchored = TRUE]
      /\ IF d.anchored THEN UNCHANGED balVars ELSE Bal!Open(Anchor, Remaining(b, its))
      /\ pumping' = caller
  BY DEF Activate
<1>3. /\ lb' \in LiveBatch /\ lb'.anchored
      /\ lb'.live = d.live /\ lb'.pending = d.pending /\ lb'.outstanding = d.outstanding
  BY <1>1, <1>2 DEF LiveBatch
<1>4. MoneyOK' /\ hold'[Anchor] = "open" /\ \A r \in RunIds : hold'[r] = hold[r]
  <2>1. CASE d.anchored
    <3>1. UNCHANGED balVars
      BY <1>2, <2>1
    <3> QED
      BY <2>1, <3>1, MoneyUnchanged DEF HeldBy, balVars
  <2>2. CASE ~d.anchored
    <3>1. Bal!Open(Anchor, Remaining(b, its))
      BY <1>2, <2>2
    <3>2. Remaining(b, its) \in [{Account} -> Nat]
      BY <1>1, RemainingTypes
    <3>3. MoneyOK' /\ hold' = [hold EXCEPT ![Anchor] = "open"]
      BY <3>1, <3>2, Holds, MoneyOpens
    <3>4. hold \in [Money!Runs -> {"closed", "open"}]
      BY MoneyTypes
    <3> QED
      BY <3>3, <3>4, Holds
  <2> QED
    BY <2>1, <2>2
<1>5. Placed(lb', its, run', file')
  <2>1. \A r \in RunIds : RunPlaced(r, d, its, run, file') => RunPlaced(r, lb', its, run', file')
    BY <1>3 DEF RunPlaced
  <2> QED
    BY <1>3, <2>1 DEF Consistent, Placed
<1>6. Consistent(proc', batch', lb', items', run', file')
  BY <1>2, <1>3, <1>5 DEF Consistent
<1>7. HeldBy(lb, run)'
  BY <1>3, <1>4 DEF HeldBy
<1>8. Driven'
  BY <1>3 DEF Driven, Carries
<1>9. Counters'
  BY <1>2 DEF Counters, history
<1> QED
  BY <1>4, <1>6, <1>7, <1>8, <1>9, StructurePrimed

(* settleIdle() *)
LEMMA SettleIdleStructure ==
    ASSUME NEW b, NEW d, NEW its, NEW f,
           MoneyOK, Counters, HeldBy(d, run), d.live,
           Consistent(proc', b, d, its, run, f), proc' \in {"up", "stopping"},
           SettleIdle(b, d, its),
           file' = f, items' = its, run' = run, pumping' = "no", UNCHANGED history
    PROVE  Structure' /\ MoneyOK'
<1>1. /\ b \in BatchRecord /\ d \in LiveBatch /\ its \in [Items -> Item] /\ b.state # "running"
  BY DEF Consistent, SettleIdle
<1>2. /\ Consistent(proc', batch', lb', items', run', file') /\ batch'.state # "running"
      /\ HeldBy(lb, run)' /\ MoneyOK'
  <2>1. CASE d.outstanding = {}
    <3>1. /\ batch' = IF b.state = "paused" /\ PendingOf(its) = <<>>
                      THEN [b EXCEPT !.state = "completed", !.reason = "none"] ELSE b
          /\ lb' = NotLoaded
          /\ ReleaseAnchor(d)
      BY <2>1 DEF SettleIdle
    <3>2. batch' \in BatchRecord /\ batch'.state # "running"
      BY <1>1, <3>1 DEF BatchRecord
    <3>3. InFlight(its) = {}
      BY <2>1 DEF Consistent
    <3>4. Consistent(proc', batch', NotLoaded, its, run, f)
      BY <2>1, <3>2, <3>3, Reloads
    <3>5. /\ MoneyOK' /\ hold'[Anchor] = "closed"
          /\ \A r \in RunIds : hold'[r] = "open" <=> run[r].phase = "running"
      BY <3>1, AnchorReleased
    <3>6. HeldBy(lb, run)'
      BY <3>1, <3>5, IsNotLoaded DEF HeldBy
    <3> QED
      BY <3>1, <3>2, <3>4, <3>5, <3>6
  <2>2. CASE d.outstanding # {}
    <3>1. batch' = b /\ lb' = d /\ UNCHANGED balVars
      BY <2>2 DEF SettleIdle
    <3> QED
      BY <1>1, <3>1, MoneyUnchanged DEF HeldBy, balVars
  <2> QED
    BY <2>1, <2>2
<1>3. Driven'
  BY <1>2 DEF Driven, Carries
<1>4. Counters'
  BY DEF Counters, history
<1> QED
  BY <1>2, <1>3, <1>4, StructurePrimed

(* The process is gone: only the disk is left. *)
LEMMA LostStructure ==
    ASSUME Structure, MoneyOK, Lost, Counters', batch' = batch, items' = items,
           file' \in [RunIds -> RunFile]
    PROVE  Structure' /\ MoneyOK'
<1>1. /\ proc' = "down" /\ pumping' = "no" /\ lb' = NotLoaded /\ run' = [r \in RunIds |-> NotCarried]
  BY DEF Lost
<1>2. NotCarried \in Carried /\ NotCarried.phase = "idle"
  BY BatchConstants DEF NotCarried, Carried
<1>3. Placed(lb', items', run', file')
  BY <1>1, <1>2, IsNotLoaded DEF Placed
<1>4. Consistent(proc', batch', lb', items', run', file')
  BY <1>1, <1>2, <1>3, IsNotLoaded DEF Consistent, Structure
<1>5. MoneyOK' /\ \A r \in Money!Runs : hold'[r] = "closed"
  BY MoneyLost
<1>6. HeldBy(lb, run)'
  BY <1>1, <1>2, <1>5, Holds, IsNotLoaded DEF HeldBy
<1>7. Driven'
  BY <1>1, IsNotLoaded DEF Driven, Carries
<1> QED
  BY <1>4, <1>5, <1>6, <1>7, StructurePrimed

-----------------------------------------------------------------------------
(* Every step keeps the structure *)

Sound == Structure /\ MoneyOK

LEMMA InitSound == Init => Sound
<1> SUFFICES ASSUME Init PROVE Sound
  OBVIOUS
<1>1. /\ batch = [state |-> "none", budget |-> FirstBudget, reason |-> "none", disarmed |-> FALSE]
      /\ items = [i \in Items |-> NewItem]
      /\ file = [r \in RunIds |-> NoRecord]
      /\ lb = NotLoaded
      /\ run = [r \in RunIds |-> NotCarried]
      /\ pumping = "no" /\ proc = "none" /\ Bal!Init
      /\ spent = 0 /\ unbilled = 0 /\ escaped = {} /\ crashes = 0
  BY DEF Init
<1>2. /\ NotCarried \in Carried /\ NotCarried.phase = "idle"
      /\ NewItem \in Item /\ NewItem.state = "pending" /\ NewItem.run = NoRun
      /\ NoRecord \in RunFile
  BY BatchConstants DEF NotCarried, Carried, NewItem, Item, NoRecord, RunFile
<1>3. batch \in BatchRecord
  BY <1>1, BatchConstants DEF BatchRecord
<1>4. Named(items) /\ InFlight(items) = {}
  BY <1>1, <1>2 DEF Named, InFlight
<1>5. Placed(lb, items, run, file)
  BY <1>1, <1>2, IsNotLoaded DEF Placed
<1>6. Consistent(proc, batch, lb, items, run, file)
  BY <1>1, <1>2, <1>3, <1>4, <1>5, IsNotLoaded DEF Consistent
<1>7. MoneyOK /\ hold[Anchor] = "closed" /\ \A r \in RunIds : hold[r] = "closed"
  BY <1>1, MoneyInit, Holds DEF Bal!Init, Bal!Runs, Money!Runs
<1>8. HeldBy(lb, run)
  BY <1>1, <1>2, <1>7, IsNotLoaded DEF HeldBy
<1>9. Driven /\ Counters
  BY <1>1, <1>4, BatchConstants, IsNotLoaded DEF Driven, Counters, Carries
<1> QED
  BY <1>6, <1>7, <1>8, <1>9 DEF Sound, Structure

(* While a process is up it drives the batch it has in memory. *)
LEMMA UpFacts ==
    ASSUME Structure, Carries
    PROVE  /\ batch \in BatchRecord /\ lb \in LiveBatch /\ items \in [Items -> Item]
           /\ run \in [RunIds -> Carried] /\ file \in [RunIds -> RunFile]
           /\ Named(items) /\ Placed(lb, items, run, file)
           /\ lb.outstanding = InFlight(items)
           /\ proc = "up" /\ lb.live => Lists(lb.pending, PendingItems(items))
BY DEF Structure, Consistent, Carries

(* There is a run number for an item that is still pending. *)
LEMMA FreeRun ==
    ASSUME Structure, Carries, NEW i \in Items, items[i].state = "pending"
    PROVE  \E x \in RunIds : run[x].phase = "idle" /\ \A j \in Items : items[j].run # x
<1>1. \E x \in RunIds : \A j \in Items : items[j].run # x
  <2> SUFFICES ASSUME \A x \in RunIds : \E j \in Items : items[j].run = x PROVE FALSE
    OBVIOUS
  <2> DEFINE others == Items \ {i}
             f == [x \in RunIds |-> CHOOSE j \in others : items[j].run = x]
  <2>1. items[i].run = NoRun /\ NoRun \notin RunIds
    BY UpFacts DEF Named, NoRun, RunIds
  <2>2. \A x \in RunIds : \E j \in others : items[j].run = x
    BY <2>1
  <2>3. f \in [RunIds -> others] /\ \A x \in RunIds : items[f[x]].run = x
    BY <2>2
  <2>4. IsFiniteSet(RunIds) /\ Cardinality(RunIds) = NumRunIds
    BY FS_Interval, BatchConstants DEF RunIds
  <2>5. IsFiniteSet(Items) /\ Cardinality(Items) = NumItems
    BY FS_Interval, BatchConstants DEF Items
  <2>6. IsFiniteSet(others) /\ Cardinality(others) = NumItems - 1
    BY <2>5, FS_RemoveElement
  <2>7. Cardinality(others) < Cardinality(RunIds)
    BY <2>4, <2>6, BatchConstants
  <2> HIDE DEF others, f
  <2>8. \E x, y \in RunIds : x # y /\ f[x] = f[y]
    BY <2>3, <2>4, <2>6, <2>7, FS_PigeonHole
  <2> QED
    BY <2>3, <2>8
<1>2. ASSUME NEW x \in RunIds, \A j \in Items : items[j].run # x
      PROVE  run[x].phase = "idle"
  BY <1>2, UpFacts DEF Placed, RunPlaced, LiveBatch
<1> QED
  BY <1>1, <1>2

LEMMA CreateSound ==
    ASSUME Sound, Create
    PROVE  Sound'
<1> DEFINE b == [batch EXCEPT !.state = "running"]
           d == FreshBatch(items)
<1>1. /\ proc = "none" /\ proc' = "up" /\ Activate(b, d, items, "driver")
      /\ UNCHANGED <<file, run, history>>
  BY DEF Create
<1>2. Consistent(proc, batch, lb, items, run, file) /\ HeldBy(lb, run) /\ Counters
      /\ ~lb.live /\ InFlight(items) = {}
  BY <1>1 DEF Sound, Structure, Driven, Carries
<1>3. b \in BatchRecord /\ lb.outstanding = {} /\ ~lb.anchored
  BY <1>2 DEF Consistent, BatchRecord
<1>4. Consistent("up", b, d, items, run, file')
  <2>1. /\ Consistent(proc, batch, lb, items, run, file) /\ lb.outstanding = {} /\ b \in BatchRecord
        /\ InFlight(items) = {}
    BY <1>2, <1>3
  <2>2. Consistent("up", b, FreshBatch(items), items, run, file)
    <3> HIDE DEF b
    <3> QED
      BY <2>1, Reloads
  <2> QED
    BY <1>1, <2>2
<1>5. HeldBy(d, run) /\ d.live
  BY <1>2, <1>3, IsFreshBatch DEF HeldBy
<1> HIDE DEF b, d
<1> QED
  BY <1>1, <1>2, <1>4, <1>5, ActivateStructure DEF Sound

(* The loop's guard: the batch is driven. *)
LEMMA Asking ==
    ASSUME Structure, CanAsk
    PROVE  /\ proc = "up" /\ Carries /\ lb.live /\ lb.anchored /\ batch.state = "running"
           /\ lb.pending # <<>>
BY DEF Structure, CanAsk, Driven, Carries

LEMMA AskItemSound ==
    ASSUME Sound, NEW started \in BOOLEAN, AskItem(started)
    PROVE  Sound'
<1> DEFINE i == Head(lb.pending)
           r == CHOOSE x \in RunIds : run[x].phase = "idle" /\ \A j \in Items : items[j].run # x
           state == IF started THEN "running" ELSE "queued"
           phase == IF started THEN "dispatched" ELSE "queued"
           left == IF started THEN Remaining(batch, items)[Account] ELSE 0
           carried == [NotCarried EXCEPT !.phase = phase, !.item = i, !.remaining = left]
           record == [NoRecord EXCEPT !.ticket = state]
<1>1. /\ CanAsk
      /\ items' = [items EXCEPT ![i].state = state, ![i].run = r]
      /\ lb' = [lb EXCEPT !.pending = Tail(@), !.outstanding = @ \cup {i}, !.endedSince[r] = FALSE]
      /\ run' = [run EXCEPT ![r] = carried]
      /\ file' = [file EXCEPT ![r] = record]
      /\ UNCHANGED <<batch, pumping, proc, balVars, history>>
  BY DEF AskItem
<1>2. /\ proc = "up" /\ Carries /\ lb.live /\ lb.anchored /\ lb.pending # <<>>
      /\ HeldBy(lb, run) /\ Driven /\ Counters /\ MoneyOK
  BY <1>1, Asking DEF Sound, Structure
<1>3. /\ batch \in BatchRecord /\ lb \in LiveBatch /\ items \in [Items -> Item]
      /\ run \in [RunIds -> Carried] /\ file \in [RunIds -> RunFile]
      /\ Named(items) /\ Placed(lb, items, run, file) /\ lb.outstanding = InFlight(items)
      /\ Lists(lb.pending, PendingItems(items))
  BY <1>2, UpFacts DEF Sound
<1>4. i \in Items /\ items[i].state = "pending" /\ Lists(Tail(lb.pending), PendingItems(items) \ {i})
  <2>1. i \in PendingItems(items) /\ Lists(Tail(lb.pending), PendingItems(items) \ {i})
    BY <1>2, <1>3, TailLists
  <2> QED
    BY <2>1 DEF PendingItems
<1>5. r \in RunIds /\ run[r].phase = "idle" /\ \A j \in Items : items[j].run # r
  BY <1>2, <1>4, FreeRun DEF Sound
<1> HIDE DEF i, r
<1>6. state \in {"running", "queued"} /\ left \in Nat
  BY <1>3, RemainingTypes
<1>7. carried \in Carried /\ carried.phase = phase /\ carried.item = i
  <2> HIDE DEF left
  <2>1. i \in 0..NumItems
    BY <1>4 DEF Items
  <2> QED
    BY <1>6, <2>1 DEF NotCarried, Carried
<1>8. record \in RunFile /\ record.ticket = state /\ ~record.line /\ record.used = 0
  BY DEF NoRecord, RunFile
<1>9. /\ items' \in [Items -> Item]
      /\ items'[i].state = state /\ items'[i].run = r
      /\ \A j \in Items : j # i => items'[j] = items[j]
  <2>1. items[i] \in Item
    BY <1>3, <1>4
  <2>2. [items[i] EXCEPT !.state = state, !.run = r] \in Item
    BY <1>5, <1>6, <2>1 DEF Item
  <2>3. items' = [items EXCEPT ![i] = [items[i] EXCEPT !.state = state, !.run = r]]
    BY <1>1
  <2>4. items'[i] = [items[i] EXCEPT !.state = state, !.run = r]
    BY <1>3, <1>4, <2>3
  <2> HIDE DEF state
  <2> QED
    BY <1>3, <1>4, <2>1, <2>2, <2>3, <2>4 DEF Item
<1>10. /\ lb' \in LiveBatch /\ lb'.live = lb.live /\ lb'.anchored = lb.anchored /\ lb'.retry = lb.retry
       /\ lb'.pending = Tail(lb.pending) /\ lb'.outstanding = lb.outstanding \cup {i}
  <2> DEFINE since == [lb.endedSince EXCEPT ![r] = FALSE]
             tail == Tail(lb.pending)
             out == lb.outstanding \cup {i}
  <2>1. lb' = [lb EXCEPT !.pending = tail, !.outstanding = out, !.endedSince = since]
    BY <1>1, <1>3 DEF LiveBatch
  <2>2. since \in [RunIds -> BOOLEAN] /\ tail \in Seq(Items) /\ out \in SUBSET Items
    BY <1>3, <1>4 DEF LiveBatch, Lists
  <2> HIDE DEF since, tail, out
  <2>3. /\ lb' \in LiveBatch /\ lb'.live = lb.live /\ lb'.anchored = lb.anchored /\ lb'.retry = lb.retry
        /\ lb'.pending = tail /\ lb'.outstanding = out
    BY <1>3, <2>1, <2>2 DEF LiveBatch
  <2> QED
    BY <2>3 DEF tail, out
<1> HIDE DEF state, left, carried, record
<1>11. /\ run' \in [RunIds -> Carried] /\ run'[r] = carried /\ \A s \in RunIds : s # r => run'[s] = run[s]
       /\ file' \in [RunIds -> RunFile] /\ file'[r] = record /\ \A s \in RunIds : s # r => file'[s] = file[s]
  BY <1>1, <1>3, <1>5, <1>7, <1>8
<1>12. Named(items')
  <2>1. NoRun \notin RunIds
    BY DEF NoRun, RunIds
  <2> SUFFICES ASSUME NEW j \in Items
               PROVE  /\ items'[j].state = "pending" => items'[j].run = NoRun
                      /\ items'[j].state \in {"queued", "running"} => items'[j].run # NoRun
                      /\ \A k \in Items : items'[j].run = items'[k].run /\ items'[j].run # NoRun => j = k
    BY DEF Named
  <2>2. CASE j = i
    BY <1>5, <1>6, <1>9, <2>1, <2>2
  <2>3. CASE j # i
    BY <1>3, <1>5, <1>9, <2>1, <2>3 DEF Named
  <2> QED
    BY <2>2, <2>3
<1>13. InFlight(items') = lb'.outstanding /\ PendingItems(items') = PendingItems(items) \ {i}
  <2>1. InFlight(items') = InFlight(items) \cup {i}
    BY <1>4, <1>6, <1>9 DEF InFlight
  <2>2. PendingItems(items') = PendingItems(items) \ {i}
    BY <1>4, <1>6, <1>9 DEF PendingItems
  <2> QED
    BY <1>3, <1>10, <2>1, <2>2
<1>14. Placed(lb', items', run', file')
  <2>1. ASSUME NEW s \in RunIds, run'[s].phase # "idle" PROVE RunPlaced(s, lb', items', run', file')
    <3>1. CASE s = r
      <4>1. run'[s].item = i /\ i \in lb'.outstanding /\ items'[i].run = s /\ items'[i].state = state
            /\ run'[s].phase = phase /\ lb'.anchored /\ file'[s] = record
        BY <1>2, <1>7, <1>9, <1>10, <1>11, <3>1
      <4> QED
        BY <1>8, <4>1 DEF RunPlaced, state
    <3>2. CASE s # r
      <4>1. run'[s] = run[s] /\ file'[s] = file[s]
        BY <1>11, <3>2
      <4>2. RunPlaced(s, lb, items, run, file)
        BY <1>3, <2>1, <4>1 DEF Placed
      <4>3. run[s].item \in Items /\ run[s].item # i
        BY <1>3, <1>4, <4>2 DEF RunPlaced, InFlight
      <4>4. items'[run[s].item] = items[run[s].item]
        BY <1>9, <4>3
      <4> QED
        BY <1>10, <4>1, <4>2, <4>4 DEF RunPlaced
    <3> QED
      BY <3>1, <3>2
  <2>2. ASSUME NEW j \in lb'.outstanding
        PROVE  items'[j].run \in RunIds /\ run'[items'[j].run].phase # "idle" /\ run'[items'[j].run].item = j
    <3>1. CASE j = i
      BY <1>5, <1>7, <1>9, <1>11, <3>1
    <3>2. CASE j # i
      <4>1. j \in lb.outstanding /\ j \in Items
        BY <1>3, <1>10, <2>2, <3>2 DEF LiveBatch
      <4>2. items'[j] = items[j] /\ items[j].run # r
        BY <1>5, <1>9, <3>2, <4>1
      <4> QED
        BY <1>3, <1>11, <4>1, <4>2 DEF Placed
    <3> QED
      BY <3>1, <3>2
  <2> QED
    BY <2>1, <2>2 DEF Placed
<1>15. Consistent(proc', batch', lb', items', run', file')
  BY <1>1, <1>2, <1>3, <1>4, <1>9, <1>10, <1>11, <1>12, <1>13, <1>14 DEF Consistent
<1>16. MoneyOK'
  BY <1>1, <1>2, MoneyUnchanged
<1>17. HeldBy(lb, run)'
  <2>1. carried.phase # "running"
    BY <1>7
  <2> QED
    BY <1>1, <1>2, <1>5, <1>10, <1>11, <2>1 DEF HeldBy, balVars
<1>18. Driven' /\ Counters'
  BY <1>1, <1>2, <1>10 DEF Driven, Counters, Carries, history
<1> QED
  BY <1>15, <1>16, <1>17, <1>18, StructurePrimed DEF Sound

LEMMA AskRefusedSound ==
    ASSUME Sound, AskRefused
    PROVE  Sound'
<1>1. /\ CanAsk /\ lb' = [lb EXCEPT !.retry = TRUE] /\ pumping' = "no"
      /\ UNCHANGED <<disk, run, proc, balVars, history>>
  BY DEF AskRefused
<1>2. /\ proc = "up" /\ Carries /\ lb.live /\ lb.anchored /\ HeldBy(lb, run) /\ Driven /\ Counters /\ MoneyOK
      /\ Consistent(proc, batch, lb, items, run, file)
  BY <1>1, Asking DEF Sound, Structure
<1>3. /\ lb' \in LiveBatch /\ lb'.live = lb.live /\ lb'.anchored = lb.anchored
      /\ lb'.pending = lb.pending /\ lb'.outstanding = lb.outstanding
  BY <1>1, <1>2 DEF LiveBatch, Consistent
<1>4. Consistent(proc', batch', lb', items', run', file')
  BY <1>1, <1>2, <1>3 DEF Consistent, Placed, RunPlaced, disk
<1>5. HeldBy(lb, run)' /\ Driven' /\ Counters' /\ MoneyOK'
  BY <1>1, <1>2, <1>3, MoneyUnchanged DEF HeldBy, Driven, Counters, Carries, disk, history, balVars
<1> QED
  BY <1>4, <1>5, StructurePrimed DEF Sound

LEMMA AskPausesSound ==
    ASSUME Sound, NEW reason \in {"budget", "unavailable"}, AskPauses(reason)
    PROVE  Sound'
<1>1. /\ CanAsk /\ Pause(batch, lb, items, run, reason)
      /\ pumping' = IF pumping = "control" THEN "driver" ELSE "no"
      /\ UNCHANGED <<proc, spent, unbilled, crashes>>
  BY DEF AskPauses
<1>2. Carries /\ lb.live
  BY <1>1, Asking DEF Sound
<1>3. MoneyOK /\ Counters /\ HeldBy(lb, run) /\ Consistent(proc, batch, lb, items, run, file)
  BY DEF Sound, Structure
<1> QED
  BY <1>1, <1>2, <1>3, PauseStructure DEF Sound

LEMMA PumpEndsSound ==
    ASSUME Sound, PumpEnds
    PROVE  Sound'
<1>1. pumping' = "no" /\ UNCHANGED <<disk, lb, run, proc, balVars, history>>
  BY DEF PumpEnds
<1>2. /\ HeldBy(lb, run) /\ Driven /\ Counters /\ MoneyOK
      /\ Consistent(proc, batch, lb, items, run, file)
  BY DEF Sound, Structure
<1>3. Consistent(proc', batch', lb', items', run', file')
  BY <1>1, <1>2 DEF disk
<1>4. HeldBy(lb, run)' /\ Driven' /\ Counters' /\ MoneyOK'
  BY <1>1, <1>2, MoneyUnchanged DEF HeldBy, Driven, Counters, Carries, disk, history, balVars
<1> QED
  BY <1>3, <1>4, StructurePrimed DEF Sound

LEMMA CompleteSound ==
    ASSUME Sound, Complete
    PROVE  Sound'
<1>1. /\ pumping # "no" /\ batch.state = "running" /\ lb.outstanding = {}
      /\ batch' = [batch EXCEPT !.state = "completed"]
      /\ lb' = NotLoaded /\ ReleaseAnchor(lb) /\ pumping' = "no"
      /\ UNCHANGED <<items, file, run, proc, history>>
  BY DEF Complete
<1>2. /\ HeldBy(lb, run) /\ Driven /\ Counters /\ MoneyOK
      /\ Consistent(proc, batch, lb, items, run, file)
  BY DEF Sound, Structure
<1>3. Carries /\ InFlight(items) = {}
  BY <1>1, <1>2 DEF Driven, Consistent, Carries
<1>4. batch' \in BatchRecord /\ batch'.state = "completed"
  BY <1>1, <1>2 DEF Consistent, BatchRecord
<1>5. Consistent(proc', batch', lb', items', run', file')
  BY <1>1, <1>2, <1>3, <1>4, Reloads
<1>6. /\ MoneyOK' /\ hold'[Anchor] = "closed"
      /\ \A r \in RunIds : hold'[r] = "open" <=> run[r].phase = "running"
  BY <1>1, <1>2, AnchorReleased
<1>7. HeldBy(lb, run)'
  BY <1>1, <1>6, IsNotLoaded DEF HeldBy
<1>8. Driven' /\ Counters'
  BY <1>1, <1>2, <1>3, <1>4 DEF Driven, Counters, Carries, history
<1> QED
  BY <1>5, <1>6, <1>7, <1>8, StructurePrimed DEF Sound

LEMMA PumpIdleSound ==
    ASSUME Sound, PumpIdle
    PROVE  Sound'
<1>1. /\ pumping # "no" /\ SettleIdle(batch, lb, items) /\ pumping' = "no"
      /\ UNCHANGED <<items, file, run, proc, history>>
  BY DEF PumpIdle
<1>2. /\ HeldBy(lb, run) /\ Driven /\ Counters /\ MoneyOK
      /\ Consistent(proc', batch, lb, items, run, file)
  BY <1>1 DEF Sound, Structure
<1>3. lb.live /\ proc' \in {"up", "stopping"}
  BY <1>1, <1>2 DEF Driven, Carries
<1> QED
  BY <1>1, <1>2, <1>3, SettleIdleStructure DEF Sound

LEMMA RetryTimerSound ==
    ASSUME Sound, RetryTimer
    PROVE  Sound'
<1>1. /\ proc = "up" /\ lb.retry /\ lb' = [lb EXCEPT !.retry = FALSE] /\ pumping' = "driver"
      /\ UNCHANGED <<disk, run, proc, balVars, history>>
  BY DEF RetryTimer
<1>2. /\ HeldBy(lb, run) /\ Driven /\ Counters /\ MoneyOK
      /\ Consistent(proc, batch, lb, items, run, file)
  BY DEF Sound, Structure
<1>3. /\ lb' \in LiveBatch /\ lb'.live = lb.live /\ lb'.anchored = lb.anchored
      /\ lb'.pending = lb.pending /\ lb'.outstanding = lb.outstanding
  BY <1>1, <1>2 DEF LiveBatch, Consistent
<1>4. lb.live
  BY <1>1, <1>2 DEF Consistent
<1>5. Consistent(proc', batch', lb', items', run', file')
  BY <1>1, <1>2, <1>3, <1>4 DEF Consistent, Placed, RunPlaced, disk
<1>6. HeldBy(lb, run)' /\ Driven' /\ Counters' /\ MoneyOK'
  BY <1>1, <1>2, <1>3, <1>4, MoneyUnchanged DEF HeldBy, Driven, Counters, Carries, disk, history, balVars
<1> QED
  BY <1>5, <1>6, StructurePrimed DEF Sound

(* A step of one run that is carried, and of the state of its item. *)
LEMMA OneRunMoves ==
    ASSUME Structure, Carries, NEW r \in RunIds, run[r].phase # "idle",
           run' \in [RunIds -> Carried], file' \in [RunIds -> RunFile], items' \in [Items -> Item],
           \A s \in RunIds : s # r => run'[s] = run[s] /\ file'[s] = file[s],
           \A j \in Items : j # run[r].item => items'[j] = items[j],
           items'[run[r].item].state \in {"queued", "running"},
           run'[r].phase # "idle", run'[r].item = run[r].item,
           RunPlaced(r, lb, items', run', file'),
           UNCHANGED <<batch, lb, proc>>
    PROVE  Consistent(proc', batch', lb', items', run', file')
<1> DEFINE i == run[r].item
<1>1. /\ lb \in LiveBatch /\ Named(items) /\ Placed(lb, items, run, file) /\ lb.outstanding = InFlight(items)
  BY UpFacts
<1>2. RunPlaced(r, lb, items, run, file)
  BY <1>1 DEF Placed
<1>3. /\ i \in lb.outstanding /\ i \in Items /\ items[i].run = r /\ items'[i].run = r
      /\ items[i].state \in {"queued", "running"} /\ items'[i].state \in {"queued", "running"}
      /\ \A j \in Items : j # i => items'[j] = items[j]
      /\ run'[r].item = i
  BY <1>1, <1>2 DEF RunPlaced, InFlight
<1> HIDE DEF i
<1>4. \A j \in Items : /\ items'[j].run = items[j].run
                       /\ items'[j].state \in {"queued", "running"} <=> items[j].state \in {"queued", "running"}
                       /\ items'[j].state = "pending" <=> items[j].state = "pending"
  <2> SUFFICES ASSUME NEW j \in Items
               PROVE  /\ items'[j].run = items[j].run
                      /\ items'[j].state \in {"queued", "running"} <=> items[j].state \in {"queued", "running"}
                      /\ items'[j].state = "pending" <=> items[j].state = "pending"
    OBVIOUS
  <2>1. CASE j = i
    BY <1>3, <2>1
  <2>2. CASE j # i
    BY <1>3, <2>2
  <2> QED
    BY <2>1, <2>2
<1>5. InFlight(items') = InFlight(items) /\ PendingItems(items') = PendingItems(items) /\ Named(items')
  BY <1>1, <1>4 DEF InFlight, PendingItems, Named
<1>6. Placed(lb', items', run', file')
  <2>1. ASSUME NEW s \in RunIds, run'[s].phase # "idle" PROVE RunPlaced(s, lb', items', run', file')
    <3>1. CASE s = r
      BY <3>1
    <3>2. CASE s # r
      <4>1. run'[s] = run[s] /\ file'[s] = file[s]
        BY <3>2
      <4>2. RunPlaced(s, lb, items, run, file)
        BY <1>1, <2>1, <4>1 DEF Placed
      <4>3. run[s].item \in Items /\ run[s].item # i
        BY <1>1, <1>3, <3>2, <4>2 DEF RunPlaced, InFlight
      <4>4. items'[run[s].item] = items[run[s].item]
        BY <1>3, <4>3
      <4> QED
        BY <4>1, <4>2, <4>4 DEF RunPlaced
    <3> QED
      BY <3>1, <3>2
  <2>2. ASSUME NEW j \in lb'.outstanding
        PROVE  items'[j].run \in RunIds /\ run'[items'[j].run].phase # "idle" /\ run'[items'[j].run].item = j
    <3>1. j \in lb.outstanding /\ j \in Items
      BY <1>1, <2>2 DEF LiveBatch
    <3>2. items'[j].run = items[j].run
      BY <1>4, <3>1
    <3>3. items[j].run \in RunIds /\ run[items[j].run].phase # "idle" /\ run[items[j].run].item = j
      BY <1>1, <3>1 DEF Placed
    <3>4. CASE items[j].run = r
      BY <1>3, <3>2, <3>3, <3>4 DEF i
    <3>5. CASE items[j].run # r
      BY <3>2, <3>3, <3>5
    <3> QED
      BY <3>4, <3>5
  <2> QED
    BY <2>1, <2>2 DEF Placed
<1> QED
  BY <1>5, <1>6 DEF Structure, Consistent

(* Its other effects. *)
LEMMA RunStepSound ==
    ASSUME Sound, Carries, Consistent(proc', batch', lb', items', run', file'),
           MoneyOK', HeldBy(lb, run)',
           UNCHANGED <<batch, lb, pumping, proc, escaped, crashes>>,
           spent' \in Nat, unbilled' \in Nat
    PROVE  Sound'
<1>1. Driven' /\ Counters'
  BY DEF Sound, Structure, Driven, Counters, Carries
<1> QED
  BY <1>1, StructurePrimed DEF Sound

LEMMA StartQueuedSound ==
    ASSUME Sound, NEW r \in RunIds, StartQueued(r)
    PROVE  Sound'
<1> DEFINE i == run[r].item
           left == Remaining(batch, items)[Account]
<1>1. /\ run[r].phase = "queued" /\ proc = "up"
      /\ run' = [run EXCEPT ![r].phase = "dispatched", ![r].remaining = left]
      /\ file' = [file EXCEPT ![r].ticket = "running"]
      /\ items' = [items EXCEPT ![i].state = IF items[i].run = r THEN "running" ELSE @]
      /\ UNCHANGED <<batch, lb, pumping, proc, balVars, history>>
  BY DEF StartQueued
<1>2. Structure /\ Carries /\ MoneyOK /\ HeldBy(lb, run) /\ Counters
  BY <1>1 DEF Sound, Carries, Structure
<1>3. /\ batch \in BatchRecord /\ lb \in LiveBatch /\ items \in [Items -> Item]
      /\ run \in [RunIds -> Carried] /\ file \in [RunIds -> RunFile]
      /\ Placed(lb, items, run, file)
  BY <1>2, UpFacts
<1>4. RunPlaced(r, lb, items, run, file)
  BY <1>1, <1>3 DEF Placed
<1>5. i \in Items /\ items[i].run = r /\ left \in Nat
  BY <1>3, <1>4, RemainingTypes DEF RunPlaced, LiveBatch
<1> HIDE DEF left
<1>6. /\ run' \in [RunIds -> Carried] /\ run'[r].phase = "dispatched" /\ run'[r].item = i
      /\ \A s \in RunIds : s # r => run'[s] = run[s]
  <2> DEFINE moved == [run[r] EXCEPT !.phase = "dispatched", !.remaining = left]
  <2>1. run[r] \in Carried
    BY <1>3
  <2>2. moved \in Carried /\ moved.phase = "dispatched" /\ moved.item = i
    BY <1>5, <2>1 DEF Carried
  <2>3. run' = [run EXCEPT ![r] = moved]
    BY <1>1, <1>3
  <2> HIDE DEF moved
  <2> QED
    BY <1>3, <2>2, <2>3
<1>7. /\ file' \in [RunIds -> RunFile] /\ file'[r].ticket = "running" /\ file'[r].line = file[r].line
      /\ \A s \in RunIds : s # r => file'[s] = file[s]
  BY <1>1, <1>3 DEF RunFile
<1>8. /\ items' \in [Items -> Item] /\ items'[i].state = "running" /\ items'[i].run = r
      /\ \A j \in Items : j # i => items'[j] = items[j]
  <2> HIDE DEF i
  <2> QED
    BY <1>1, <1>3, <1>5 DEF Item
<1>9. RunPlaced(r, lb, items', run', file')
  BY <1>1, <1>4, <1>6, <1>7, <1>8 DEF RunPlaced
<1>10. Consistent(proc', batch', lb', items', run', file')
  BY <1>1, <1>2, <1>6, <1>7, <1>8, <1>9, OneRunMoves
<1>11. MoneyOK' /\ HeldBy(lb, run)'
  <2>1. MoneyOK'
    BY <1>1, <1>2, MoneyUnchanged
  <2>2. \A s \in RunIds : run'[s].phase = "running" <=> run[s].phase = "running"
    BY <1>1, <1>6
  <2> QED
    BY <1>1, <1>2, <2>1, <2>2 DEF HeldBy, balVars
<1> QED
  BY <1>1, <1>2, <1>10, <1>11, RunStepSound DEF history, Counters

(* A step of a run that holds or is about to hold the account. *)
LEMMA EngineMoves ==
    ASSUME Structure, Carries, NEW r \in RunIds, run[r].phase \in {"dispatched", "running"},
           run' \in [RunIds -> Carried],
           \A s \in RunIds : s # r => run'[s] = run[s],
           run'[r].phase \in {"dispatched", "running", "ended"}, run'[r].item = run[r].item,
           file' \in [RunIds -> RunFile],
           \A s \in RunIds : s # r => file'[s] = file[s],
           file'[r].ticket = file[r].ticket, file'[r].line = file[r].line,
           UNCHANGED <<batch, items, lb, proc>>
    PROVE  Consistent(proc', batch', lb', items', run', file')
<1>1. /\ items \in [Items -> Item] /\ lb \in LiveBatch /\ Placed(lb, items, run, file)
  BY UpFacts
<1>2. RunPlaced(r, lb, items, run, file)
  BY <1>1 DEF Placed
<1>3. items[run[r].item].state = "running"
  BY <1>2 DEF RunPlaced
<1>4. RunPlaced(r, lb, items', run', file')
  BY <1>2 DEF RunPlaced
<1> QED
  BY <1>1, <1>3, <1>4, OneRunMoves

LEMMA RunOpensSound ==
    ASSUME Sound, NEW r \in RunIds, RunOpens(r)
    PROVE  Sound'
<1> DEFINE left == [a \in {Account} |-> run[r].remaining]
<1>1. /\ run[r].phase = "dispatched" /\ Carries
      /\ Bal!Open(r, left)
      /\ run' = [run EXCEPT ![r].phase = "running", ![r].remaining = 0]
      /\ UNCHANGED <<disk, lb, pumping, proc, history>>
  BY DEF RunOpens, Carries
<1>2. Structure /\ MoneyOK /\ HeldBy(lb, run) /\ Counters
  BY DEF Sound, Structure
<1>3. run \in [RunIds -> Carried] /\ file \in [RunIds -> RunFile]
  BY <1>1, <1>2, UpFacts
<1>4. left \in [{Account} -> Nat]
  BY <1>3 DEF Carried
<1>5. /\ run' \in [RunIds -> Carried] /\ run'[r].phase = "running" /\ run'[r].item = run[r].item
      /\ \A s \in RunIds : s # r => run'[s] = run[s]
  <2> DEFINE moved == [run[r] EXCEPT !.phase = "running", !.remaining = 0]
  <2>1. run[r] \in Carried
    BY <1>3
  <2>2. moved \in Carried /\ moved.phase = "running" /\ moved.item = run[r].item
    BY <1>1, <2>1 DEF Carried
  <2>3. run' = [run EXCEPT ![r] = moved]
    BY <1>1, <1>3
  <2> HIDE DEF moved
  <2> QED
    BY <1>3, <2>2, <2>3
<1>6. Consistent(proc', batch', lb', items', run', file')
  BY <1>1, <1>2, <1>3, <1>5, EngineMoves DEF disk
<1> HIDE DEF left
<1>7. r \in Money!Runs /\ Anchor \in Money!Runs /\ Anchor # r /\ RunIds \subseteq Money!Runs
  BY Holds
<1>8. MoneyOK' /\ hold' = [hold EXCEPT ![r] = "open"]
  BY <1>1, <1>2, <1>4, <1>7, MoneyOpens
<1>9. hold \in [Money!Runs -> {"closed", "open"}]
  BY <1>2, MoneyTypes
<1>10. HeldBy(lb, run)'
  <2>1. /\ hold'[r] = "open" /\ hold'[Anchor] = hold[Anchor]
        /\ \A s \in RunIds : s # r => hold'[s] = hold[s]
    BY <1>7, <1>8, <1>9
  <2> QED
    BY <1>1, <1>2, <1>5, <2>1 DEF HeldBy
<1> QED
  BY <1>1, <1>2, <1>6, <1>8, <1>10, RunStepSound DEF disk, history, Counters

LEMMA CallStartsSound ==
    ASSUME Sound, NEW r \in RunIds, NEW out \in MinCall..MaxCall, CallStarts(r, out)
    PROVE  Sound'
<1>1. /\ Carries /\ Bal!CheckGranted(r, 0, MaxCall, MinCall, out)
      /\ UNCHANGED <<disk, lb, run, pumping, proc, history>>
  BY DEF CallStarts, Carries
<1>2. Consistent(proc, batch, lb, items, run, file) /\ MoneyOK /\ HeldBy(lb, run) /\ Counters
  BY DEF Sound, Structure
<1>3. MoneyOK' /\ UNCHANGED <<holders, balance, hold>>
  BY <1>1, <1>2, MoneyGrants
<1>4. Consistent(proc', batch', lb', items', run', file')
  BY <1>1, <1>2 DEF disk
<1>5. HeldBy(lb, run)'
  BY <1>1, <1>2, <1>3 DEF HeldBy
<1> QED
  BY <1>1, <1>2, <1>3, <1>4, <1>5, RunStepSound DEF disk, history, Counters

LEMMA CallRefusedSound ==
    ASSUME Sound, NEW r \in RunIds, CallRefused(r)
    PROVE  Sound'
<1>1. /\ run[r].phase = "running" /\ Carries /\ Bal!CheckRefused(r, 0, MaxCall, MinCall)
      /\ run' = [run EXCEPT ![r].stop = "batch"]
      /\ UNCHANGED <<disk, lb, pumping, proc, history>>
  BY DEF CallRefused, Carries
<1>2. Structure /\ MoneyOK /\ HeldBy(lb, run) /\ Counters
  BY DEF Sound, Structure
<1>3. run \in [RunIds -> Carried] /\ file \in [RunIds -> RunFile]
  BY <1>1, <1>2, UpFacts
<1>4. /\ run' \in [RunIds -> Carried] /\ run'[r].phase = "running" /\ run'[r].item = run[r].item
      /\ \A s \in RunIds : s # r => run'[s] = run[s]
  BY <1>1, <1>3 DEF Carried
<1>5. Consistent(proc', batch', lb', items', run', file')
  BY <1>1, <1>2, <1>3, <1>4, EngineMoves DEF disk
<1>6. MoneyOK' /\ UNCHANGED <<holders, balance, hold>>
  BY <1>1, <1>2, MoneyRefuses
<1>7. HeldBy(lb, run)'
  BY <1>1, <1>2, <1>4, <1>6 DEF HeldBy
<1> QED
  BY <1>1, <1>2, <1>5, <1>6, <1>7, RunStepSound DEF disk, history, Counters

LEMMA CallEndsSound ==
    ASSUME Sound, NEW r \in RunIds, NEW cost \in CallCosts, CallEnds(r, cost)
    PROVE  Sound'
<1>1. /\ run[r].phase = "running" /\ Carries /\ cost <= call[r].output
      /\ Bal!Debit(r, 0, call[r].output, [a \in {Account} |-> cost])
      /\ file' = [file EXCEPT ![r].used = @ + cost]
      /\ spent' = spent + cost
      /\ run' = [run EXCEPT ![r].called = TRUE]
      /\ UNCHANGED <<batch, items, lb, pumping, proc, unbilled, escaped, crashes>>
  BY DEF CallEnds, Carries
<1>2. Structure /\ MoneyOK /\ HeldBy(lb, run) /\ Counters
  BY DEF Sound, Structure
<1>3. run \in [RunIds -> Carried] /\ file \in [RunIds -> RunFile]
  BY <1>1, <1>2, UpFacts
<1>4. /\ run' \in [RunIds -> Carried] /\ run'[r].phase = "running" /\ run'[r].item = run[r].item
      /\ \A s \in RunIds : s # r => run'[s] = run[s]
  <2> DEFINE moved == [run[r] EXCEPT !.called = TRUE]
  <2>1. run[r] \in Carried
    BY <1>3
  <2>2. moved \in Carried /\ moved.phase = "running" /\ moved.item = run[r].item
    BY <1>1, <2>1 DEF Carried
  <2>3. run' = [run EXCEPT ![r] = moved]
    BY <1>1, <1>3
  <2> HIDE DEF moved
  <2> QED
    BY <1>3, <2>2, <2>3
<1>5. cost \in Nat
  BY BatchConstants
<1>6. /\ file' \in [RunIds -> RunFile] /\ file'[r].ticket = file[r].ticket /\ file'[r].line = file[r].line
      /\ \A s \in RunIds : s # r => file'[s] = file[s]
  <2> DEFINE u == file[r].used + cost
  <2>1. u \in Nat
    BY <1>3, <1>5 DEF RunFile
  <2>2. file' = [file EXCEPT ![r].used = u]
    BY <1>1, <1>3
  <2> HIDE DEF u
  <2> QED
    BY <1>3, <2>1, <2>2 DEF RunFile
<1>7. Consistent(proc', batch', lb', items', run', file')
  BY <1>1, <1>2, <1>4, <1>6, EngineMoves
<1>8. MoneyOK' /\ UNCHANGED <<holders, hold>>
  BY <1>1, <1>2, MoneyDebits
<1>9. HeldBy(lb, run)'
  BY <1>1, <1>2, <1>4, <1>8 DEF HeldBy
<1>10. spent' \in Nat /\ unbilled' \in Nat
  BY <1>1, <1>2, <1>5 DEF Counters
<1> QED
  BY <1>1, <1>7, <1>8, <1>9, <1>10, RunStepSound

LEMMA RunEndsSound ==
    ASSUME Sound, NEW r \in RunIds, NEW execution \in {"produced", "failed", "cancelled"},
           NEW stop \in {"none", "task", "batch"}, RunEnds(r, execution, stop)
    PROVE  Sound'
<1>1. /\ run[r].phase \in {"dispatched", "running"} /\ Carries
      /\ IF run[r].phase = "running" THEN Bal!Release(r) ELSE UNCHANGED balVars
      /\ run' = [run EXCEPT ![r].phase = "ended", ![r].execution = execution, ![r].stop = stop]
      /\ UNCHANGED <<disk, lb, pumping, proc, history>>
  BY DEF RunEnds, Carries
<1>2. Structure /\ MoneyOK /\ HeldBy(lb, run) /\ Counters
  BY DEF Sound, Structure
<1>3. run \in [RunIds -> Carried] /\ file \in [RunIds -> RunFile]
  BY <1>1, <1>2, UpFacts
<1>4. /\ run' \in [RunIds -> Carried] /\ run'[r].phase = "ended" /\ run'[r].item = run[r].item
      /\ \A s \in RunIds : s # r => run'[s] = run[s]
  <2> DEFINE c == [run[r] EXCEPT !.phase = "ended", !.execution = execution, !.stop = stop]
  <2>1. run[r] \in Carried
    BY <1>3
  <2>2. c \in Carried /\ c.phase = "ended" /\ c.item = run[r].item
    BY <2>1 DEF Carried
  <2>3. run' = [run EXCEPT ![r] = c]
    BY <1>1, <1>3
  <2> HIDE DEF c
  <2> QED
    BY <1>3, <2>2, <2>3
<1>5. Consistent(proc', batch', lb', items', run', file')
  BY <1>1, <1>2, <1>3, <1>4, EngineMoves DEF disk
<1>6. r \in Money!Runs /\ Anchor \in Money!Runs /\ Anchor # r /\ RunIds \subseteq Money!Runs
  BY Holds
<1>7. hold \in [Money!Runs -> {"closed", "open"}]
  BY <1>2, MoneyTypes
<1>8. /\ MoneyOK' /\ hold'[r] = "closed" /\ hold'[Anchor] = hold[Anchor]
      /\ \A s \in RunIds : s # r => hold'[s] = hold[s]
  <2>1. CASE run[r].phase = "running"
    <3>1. MoneyOK' /\ hold' = [hold EXCEPT ![r] = "closed"]
      BY <1>1, <1>2, <1>6, <2>1, MoneyReleases
    <3> QED
      BY <1>6, <1>7, <3>1
  <2>2. CASE run[r].phase # "running"
    <3>1. UNCHANGED balVars
      BY <1>1, <2>2
    <3>2. hold[r] # "open" /\ hold[r] \in {"closed", "open"}
      BY <1>2, <1>6, <1>7, <2>2 DEF HeldBy
    <3> QED
      BY <1>2, <3>1, <3>2, MoneyUnchanged DEF balVars
  <2> QED
    BY <2>1, <2>2
<1>9. HeldBy(lb, run)'
  BY <1>1, <1>2, <1>4, <1>8 DEF HeldBy
<1> QED
  BY <1>1, <1>2, <1>5, <1>8, <1>9, RunStepSound DEF disk, history, Counters

LEMMA RunThrowsSound ==
    ASSUME Sound, NEW r \in RunIds, RunThrows(r)
    PROVE  Sound'
<1>1. /\ run[r].phase = "running" /\ Carries /\ Bal!Release(r)
      /\ run' = [run EXCEPT ![r].phase = "ended", ![r].execution = "failed",
                            ![r].stop = "none", ![r].called = FALSE]
      /\ UNCHANGED <<disk, lb, pumping, proc, history>>
  BY DEF RunThrows, Carries
<1>2. Structure /\ MoneyOK /\ HeldBy(lb, run) /\ Counters
  BY DEF Sound, Structure
<1>3. run \in [RunIds -> Carried] /\ file \in [RunIds -> RunFile]
  BY <1>1, <1>2, UpFacts
<1>4. /\ run' \in [RunIds -> Carried] /\ run'[r].phase = "ended" /\ run'[r].item = run[r].item
      /\ \A s \in RunIds : s # r => run'[s] = run[s]
  <2> DEFINE c == [run[r] EXCEPT !.phase = "ended", !.execution = "failed", !.stop = "none", !.called = FALSE]
  <2>1. run[r] \in Carried
    BY <1>3
  <2>2. c \in Carried /\ c.phase = "ended" /\ c.item = run[r].item
    BY <2>1 DEF Carried
  <2>3. run' = [run EXCEPT ![r] = c]
    BY <1>1, <1>3
  <2> HIDE DEF c
  <2> QED
    BY <1>3, <2>2, <2>3
<1>5. Consistent(proc', batch', lb', items', run', file')
  BY <1>1, <1>2, <1>3, <1>4, EngineMoves DEF disk
<1>6. r \in Money!Runs /\ Anchor \in Money!Runs /\ Anchor # r /\ RunIds \subseteq Money!Runs
  BY Holds
<1>7. hold \in [Money!Runs -> {"closed", "open"}]
  BY <1>2, MoneyTypes
<1>8. MoneyOK' /\ hold' = [hold EXCEPT ![r] = "closed"]
  BY <1>1, <1>2, <1>6, MoneyReleases
<1>9. HeldBy(lb, run)'
  BY <1>1, <1>2, <1>4, <1>6, <1>7, <1>8 DEF HeldBy
<1> QED
  BY <1>1, <1>2, <1>5, <1>8, <1>9, RunStepSound DEF disk, history, Counters

(* What a record tells a run's item, and what it leaves out. *)
LEMMA Records ==
    ASSUME NEW r \in RunIds, run \in [RunIds -> Carried], file \in [RunIds -> RunFile]
    PROVE  /\ Recording(r) \in RunFile /\ Recording(r).line /\ Recording(r).started
           /\ Recording(r).ticket = "running" /\ Recording(r).used = file[r].used
           /\ file[r].used \in Nat /\ file[r].used - Recording(r).cost \in Nat
<1>1. run[r].called \in BOOLEAN /\ file[r].used \in Nat
  BY DEF Carried, RunFile
<1>2. Recording(r) \in RunFile
  BY <1>1 DEF Recording, RunFile, Carried
<1> QED
  BY <1>1, <1>2 DEF Recording

LEMMA Closes ==
    ASSUME NEW f \in RunFile
    PROVE  /\ Closed(f) \in RunFile /\ Closed(f).ticket = "closed" /\ Closed(f).line = f.line
           /\ Closed(f).started = f.started /\ Closed(f).execution = f.execution
           /\ Closed(f).cost = f.cost /\ Closed(f).used = f.cost
BY DEF Closed, RunFile

LEMMA RecordSound ==
    ASSUME Sound, NEW r \in RunIds, Record(r)
    PROVE  Sound'
<1> DEFINE g == Closed(Recording(r))
<1>1. /\ run[r].phase = "ended" /\ Carries
      /\ file' = [file EXCEPT ![r] = g]
      /\ unbilled' = unbilled + file[r].used - Recording(r).cost
      /\ run' = [run EXCEPT ![r].phase = "recorded"]
      /\ UNCHANGED <<batch, items, lb, pumping, proc, balVars, spent, escaped, crashes>>
  BY DEF Record, Carries
<1>2. Structure /\ MoneyOK /\ HeldBy(lb, run) /\ Counters
  BY DEF Sound, Structure
<1>3. /\ run \in [RunIds -> Carried] /\ file \in [RunIds -> RunFile] /\ items \in [Items -> Item]
      /\ lb \in LiveBatch /\ Placed(lb, items, run, file)
  BY <1>1, <1>2, UpFacts
<1>4. RunPlaced(r, lb, items, run, file)
  BY <1>1, <1>3 DEF Placed
<1>5. g \in RunFile /\ g.line /\ g.ticket = "closed" /\ g.started /\ g.used = g.cost /\ g.cost \in Nat
  <2>1. Recording(r) \in RunFile /\ Recording(r).line /\ Recording(r).started
    BY <1>3, Records
  <2>2. Recording(r).cost \in Nat
    BY <2>1 DEF RunFile
  <2> QED
    BY <2>1, <2>2, Closes
<1> HIDE DEF g
<1>6. /\ run' \in [RunIds -> Carried] /\ run'[r].phase = "recorded" /\ run'[r].item = run[r].item
      /\ \A s \in RunIds : s # r => run'[s] = run[s]
  BY <1>1, <1>3 DEF Carried
<1>7. /\ file' \in [RunIds -> RunFile] /\ file'[r] = g
      /\ \A s \in RunIds : s # r => file'[s] = file[s]
  BY <1>1, <1>3, <1>5
<1>8. items'[run[r].item].state = "running"
  BY <1>1, <1>4 DEF RunPlaced
<1>9. RunPlaced(r, lb, items', run', file')
  BY <1>1, <1>4, <1>5, <1>6, <1>7, <1>8 DEF RunPlaced
<1>10. Consistent(proc', batch', lb', items', run', file')
  BY <1>1, <1>2, <1>3, <1>6, <1>7, <1>8, <1>9, OneRunMoves
<1>11. MoneyOK' /\ HeldBy(lb, run)'
  <2>1. MoneyOK'
    BY <1>1, <1>2, MoneyUnchanged
  <2>2. \A s \in RunIds : run'[s].phase = "running" <=> run[s].phase = "running"
    BY <1>1, <1>6
  <2> QED
    BY <1>1, <1>2, <2>1, <2>2 DEF HeldBy, balVars
<1>12. spent' \in Nat /\ unbilled' \in Nat
  <2>1. file[r].used - Recording(r).cost \in Nat /\ file[r].used \in Nat
    BY <1>3, Records
  <2>2. Recording(r).cost \in Nat
    BY <1>3, Records DEF RunFile
  <2> QED
    BY <1>1, <1>2, <2>1, <2>2 DEF Counters
<1> QED
  BY <1>1, <1>2, <1>10, <1>11, <1>12, RunStepSound

LEMMA CancelQueuedSound ==
    ASSUME Sound, NEW r \in RunIds, CancelQueued(r)
    PROVE  Sound'
<1>1. /\ run[r].phase = "queued" /\ Carries
      /\ file' = [file EXCEPT ![r] = NeverStarted("cancelled")]
      /\ run' = [run EXCEPT ![r].phase = "recorded"]
      /\ UNCHANGED <<batch, items, lb, pumping, proc, balVars, history>>
  BY DEF CancelQueued, Carries
<1>2. Structure /\ MoneyOK /\ HeldBy(lb, run) /\ Counters
  BY DEF Sound, Structure
<1>3. /\ run \in [RunIds -> Carried] /\ file \in [RunIds -> RunFile] /\ items \in [Items -> Item]
      /\ lb \in LiveBatch /\ Placed(lb, items, run, file)
  BY <1>1, <1>2, UpFacts
<1>4. RunPlaced(r, lb, items, run, file)
  BY <1>1, <1>3 DEF Placed
<1> DEFINE g == NeverStarted("cancelled")
<1>5. /\ g \in RunFile /\ g.line /\ g.ticket = "closed"
      /\ ~g.started /\ g.used = 0 /\ g.used <= g.cost
  BY IsNeverStarted
<1> HIDE DEF g
<1>6. /\ run' \in [RunIds -> Carried] /\ run'[r].phase = "recorded" /\ run'[r].item = run[r].item
      /\ \A s \in RunIds : s # r => run'[s] = run[s]
  BY <1>1, <1>3 DEF Carried
<1>7. /\ file' \in [RunIds -> RunFile] /\ file'[r] = g
      /\ \A s \in RunIds : s # r => file'[s] = file[s]
  BY <1>1, <1>3, <1>5 DEF g
<1>8. items'[run[r].item].state = "queued"
  BY <1>1, <1>4 DEF RunPlaced
<1>9. RunPlaced(r, lb, items', run', file')
  BY <1>1, <1>4, <1>5, <1>6, <1>7, <1>8 DEF RunPlaced
<1>10. Consistent(proc', batch', lb', items', run', file')
  BY <1>1, <1>2, <1>3, <1>6, <1>7, <1>8, <1>9, OneRunMoves
<1>11. MoneyOK' /\ HeldBy(lb, run)'
  <2>1. MoneyOK'
    BY <1>1, <1>2, MoneyUnchanged
  <2>2. \A s \in RunIds : run'[s].phase = "running" <=> run[s].phase = "running"
    BY <1>1, <1>6
  <2> QED
    BY <1>1, <1>2, <2>1, <2>2 DEF HeldBy, balVars
<1> QED
  BY <1>1, <1>2, <1>10, <1>11, RunStepSound DEF history, Counters

(* Items may change in what is not their place. *)
LEMMA SameShape ==
    ASSUME NEW p, NEW b, NEW d, NEW its, NEW rn, NEW f, NEW other \in [Items -> Item],
           Consistent(p, b, d, its, rn, f),
           \A i \in Items : other[i].state = its[i].state /\ other[i].run = its[i].run
    PROVE  Consistent(p, b, d, other, rn, f)
<1>1. d \in LiveBatch /\ Placed(d, its, rn, f) /\ Named(its)
  BY DEF Consistent
<1>2. Named(other) /\ InFlight(other) = InFlight(its) /\ PendingItems(other) = PendingItems(its)
  BY <1>1 DEF Named, InFlight, PendingItems
<1>3. d.outstanding \in SUBSET Items
  BY <1>1 DEF LiveBatch
<1>4. ASSUME NEW r \in RunIds, rn[r].phase # "idle" PROVE RunPlaced(r, d, other, rn, f)
  <2>1. RunPlaced(r, d, its, rn, f)
    BY <1>1, <1>4 DEF Placed
  <2>2. rn[r].item \in Items
    BY <1>3, <2>1 DEF RunPlaced
  <2>3. other[rn[r].item].state = its[rn[r].item].state /\ other[rn[r].item].run = its[rn[r].item].run
    BY <2>2
  <2> QED
    BY <2>1, <2>3 DEF RunPlaced
<1>5. Placed(d, other, rn, f)
  BY <1>1, <1>3, <1>4 DEF Placed
<1> QED
  BY <1>2, <1>5 DEF Consistent

(* A run's item is settled: it is done, or pending and to be asked for again. *)
LEMMA ItemLeaves ==
    ASSUME Structure, Carries, NEW r \in RunIds, run[r].phase # "idle",
           NEW next \in Item, NEW d \in LiveBatch,
           next.state \in {"done", "pending"},
           next.run \in {NoRun, items[run[r].item].run},
           next.state = "pending" => next.run = NoRun,
           d.outstanding = lb.outstanding \ {run[r].item},
           d.live = lb.live, d.anchored = lb.anchored, d.retry = lb.retry,
           d.pending = IF next.state = "pending" /\ proc # "stopping"
                       THEN Requeue(run[r].item, lb.pending) ELSE lb.pending
    PROVE  /\ lb.live
           /\ Consistent(proc, batch, d, [items EXCEPT ![run[r].item] = next],
                         [run EXCEPT ![r] = NotCarried], file)
<1> DEFINE i == run[r].item
           its == [items EXCEPT ![i] = next]
           rn == [run EXCEPT ![r] = NotCarried]
<1>1. /\ batch \in BatchRecord /\ lb \in LiveBatch /\ items \in [Items -> Item]
      /\ run \in [RunIds -> Carried] /\ file \in [RunIds -> RunFile]
      /\ Named(items) /\ Placed(lb, items, run, file) /\ lb.outstanding = InFlight(items)
      /\ proc = "up" /\ lb.live => Lists(lb.pending, PendingItems(items))
  BY UpFacts
<1>2. RunPlaced(r, lb, items, run, file)
  BY <1>1 DEF Placed
<1>3. /\ i \in lb.outstanding /\ i \in Items /\ items[i].run = r
      /\ items[i].state \in {"queued", "running"}
  BY <1>1, <1>2 DEF RunPlaced, InFlight
<1>4. lb.live
  <2>1. lb.outstanding # {}
    BY <1>3
  <2> QED
    BY <2>1 DEF Structure, Consistent
<1>5. NotCarried \in Carried /\ NotCarried.phase = "idle"
  BY BatchConstants DEF NotCarried, Carried
<1> HIDE DEF i
<1>6. its \in [Items -> Item] /\ its[i] = next /\ \A j \in Items : j # i => its[j] = items[j]
  BY <1>1, <1>3
<1>7. rn \in [RunIds -> Carried] /\ rn[r].phase = "idle" /\ \A s \in RunIds : s # r => rn[s] = run[s]
  BY <1>1, <1>5
<1>8. d.outstanding = lb.outstanding \ {i} /\ next.run \in {NoRun, r}
      /\ d.pending = IF next.state = "pending" /\ proc # "stopping" THEN Requeue(i, lb.pending) ELSE lb.pending
  BY <1>3 DEF i
<1> HIDE DEF its, rn
<1>9. Named(its)
  <2> SUFFICES ASSUME NEW j \in Items
               PROVE  /\ its[j].state = "pending" => its[j].run = NoRun
                      /\ its[j].state \in {"queued", "running"} => its[j].run # NoRun
                      /\ \A k \in Items : its[j].run = its[k].run /\ its[j].run # NoRun => j = k
    BY DEF Named
  <2>1. \A k \in Items : its[k].run \in {NoRun, items[k].run}
    BY <1>3, <1>6, <1>8
  <2>2. CASE j = i
    <3>1. \A k \in Items : its[j].run = its[k].run /\ its[j].run # NoRun => j = k
      BY <1>1, <1>3, <2>1, <2>2 DEF Named
    <3> QED
      BY <1>6, <2>2, <3>1
  <2>3. CASE j # i
    <3>1. \A k \in Items : its[j].run = its[k].run /\ its[j].run # NoRun => j = k
      BY <1>1, <2>1 DEF Named
    <3> QED
      BY <1>1, <1>6, <2>3, <3>1 DEF Named
  <2> QED
    BY <2>2, <2>3
<1>10. InFlight(its) = d.outstanding
  BY <1>1, <1>6, <1>8 DEF InFlight
<1>11. proc = "up" => Lists(d.pending, PendingItems(its))
  <2>1. CASE next.state = "pending"
    <3>1. PendingItems(its) = PendingItems(items) \cup {i} /\ i \notin PendingItems(items)
      BY <1>3, <1>6, <2>1 DEF PendingItems
    <3> QED
      BY <1>1, <1>3, <1>4, <1>8, <2>1, <3>1, RequeueLists
  <2>2. CASE next.state # "pending"
    <3>1. PendingItems(its) = PendingItems(items)
      BY <1>3, <1>6, <2>2 DEF PendingItems
    <3> QED
      BY <1>1, <1>4, <1>8, <2>2, <3>1
  <2> QED
    BY <2>1, <2>2
<1>12. Placed(d, its, rn, file)
  <2>1. ASSUME NEW s \in RunIds, rn[s].phase # "idle" PROVE RunPlaced(s, d, its, rn, file)
    <3>1. s # r /\ rn[s] = run[s]
      BY <1>7, <2>1
    <3>2. RunPlaced(s, lb, items, run, file)
      BY <1>1, <2>1, <3>1 DEF Placed
    <3>3. run[s].item \in lb.outstanding /\ run[s].item \in Items /\ run[s].item # i
      BY <1>1, <1>3, <3>1, <3>2 DEF RunPlaced, InFlight
    <3>4. its[run[s].item] = items[run[s].item] /\ run[s].item \in d.outstanding
      BY <1>6, <1>8, <3>3
    <3> QED
      BY <3>1, <3>2, <3>4 DEF RunPlaced
  <2>2. ASSUME NEW j \in d.outstanding
        PROVE  its[j].run \in RunIds /\ rn[its[j].run].phase # "idle" /\ rn[its[j].run].item = j
    <3>1. j \in lb.outstanding /\ j \in Items /\ j # i
      BY <1>1, <1>8, <2>2 DEF LiveBatch
    <3>2. its[j] = items[j]
      BY <1>6, <3>1
    <3>3. items[j].run \in RunIds /\ run[items[j].run].phase # "idle" /\ run[items[j].run].item = j
      BY <1>1, <3>1 DEF Placed
    <3>4. items[j].run # r
      BY <3>1, <3>3 DEF i
    <3> QED
      BY <1>7, <3>2, <3>3, <3>4
  <2> QED
    BY <2>1, <2>2 DEF Placed
<1>13. Consistent(proc, batch, d, its, rn, file)
  BY <1>1, <1>4, <1>6, <1>7, <1>9, <1>10, <1>11, <1>12 DEF Consistent
<1> QED
  BY <1>4, <1>13 DEF its, rn, i

(* The item takes over what its run cost, also when it goes back. *)
LEMMA ItemSettles ==
    ASSUME Sound, NEW r \in RunIds, NEW verdict \in Verdicts \cup {"none"}, ItemEnded(r, verdict)
    PROVE  /\ Carries /\ run[r].phase = "recorded" /\ pumping' = "driver" /\ UNCHANGED <<proc, spent, unbilled, crashes>>
           /\ \E d, its, rn, reason :
                /\ Consistent(proc, batch, d, its, rn, file) /\ HeldBy(d, rn)
                /\ d.live /\ d.anchored = lb.anchored /\ d.outstanding = lb.outstanding \ {run[r].item}
                /\ its[run[r].item].state \in {"done", "pending"}
                /\ its[run[r].item].cost = items[run[r].item].cost + file[r].cost
                /\ RunsAgain(r) => its[run[r].item].run = NoRun
                /\ ~RunsAgain(r) => its[run[r].item].run = r /\ its[run[r].item].execution = file[r].execution
                /\ \A j \in Items : j # run[r].item => its[j] = items[j]
                /\ reason \in {"none", "budget", "pass_rate"}
                /\ IF batch.state = "running" /\ reason # "none"
                   THEN Pause(batch, d, its, rn, reason)
                   ELSE Proceed(batch, d, its, rn)
<1> DEFINE i == run[r].item
           settled == Outcome(items[i], file[r], verdict)
           next == IF ~RunsAgain(r) THEN settled
                   ELSE IF batch.state = "cancelled"
                        THEN [BackToPending(settled) EXCEPT !.state = "done", !.execution = "cancelled"]
                        ELSE BackToPending(settled)
           its == [items EXCEPT ![i] = next]
           rn == [run EXCEPT ![r] = NotCarried]
           out == lb.outstanding \ {i}
           stoppedByBatch == run[r].stop = "batch"
           reservedOut == stoppedByBatch /\ ReservedOut(r, out)
           d == [lb EXCEPT
                   !.outstanding = out,
                   !.withdrawn = @ \ {r},
                   !.endedSince = [x \in RunIds |-> x # r /\ run[x].phase # "idle" /\ (@[x] \/ Settles(r))],
                   !.pending = IF next.state = "pending" /\ proc # "stopping" THEN Requeue(i, @) ELSE @,
                   !.waitForSettle = reservedOut /\ OthersRunning(out, items)]
           reason == IF (stoppedByBatch /\ ~reservedOut) \/ run[r].stop = "task" THEN "budget"
                     ELSE IF BelowPassRate(batch, its) THEN "pass_rate" ELSE "none"
<1>1. /\ run[r].phase = "recorded" /\ Carries /\ pumping = "no"
      /\ IF batch.state = "running" /\ reason # "none"
         THEN Pause(batch, d, its, rn, reason)
         ELSE Proceed(batch, d, its, rn)
      /\ pumping' = "driver"
      /\ UNCHANGED <<proc, spent, unbilled, crashes>>
  BY DEF ItemEnded, Carries
<1>2. Structure /\ MoneyOK /\ HeldBy(lb, run) /\ Counters /\ Driven
  BY DEF Sound, Structure
<1>3. /\ batch \in BatchRecord /\ lb \in LiveBatch /\ items \in [Items -> Item]
      /\ run \in [RunIds -> Carried] /\ file \in [RunIds -> RunFile]
      /\ Placed(lb, items, run, file)
      /\ proc = "up" /\ lb.live => Lists(lb.pending, PendingItems(items))
  BY <1>1, <1>2, UpFacts
<1>4. RunPlaced(r, lb, items, run, file)
  BY <1>1, <1>3 DEF Placed
<1>5. i \in Items /\ items[i].run = r /\ items[i] \in Item /\ file[r] \in RunFile
  BY <1>3, <1>4 DEF RunPlaced, LiveBatch
<1>6. reason \in {"none", "budget", "pass_rate"}
  OBVIOUS
<1> HIDE DEF reason
<1>7. /\ next \in Item /\ next.state \in {"done", "pending"}
      /\ next.cost = items[i].cost + file[r].cost
      /\ next.run \in {NoRun, items[i].run}
      /\ next.state = "pending" => next.run = NoRun
      /\ RunsAgain(r) => next.run = NoRun
      /\ ~RunsAgain(r) => next.run = r /\ next.execution = file[r].execution
  <2>1. /\ settled \in Item /\ settled.state = "done" /\ settled.run = items[i].run
        /\ settled.cost = items[i].cost + file[r].cost /\ settled.execution = file[r].execution
    <3> DEFINE c == items[i].cost + file[r].cost
    <3>1. c \in Nat
      BY <1>5 DEF Item, RunFile
    <3>2. settled = [items[i] EXCEPT !.state = "done", !.execution = file[r].execution,
                                     !.verdict = verdict, !.cost = c]
      BY <1>5 DEF Outcome, Item
    <3>3. file[r].execution \in {"none", "produced", "failed", "skipped", "cancelled"}
      BY <1>5 DEF RunFile
    <3> HIDE DEF c, settled
    <3>4. /\ settled \in Item /\ settled.state = "done" /\ settled.run = items[i].run /\ settled.cost = c
          /\ settled.execution = file[r].execution
      BY <1>5, <3>1, <3>2, <3>3 DEF Item
    <3> QED
      BY <3>4 DEF c
  <2> HIDE DEF settled
  <2>2. settled.cost \in Nat
    BY <2>1 DEF Item
  <2>3. /\ BackToPending(settled) \in Item /\ BackToPending(settled).state = "pending"
        /\ BackToPending(settled).run = NoRun /\ BackToPending(settled).cost = settled.cost
    BY <2>2 DEF BackToPending, NewItem, Item
  <2>4. /\ [BackToPending(settled) EXCEPT !.state = "done", !.execution = "cancelled"] \in Item
        /\ [BackToPending(settled) EXCEPT !.state = "done", !.execution = "cancelled"].state = "done"
        /\ [BackToPending(settled) EXCEPT !.state = "done", !.execution = "cancelled"].run = NoRun
        /\ [BackToPending(settled) EXCEPT !.state = "done", !.execution = "cancelled"].cost = settled.cost
    BY <2>3 DEF Item
  <2> QED
    BY <1>5, <2>1, <2>3, <2>4
<1> HIDE DEF next
<1>8. /\ d \in LiveBatch /\ d.outstanding = out
      /\ d.live = lb.live /\ d.anchored = lb.anchored /\ d.retry = lb.retry
      /\ d.pending = IF next.state = "pending" /\ proc # "stopping" THEN Requeue(i, lb.pending) ELSE lb.pending
  <2> DEFINE withdrawn == lb.withdrawn \ {r}
             since == [x \in RunIds |-> x # r /\ run[x].phase # "idle" /\ (lb.endedSince[x] \/ Settles(r))]
             pending == IF next.state = "pending" /\ proc # "stopping" THEN Requeue(i, lb.pending) ELSE lb.pending
             wait == reservedOut /\ OthersRunning(out, items)
  <2>1. d = [lb EXCEPT !.outstanding = out, !.withdrawn = withdrawn, !.endedSince = since,
                       !.pending = pending, !.waitForSettle = wait]
    BY <1>3 DEF LiveBatch
  <2>2. withdrawn \in SUBSET RunIds /\ out \in SUBSET Items
    BY <1>3 DEF LiveBatch
  <2>3. since \in [RunIds -> BOOLEAN] /\ wait \in BOOLEAN
    OBVIOUS
  <2>4. pending \in Seq(Items)
    <3>1. lb.pending \in Seq(Items)
      BY <1>3 DEF LiveBatch
    <3>2. <<i>> \in Seq(Items)
      BY <1>5
    <3>3. Requeue(i, lb.pending) \in Seq(Items)
      BY <3>1, <3>2, ConcatProperties DEF Requeue
    <3> QED
      BY <3>1, <3>3
  <2> HIDE DEF d, withdrawn, since, pending, wait, out
  <2>5. /\ d \in LiveBatch /\ d.outstanding = out
        /\ d.live = lb.live /\ d.anchored = lb.anchored /\ d.retry = lb.retry
        /\ d.pending = pending
    BY <1>3, <2>1, <2>2, <2>3, <2>4 DEF LiveBatch
  <2> QED
    BY <2>5 DEF pending
<1> HIDE DEF d
<1>9. lb.live /\ Consistent(proc, batch, d, its, rn, file)
  BY <1>1, <1>2, <1>7, <1>8, ItemLeaves
<1>10. HeldBy(d, rn)
  <2>1. \A s \in RunIds : rn[s].phase = "running" <=> run[s].phase = "running"
    BY <1>1, <1>3 DEF NotCarried
  <2> QED
    BY <1>2, <1>8, <2>1 DEF HeldBy
<1>11. its[i] = next /\ \A j \in Items : j # i => its[j] = items[j]
  BY <1>3, <1>5
<1>12. d.live
  BY <1>8, <1>9
<1> HIDE DEF its, rn, i
<1>13. /\ its[i].state \in {"done", "pending"} /\ its[i].cost = items[i].cost + file[r].cost
       /\ RunsAgain(r) => its[i].run = NoRun
       /\ ~RunsAgain(r) => its[i].run = r /\ its[i].execution = file[r].execution
       /\ d.anchored = lb.anchored /\ d.outstanding = lb.outstanding \ {i}
  BY <1>7, <1>8, <1>11
<1>14. \E e, js, cs, why :
          /\ Consistent(proc, batch, e, js, cs, file) /\ HeldBy(e, cs)
          /\ e.live /\ e.anchored = lb.anchored /\ e.outstanding = lb.outstanding \ {i}
          /\ js[i].state \in {"done", "pending"} /\ js[i].cost = items[i].cost + file[r].cost
          /\ RunsAgain(r) => js[i].run = NoRun
          /\ ~RunsAgain(r) => js[i].run = r /\ js[i].execution = file[r].execution
          /\ \A j \in Items : j # i => js[j] = items[j]
          /\ why \in {"none", "budget", "pass_rate"}
          /\ IF batch.state = "running" /\ why # "none"
             THEN Pause(batch, e, js, cs, why) ELSE Proceed(batch, e, js, cs)
  <2> WITNESS d, its, rn, reason
  <2> QED
    BY <1>1, <1>6, <1>9, <1>10, <1>11, <1>12, <1>13
<1> QED
  BY <1>1, <1>14 DEF i

LEMMA ItemEndedSound ==
    ASSUME Sound, NEW r \in RunIds, NEW verdict \in Verdicts \cup {"none"}, ItemEnded(r, verdict)
    PROVE  Sound'
<1>1. Carries /\ pumping' = "driver" /\ UNCHANGED <<proc, spent, unbilled, crashes>>
  BY ItemSettles
<1>2. Structure /\ MoneyOK /\ Counters /\ Driven
  BY DEF Sound, Structure
<1>3. PICK d, its, rn, reason :
        /\ Consistent(proc, batch, d, its, rn, file) /\ HeldBy(d, rn)
        /\ d.live /\ d.anchored = lb.anchored
        /\ reason \in {"none", "budget", "pass_rate"}
        /\ IF batch.state = "running" /\ reason # "none"
           THEN Pause(batch, d, its, rn, reason)
           ELSE Proceed(batch, d, its, rn)
  BY ItemSettles
<1>4. batch.state = "running" /\ proc = "up" => d.anchored
  BY <1>2, <1>3 DEF Driven
<1>5. CASE batch.state = "running" /\ reason # "none"
  <2>1. Pause(batch, d, its, rn, reason) /\ reason \in {"manual", "budget", "pass_rate", "unavailable"}
    BY <1>3, <1>5
  <2> QED
    BY <1>1, <1>2, <1>3, <2>1, PauseStructure DEF Sound
<1>6. CASE ~(batch.state = "running" /\ reason # "none")
  <2>1. Proceed(batch, d, its, rn)
    BY <1>3, <1>6
  <2> QED
    BY <1>1, <1>2, <1>3, <1>4, <2>1, ProceedStructure DEF Sound
<1> QED
  BY <1>5, <1>6

LEMMA ControlPauseSound ==
    ASSUME Sound, ControlPause
    PROVE  Sound'
<1>1. /\ proc = "up" /\ batch.state = "running" /\ Carries
      /\ Pause(batch, lb, items, run, "manual") /\ pumping' = "driver"
      /\ UNCHANGED <<proc, spent, unbilled, crashes>>
  BY DEF ControlPause, Carries
<1>2. MoneyOK /\ Counters /\ HeldBy(lb, run) /\ Consistent(proc, batch, lb, items, run, file) /\ lb.live
  BY <1>1 DEF Sound, Structure, Driven
<1> QED
  BY <1>1, <1>2, PauseStructure DEF Sound

LEMMA LoadedHeld ==
    ASSUME Structure, Carries
    PROVE  HeldBy(Loaded, run)
BY LoadedConsistent DEF Structure, HeldBy

(* A record that runs again. *)
LEMMA RunningRecord ==
    ASSUME NEW b \in BatchRecord
    PROVE  Running(b) \in BatchRecord /\ Running(b).state = "running"
<1>1. Disarmed(b) \in BOOLEAN
  BY DEF Disarmed, BatchRecord
<1> QED
  BY <1>1 DEF Running, BatchRecord

(* Which record it is does not matter to what is consistent. *)
LEMMA AnyRecord ==
    ASSUME NEW p, NEW b, NEW d, NEW its, NEW rn, NEW f, Consistent(p, b, d, its, rn, f),
           NEW c \in BatchRecord
    PROVE  Consistent(p, c, d, its, rn, f)
BY DEF Consistent

LEMMA ControlResumeSound ==
    ASSUME Sound, NEW budget \in Budgets \cup {batch.budget}, ControlResume(budget)
    PROVE  Sound'
<1> DEFINE b == [Running(batch) EXCEPT !.budget = budget]
<1>1. /\ proc = "up" /\ Carries /\ proc' = "up"
      /\ Activate(b, Loaded, items, "control")
      /\ UNCHANGED <<file, run, history>>
  BY DEF ControlResume, Carries
<1>2. MoneyOK /\ Counters /\ Structure
  BY DEF Sound, Structure
<1>3. batch \in BatchRecord
  BY <1>1, <1>2, UpFacts
<1>4. budget \in Nat
  BY <1>3, BatchConstants DEF BatchRecord
<1>5. b \in BatchRecord
  BY <1>3, <1>4, RunningRecord DEF BatchRecord
<1>6. Consistent(proc, batch, Loaded, items, run, file) /\ Loaded.live /\ HeldBy(Loaded, run)
  BY <1>1, <1>2, LoadedConsistent, LoadedHeld
<1>7. Consistent("up", b, Loaded, items, run, file')
  BY <1>1, <1>5, <1>6, AnyRecord
<1> HIDE DEF b
<1> QED
  BY <1>1, <1>2, <1>6, <1>7, ActivateStructure DEF Sound

LEMMA ControlCancelSound ==
    ASSUME Sound, ControlCancel
    PROVE  Sound'
<1> DEFINE its == [i \in Items |-> IF items[i].state = "pending"
                                   THEN [items[i] EXCEPT !.state = "done", !.execution = "cancelled"]
                                   ELSE items[i]]
           d == [Loaded EXCEPT !.pending = <<>>, !.retry = FALSE, !.anchored = FALSE]
           waits == [Loaded EXCEPT !.pending = <<>>]
<1>1. /\ proc = "up" /\ Carries /\ pumping = "no"
      /\ batch' = [batch EXCEPT !.state = "cancelled", !.reason = "none"]
      /\ items' = its
      /\ lb' = IF d.outstanding = {} THEN NotLoaded ELSE d
      /\ LeaveQueue(d, its, run, "cancelled")
      /\ ReleaseAnchor(Loaded)
      /\ escaped' = escaped \cup LeavesRunning(d, its)
      /\ UNCHANGED <<pumping, proc, spent, unbilled, crashes>>
  BY DEF ControlCancel, Carries, Quiet
<1>2. MoneyOK /\ Counters /\ Structure
  BY DEF Sound, Structure
<1>3. /\ batch \in BatchRecord /\ items \in [Items -> Item] /\ Named(items)
      /\ Placed(lb, items, run, file)
  BY <1>1, <1>2, UpFacts
<1>4. /\ Consistent(proc, batch, Loaded, items, run, file) /\ Loaded.live /\ HeldBy(Loaded, run)
  BY <1>1, <1>2, LoadedConsistent, LoadedHeld
<1>5. Loaded \in LiveBatch /\ Loaded.outstanding = InFlight(items)
  BY <1>1, <1>4 DEF Consistent
<1>6. /\ its \in [Items -> Item]
      /\ \A i \in Items : /\ items[i].state = "pending" => its[i].state = "done" /\ its[i].run = items[i].run
                          /\ items[i].state # "pending" => its[i] = items[i]
  <2> SUFFICES ASSUME NEW i \in Items
               PROVE  /\ its[i] \in Item
                      /\ items[i].state = "pending" => its[i].state = "done" /\ its[i].run = items[i].run
                      /\ items[i].state # "pending" => its[i] = items[i]
    OBVIOUS
  <2>1. items[i] \in Item
    BY <1>3
  <2> QED
    BY <2>1 DEF Item
<1>7. <<>> \in Seq(Items)
  OBVIOUS
<1>8. /\ waits \in LiveBatch /\ waits.pending = <<>> /\ waits.outstanding = Loaded.outstanding
      /\ waits.live = Loaded.live /\ waits.anchored = Loaded.anchored /\ waits.retry = Loaded.retry
  BY <1>5, <1>7 DEF LiveBatch
<1>9. /\ d \in LiveBatch /\ d.pending = <<>> /\ d.outstanding = Loaded.outstanding
      /\ d.live = Loaded.live /\ ~d.anchored /\ ~d.retry
  BY <1>5, <1>7 DEF LiveBatch
<1> HIDE DEF its, d, waits
<1>10. \A i \in Items : its[i].run = items[i].run
  BY <1>6
<1>11. Named(its)
  <2> SUFFICES ASSUME NEW i \in Items
               PROVE  /\ its[i].state = "pending" => its[i].run = NoRun
                      /\ its[i].state \in {"queued", "running"} => its[i].run # NoRun
                      /\ \A j \in Items : its[i].run = its[j].run /\ its[i].run # NoRun => i = j
    BY DEF Named
  <2>1. \A j \in Items : its[i].run = its[j].run /\ its[i].run # NoRun => i = j
    BY <1>3, <1>10 DEF Named
  <2> QED
    BY <1>3, <1>6, <2>1 DEF Named
<1>12. InFlight(its) = InFlight(items) /\ PendingItems(its) = {}
  BY <1>6 DEF InFlight, PendingItems
<1>13. Placed(waits, its, run, file)
  <2>1. Loaded.outstanding \in SUBSET Items /\ Placed(Loaded, items, run, file)
    BY <1>4, <1>5 DEF LiveBatch, Consistent
  <2>2. ASSUME NEW r \in RunIds, run[r].phase # "idle" PROVE RunPlaced(r, waits, its, run, file)
    <3>1. RunPlaced(r, Loaded, items, run, file)
      BY <2>1, <2>2 DEF Placed
    <3>2. run[r].item \in Items /\ items[run[r].item].state # "pending"
      BY <1>5, <2>1, <3>1 DEF RunPlaced, InFlight
    <3>3. its[run[r].item] = items[run[r].item]
      BY <1>6, <3>2
    <3> QED
      BY <1>8, <3>1, <3>3 DEF RunPlaced
  <2> QED
    BY <1>8, <1>10, <2>1, <2>2 DEF Placed
<1>14. Consistent(proc, batch, waits, its, run, file)
  BY <1>4, <1>5, <1>6, <1>8, <1>11, <1>12, <1>13, ListsNothing DEF Consistent
<1>15. LeaveQueue(waits, its, run, "cancelled")
  BY <1>1, <1>8, <1>9 DEF LeaveQueue, Waiting
<1>16. /\ lb' \in LiveBatch /\ lb'.pending = <<>> /\ ~lb'.anchored /\ ~lb'.retry
       /\ lb'.outstanding = waits.outstanding
  BY <1>1, <1>8, <1>9, IsNotLoaded
<1>17. ~lb'.live => lb'.outstanding = {}
  BY <1>1, <1>4, <1>9, IsNotLoaded
<1>18. /\ run' \in [RunIds -> Carried] /\ file' \in [RunIds -> RunFile]
       /\ Placed(lb', its, run', file')
       /\ \A r \in RunIds : run'[r].phase = "running" <=> run[r].phase = "running"
  <2>1. "cancelled" \in {"skipped", "cancelled"} /\ lb'.outstanding = waits.outstanding
    BY <1>16
  <2> QED
    BY <1>14, <1>15, <2>1, QueueLeft
<1>19. batch' \in BatchRecord /\ batch'.state = "cancelled"
  BY <1>1, <1>3 DEF BatchRecord
<1>20. Consistent(proc', batch', lb', items', run', file')
  BY <1>1, <1>5, <1>6, <1>8, <1>11, <1>12, <1>16, <1>17, <1>18, <1>19, ListsNothing DEF Consistent
<1>21. /\ MoneyOK' /\ hold'[Anchor] = "closed"
       /\ \A r \in RunIds : hold'[r] = "open" <=> run[r].phase = "running"
  BY <1>1, <1>2, <1>4, AnchorReleased
<1>22. HeldBy(lb, run)'
  BY <1>16, <1>18, <1>21 DEF HeldBy
<1>23. Driven' /\ Counters'
  BY <1>1, <1>2, <1>19 DEF Driven, Counters, Carries, LeavesRunning
<1> QED
  BY <1>20, <1>21, <1>22, <1>23, StructurePrimed DEF Sound

LEMMA ControlRerunSound ==
    ASSUME Sound, ControlRerun
    PROVE  Sound'
<1> DEFINE some == {i \in Items : IsRerunnable(items[i])}
           again == InOrder(some)
           its == [i \in Items |-> IF IsRerunnable(items[i]) THEN BackToPending(items[i]) ELSE items[i]]
           d == [Loaded EXCEPT !.pending = @ \o again]
           b == IF batch.state = "running" THEN batch ELSE Running(batch)
<1>1. /\ proc = "up" /\ Carries /\ proc' = "up"
      /\ Activate(b, d, its, "control")
      /\ file' = Kept(its, file)
      /\ UNCHANGED <<run, history>>
  BY DEF ControlRerun, Carries
<1>2. MoneyOK /\ Counters /\ Structure
  BY DEF Sound, Structure
<1>3. /\ batch \in BatchRecord /\ items \in [Items -> Item] /\ Named(items)
  BY <1>1, <1>2, UpFacts
<1>4. /\ Consistent(proc, batch, Loaded, items, run, file) /\ Loaded.live /\ HeldBy(Loaded, run)
  BY <1>1, <1>2, LoadedConsistent, LoadedHeld
<1>5. /\ Loaded \in LiveBatch /\ Loaded.outstanding = InFlight(items)
      /\ Lists(Loaded.pending, PendingItems(items)) /\ Placed(Loaded, items, run, file)
  BY <1>1, <1>4 DEF Consistent
<1>6. b \in BatchRecord
  BY <1>3, RunningRecord
<1>7. \A i \in some : i \in Items /\ items[i].state = "done"
  BY DEF IsRerunnable
<1>8. /\ its \in [Items -> Item]
      /\ \A i \in Items : /\ i \in some => its[i].state = "pending" /\ its[i].run = NoRun
                          /\ i \notin some => its[i] = items[i]
  <2> SUFFICES ASSUME NEW i \in Items
               PROVE  /\ its[i] \in Item
                      /\ i \in some => its[i].state = "pending" /\ its[i].run = NoRun
                      /\ i \notin some => its[i] = items[i]
    OBVIOUS
  <2>1. items[i] \in Item
    BY <1>3
  <2>2. /\ BackToPending(items[i]) \in Item /\ BackToPending(items[i]).state = "pending"
        /\ BackToPending(items[i]).run = NoRun
    BY <2>1 DEF BackToPending, NewItem, Item
  <2> QED
    BY <2>1, <2>2
<1>9. Lists(again, some)
  BY InOrderLists
<1> HIDE DEF some, again, its, b
<1>10. Lists(Loaded.pending \o again, PendingItems(its))
  <2>1. PendingItems(items) \cap some = {}
    BY <1>7 DEF PendingItems
  <2>2. PendingItems(its) = PendingItems(items) \cup some
    BY <1>7, <1>8 DEF PendingItems
  <2> QED
    BY <1>5, <1>9, <2>1, <2>2, ConcatLists
<1>11. /\ d \in LiveBatch /\ d.pending = Loaded.pending \o again /\ d.outstanding = Loaded.outstanding
       /\ d.live = Loaded.live /\ d.anchored = Loaded.anchored /\ d.retry = Loaded.retry
  <2> DEFINE list == Loaded.pending \o again
  <2>1. list \in Seq(Items)
    BY <1>10 DEF Lists
  <2>2. d = [Loaded EXCEPT !.pending = list]
    BY <1>5 DEF LiveBatch
  <2> HIDE DEF list, d
  <2>3. /\ d \in LiveBatch /\ d.pending = list /\ d.outstanding = Loaded.outstanding
        /\ d.live = Loaded.live /\ d.anchored = Loaded.anchored /\ d.retry = Loaded.retry
    BY <1>5, <2>1, <2>2 DEF LiveBatch
  <2> QED
    BY <2>3 DEF list
<1> HIDE DEF d
<1>12. InFlight(its) = InFlight(items)
  BY <1>7, <1>8 DEF InFlight
<1>13. Named(its)
  <2> SUFFICES ASSUME NEW i \in Items
               PROVE  /\ its[i].state = "pending" => its[i].run = NoRun
                      /\ its[i].state \in {"queued", "running"} => its[i].run # NoRun
                      /\ \A j \in Items : its[i].run = its[j].run /\ its[i].run # NoRun => i = j
    BY DEF Named
  <2>1. \A j \in Items : its[j].run \in {NoRun, items[j].run}
    BY <1>8
  <2>2. \A j \in Items : its[i].run = its[j].run /\ its[i].run # NoRun => i = j
    BY <1>3, <2>1 DEF Named
  <2> QED
    BY <1>3, <1>8, <2>2 DEF Named
<1>14. Placed(d, its, run, file)
  <2>1. \A j \in Loaded.outstanding : j \in Items /\ its[j] = items[j]
    BY <1>5, <1>7, <1>8 DEF InFlight
  <2>2. ASSUME NEW r \in RunIds, run[r].phase # "idle" PROVE RunPlaced(r, d, its, run, file)
    <3>1. RunPlaced(r, Loaded, items, run, file)
      BY <1>5, <2>2 DEF Placed
    <3>2. run[r].item \in Loaded.outstanding
      BY <3>1 DEF RunPlaced
    <3>3. its[run[r].item] = items[run[r].item]
      BY <2>1, <3>2
    <3> QED
      BY <1>11, <3>1, <3>3 DEF RunPlaced
  <2> QED
    BY <1>5, <1>11, <2>1, <2>2 DEF Placed
<1>15. Consistent("up", b, d, its, run, file)
  BY <1>4, <1>5, <1>6, <1>8, <1>10, <1>11, <1>12, <1>13, <1>14 DEF Consistent
<1>16. Consistent("up", b, d, its, run, file')
  BY <1>1, <1>15, KeepsConsistent
<1>17. HeldBy(d, run) /\ d.live
  BY <1>4, <1>11 DEF HeldBy
<1> QED
  BY <1>1, <1>2, <1>16, <1>17, ActivateStructure DEF Sound, history

LEMMA SyncRunSound ==
    ASSUME Sound, NEW i \in Items, NEW verdict \in Verdicts, SyncRun(i, verdict)
    PROVE  Sound'
<1>1. /\ proc = "up" /\ Carries /\ pumping = "no"
      /\ items' = [items EXCEPT ![i].verdict = verdict]
      /\ IF batch.state = "running" THEN UNCHANGED <<batch, lb, balVars>>
         ELSE SettleIdle(batch, Loaded, items')
      /\ UNCHANGED <<file, run, pumping, proc, history>>
  BY DEF SyncRun, Carries, Quiet
<1>2. MoneyOK /\ Counters /\ Structure /\ Driven /\ HeldBy(lb, run)
  BY DEF Sound, Structure
<1>3. items \in [Items -> Item]
  BY <1>1, <1>2, UpFacts
<1>4. /\ items' \in [Items -> Item]
      /\ \A j \in Items : items'[j].state = items[j].state /\ items'[j].run = items[j].run
  BY <1>1, <1>3 DEF Item
<1>5. CASE batch.state = "running"
  <2>1. UNCHANGED <<batch, lb, balVars>>
    BY <1>1, <1>5
  <2>2. Consistent(proc', batch', lb', items, run', file')
    BY <1>1, <1>2, <2>1 DEF Structure
  <2>3. Consistent(proc', batch', lb', items', run', file')
    BY <1>4, <2>2, SameShape
  <2>4. MoneyOK' /\ HeldBy(lb, run)' /\ Driven' /\ Counters'
    BY <1>1, <1>2, <2>1, MoneyUnchanged DEF HeldBy, Driven, Counters, Carries, history, balVars
  <2> QED
    BY <2>3, <2>4, StructurePrimed DEF Sound
<1>6. CASE batch.state # "running"
  <2>1. /\ Consistent(proc, batch, Loaded, items, run, file) /\ Loaded.live /\ HeldBy(Loaded, run)
    BY <1>1, <1>2, LoadedConsistent, LoadedHeld
  <2>2. Consistent(proc', batch, Loaded, items', run, file)
    BY <1>1, <1>4, <2>1, SameShape
  <2>3. SettleIdle(batch, Loaded, items') /\ pumping' = "no" /\ proc' \in {"up", "stopping"}
        /\ file' = file /\ run' = run /\ UNCHANGED history
    BY <1>1, <1>6
  <2> QED
    BY <1>2, <2>1, <2>2, <2>3, SettleIdleStructure DEF Sound
<1> QED
  BY <1>5, <1>6

LEMMA CrashSound ==
    ASSUME Sound, Crash
    PROVE  Sound'
<1>1. Crashes /\ Lost /\ UNCHANGED <<disk, spent, unbilled, escaped>>
  BY DEF Crash
<1>2. Structure /\ MoneyOK /\ Counters /\ file \in [RunIds -> RunFile]
  BY DEF Sound, Structure, Consistent
<1>3. Counters'
  BY <1>1, <1>2, BatchConstants DEF Counters, Crashes, Lost
<1> QED
  BY <1>1, <1>2, <1>3, LostStructure DEF Sound, disk

LEMMA CrashBeforeTicketSound ==
    ASSUME Sound, NEW r \in RunIds, CrashBeforeTicket(r)
    PROVE  Sound'
<1> DEFINE g == Recording(r)
<1>1. /\ run[r].phase = "ended" /\ Carries
      /\ file' = [file EXCEPT ![r] = g]
      /\ Crashes /\ Lost
      /\ UNCHANGED <<batch, items, spent, unbilled, escaped>>
  BY DEF CrashBeforeTicket, Carries
<1>2. Structure /\ MoneyOK /\ Counters
  BY DEF Sound, Structure
<1>3. file \in [RunIds -> RunFile] /\ run \in [RunIds -> Carried]
  BY <1>1, <1>2, UpFacts
<1>4. g \in RunFile
  BY <1>3 DEF Recording, RunFile, Carried
<1>5. file' \in [RunIds -> RunFile]
  BY <1>1, <1>3, <1>4
<1>6. Counters'
  BY <1>1, <1>2, BatchConstants DEF Counters, Crashes, Lost
<1> QED
  BY <1>1, <1>2, <1>5, <1>6, LostStructure DEF Sound

LEMMA ExitSound ==
    ASSUME Sound, Exit
    PROVE  Sound'
<1>1. Lost /\ UNCHANGED <<disk, history>>
  BY DEF Exit
<1>2. Structure /\ MoneyOK /\ Counters /\ file \in [RunIds -> RunFile]
  BY DEF Sound, Structure, Consistent
<1>3. Counters'
  BY <1>1, <1>2, BatchConstants DEF Counters, history, Lost
<1> QED
  BY <1>1, <1>2, <1>3, LostStructure DEF Sound, disk

LEMMA StopSound ==
    ASSUME Sound, Stop
    PROVE  Sound'
<1>1. /\ proc = "up" /\ Carries /\ pumping = "no" /\ crashes < MaxCrashes
      /\ crashes' = crashes + 1 /\ proc' = "stopping"
      /\ lb' = [lb EXCEPT !.retry = FALSE, !.anchored = FALSE]
      /\ LeaveQueue(lb, items, run, "skipped")
      /\ ReleaseAnchor(lb)
      /\ escaped' = escaped \cup LeavesRunning(lb, items)
      /\ UNCHANGED <<batch, items, pumping, spent, unbilled>>
  BY DEF Stop, Carries, Quiet
<1>2. MoneyOK /\ Counters /\ Structure /\ HeldBy(lb, run) /\ Consistent(proc, batch, lb, items, run, file)
  BY DEF Sound, Structure
<1>3. lb \in LiveBatch
  BY <1>2 DEF Consistent
<1>4. /\ lb' \in LiveBatch /\ ~lb'.anchored /\ ~lb'.retry
      /\ lb'.live = lb.live /\ lb'.pending = lb.pending /\ lb'.outstanding = lb.outstanding
  BY <1>1, <1>3 DEF LiveBatch
<1>5. /\ run' \in [RunIds -> Carried] /\ file' \in [RunIds -> RunFile]
      /\ Placed(lb', items, run', file')
      /\ \A r \in RunIds : run'[r].phase = "running" <=> run[r].phase = "running"
  <2>1. "skipped" \in {"skipped", "cancelled"} /\ lb'.outstanding = lb.outstanding
    BY <1>4
  <2> QED
    BY <1>1, <1>2, <2>1, QueueLeft
<1>6. Consistent(proc', batch', lb', items', run', file')
  BY <1>1, <1>2, <1>4, <1>5 DEF Consistent
<1>7. /\ MoneyOK' /\ hold'[Anchor] = "closed"
      /\ \A r \in RunIds : hold'[r] = "open" <=> run[r].phase = "running"
  BY <1>1, <1>2, AnchorReleased
<1>8. HeldBy(lb, run)'
  BY <1>4, <1>5, <1>7 DEF HeldBy
<1>9. Driven'
  BY <1>1 DEF Driven, Carries
<1>10. Counters'
  BY <1>1, <1>2, BatchConstants DEF Counters, LeavesRunning
<1> QED
  BY <1>6, <1>7, <1>8, <1>9, <1>10, StructurePrimed DEF Sound

(* What reconcile() makes of the items and the files. *)
LEMMA ReconciledFacts ==
    ASSUME Structure
    PROVE  /\ \A i \in Items : /\ Reconciled(i) \in Item
                               /\ Reconciled(i).state \in {"done", "pending"}
                               /\ Reconciled(i).run \in {NoRun, items[i].run}
                               /\ Reconciled(i).state = "pending" => Reconciled(i).run = NoRun
           /\ SettledFiles \in [RunIds -> RunFile]
<1>1. items \in [Items -> Item] /\ file \in [RunIds -> RunFile] /\ Named(items) /\ batch \in BatchRecord
  BY DEF Structure, Consistent
<1>2. \A f \in RunFile : SettledFile(f) \in RunFile
  <2> TAKE f \in RunFile
  <2>1. NeverStarted("skipped") \in RunFile
    BY IsNeverStarted
  <2>2. Closed(f) \in RunFile
    BY DEF Closed, RunFile
  <2>3. [f EXCEPT !.ticket = "closed", !.line = TRUE, !.execution = "failed", !.started = TRUE] \in RunFile
    BY DEF RunFile
  <2> QED
    BY <2>1, <2>2, <2>3 DEF SettledFile
<1>3. SettledFiles \in [RunIds -> RunFile]
  BY <1>1, <1>2 DEF SettledFiles
<1>4. ASSUME NEW i \in Items
      PROVE  /\ Reconciled(i) \in Item
             /\ Reconciled(i).state \in {"done", "pending"}
             /\ Reconciled(i).run \in {NoRun, items[i].run}
             /\ Reconciled(i).state = "pending" => Reconciled(i).run = NoRun
  <2> DEFINE r == items[i].run
             g == SettledFile(file[r])
             c == LostCharge(file[r])
             settled == Outcome(items[i], g, "none")
  <2>1. items[i] \in Item
    BY <1>1
  <2>2. /\ BackToPending(items[i]) \in Item /\ BackToPending(items[i]).state = "pending"
        /\ BackToPending(items[i]).run = NoRun
    BY <2>1 DEF BackToPending, NewItem, Item
  <2>3. CASE i \notin Unsettled
    <3>1. Reconciled(i) = items[i]
      BY <2>3 DEF Reconciled
    <3>2. items[i].state \in {"done", "pending"}
      BY <2>1, <2>3 DEF Unsettled, Item
    <3> QED
      BY <1>1, <2>1, <3>1, <3>2 DEF Named
  <2>4. CASE i \in Unsettled
    <3>1. r \in RunIds
      BY <1>1, <2>1, <2>4 DEF Unsettled, Named, Item
    <3>2. g \in RunFile /\ file[r] \in RunFile
      BY <1>1, <1>2, <3>1
    <3>3. c \in Nat
      BY <3>2 DEF LostCharge, RunFile
    <3>4. /\ [settled EXCEPT !.cost = @ + c] \in Item /\ [settled EXCEPT !.cost = @ + c].state = "done"
          /\ [settled EXCEPT !.cost = @ + c].run = items[i].run
      <4> DEFINE x == items[i].cost + g.cost
                 y == x + c
      <4> HIDE DEF c
      <4>1. g.cost \in Nat /\ items[i].cost \in Nat
            /\ g.execution \in {"none", "produced", "failed", "skipped", "cancelled"}
        BY <2>1, <3>2 DEF RunFile, Item
      <4>2. x \in Nat /\ y \in Nat
        BY <3>3, <4>1
      <4> HIDE DEF g
      <4>3. settled = [items[i] EXCEPT !.state = "done", !.execution = g.execution, !.verdict = "none",
                                       !.cost = x]
        BY <2>1 DEF Outcome, Item
      <4> HIDE DEF x, settled
      <4>4. settled \in Item /\ settled.state = "done" /\ settled.run = items[i].run /\ settled.cost = x
        BY <2>1, <4>1, <4>2, <4>3 DEF Item
      <4>5. [settled EXCEPT !.cost = @ + c] = [settled EXCEPT !.cost = y]
        BY <4>4 DEF Item
      <4> HIDE DEF y
      <4>6. /\ [settled EXCEPT !.cost = y] \in Item /\ [settled EXCEPT !.cost = y].state = "done"
            /\ [settled EXCEPT !.cost = y].run = items[i].run
        BY <4>2, <4>4 DEF Item
      <4> QED
        BY <4>5, <4>6
    <3>5. /\ [BackToPending(items[i]) EXCEPT !.state = "done", !.execution = "cancelled"] \in Item
          /\ [BackToPending(items[i]) EXCEPT !.state = "done", !.execution = "cancelled"].state = "done"
          /\ [BackToPending(items[i]) EXCEPT !.state = "done", !.execution = "cancelled"].run = NoRun
      BY <2>2 DEF Item
    <3>6. Reconciled(i) = IF g.started THEN [settled EXCEPT !.cost = @ + c]
                          ELSE IF batch.state = "cancelled"
                          THEN [BackToPending(items[i]) EXCEPT !.state = "done", !.execution = "cancelled"]
                          ELSE BackToPending(items[i])
      BY <2>4 DEF Reconciled
    <3> HIDE DEF g, c, settled
    <3> QED
      BY <2>2, <3>4, <3>5, <3>6
  <2> QED
    BY <2>3, <2>4
<1> QED
  BY <1>3, <1>4

LEMMA BootSound ==
    ASSUME Sound, Boot
    PROVE  Sound'
<1> DEFINE its == [i \in Items |-> Reconciled(i)]
           g == Kept(its, SettledFiles)
           d == FreshBatch(its)
<1>1. /\ proc = "down" /\ proc' = "up" /\ file' = g
      /\ IF batch.state = "running"
         THEN Activate(batch, d, its, "driver")
         ELSE SettleIdle(batch, d, its) /\ items' = its /\ pumping' = "no"
      /\ UNCHANGED <<run, history>>
  BY DEF Boot
<1>2. MoneyOK /\ Counters /\ Structure /\ HeldBy(lb, run) /\ Driven
      /\ Consistent(proc, batch, lb, items, run, file)
  BY DEF Sound, Structure
<1>3. /\ batch \in BatchRecord /\ items \in [Items -> Item] /\ Named(items)
      /\ run \in [RunIds -> Carried] /\ lb \in LiveBatch
      /\ \A r \in RunIds : run[r].phase = "idle"
      /\ ~lb.anchored
  BY <1>1, <1>2 DEF Consistent, Driven, Carries, NotCarried
<1>4. /\ its \in [Items -> Item]
      /\ \A i \in Items : /\ its[i].state \in {"done", "pending"}
                          /\ its[i].run \in {NoRun, items[i].run}
                          /\ its[i].state = "pending" => its[i].run = NoRun
      /\ SettledFiles \in [RunIds -> RunFile]
  BY <1>2, ReconciledFacts
<1> HIDE DEF its
<1>5. Named(its) /\ InFlight(its) = {}
  <2>1. InFlight(its) = {}
    BY <1>4 DEF InFlight
  <2> SUFFICES ASSUME NEW i \in Items
               PROVE  /\ its[i].state = "pending" => its[i].run = NoRun
                      /\ its[i].state \in {"queued", "running"} => its[i].run # NoRun
                      /\ \A j \in Items : its[i].run = its[j].run /\ its[i].run # NoRun => i = j
    BY <2>1 DEF Named
  <2>2. \A j \in Items : its[i].run = its[j].run /\ its[i].run # NoRun => i = j
    BY <1>3, <1>4 DEF Named
  <2> QED
    BY <1>4, <2>2
<1>6. g \in [RunIds -> RunFile]
  BY <1>4, KeptFiles
<1>7. d \in LiveBatch /\ d.live /\ d.outstanding = {} /\ ~d.anchored /\ Lists(d.pending, PendingItems(its))
  BY IsFreshBatch
<1> HIDE DEF g, d
<1>8. Placed(d, its, run, g)
  BY <1>3, <1>7 DEF Placed
<1>9. Consistent("up", batch, d, its, run, g)
  BY <1>3, <1>4, <1>5, <1>6, <1>7, <1>8 DEF Consistent
<1>10. HeldBy(d, run)
  BY <1>2, <1>3, <1>7 DEF HeldBy
<1>11. CASE batch.state = "running"
  BY <1>1, <1>2, <1>7, <1>9, <1>10, <1>11, ActivateStructure DEF Sound
<1>12. CASE batch.state # "running"
  <2>1. /\ SettleIdle(batch, d, its) /\ items' = its /\ pumping' = "no" /\ proc' \in {"up", "stopping"}
        /\ file' = g /\ run' = run /\ UNCHANGED history
    BY <1>1, <1>12
  <2>2. Consistent(proc', batch, d, its, run, g)
    BY <1>1, <1>9
  <2> QED
    BY <1>2, <1>7, <1>10, <2>1, <2>2, SettleIdleStructure DEF Sound
<1> QED
  BY <1>11, <1>12

LEMMA CrashInReconcileSound ==
    ASSUME Sound, CrashInReconcile
    PROVE  Sound'
<1>1. /\ proc = "down" /\ file' = SettledFiles /\ escaped' = escaped \cup {"torn"}
      /\ UNCHANGED <<batch, items, lb, run, pumping, proc, balVars, spent, unbilled, crashes>>
  BY DEF CrashInReconcile
<1>2. MoneyOK /\ Counters /\ Structure /\ HeldBy(lb, run) /\ Driven
      /\ Consistent(proc, batch, lb, items, run, file)
  BY DEF Sound, Structure
<1>3. /\ \A r \in RunIds : run[r].phase = "idle"
      /\ lb.outstanding = {}
  BY <1>1, <1>2 DEF Consistent, Driven, Carries, NotCarried
<1>4. file' \in [RunIds -> RunFile]
  BY <1>1, <1>2, ReconciledFacts
<1>5. Placed(lb, items, run, file')
  BY <1>3 DEF Placed
<1>6. Consistent(proc', batch', lb', items', run', file')
  BY <1>1, <1>2, <1>4, <1>5 DEF Consistent
<1>7. MoneyOK' /\ HeldBy(lb, run)' /\ Driven' /\ Counters'
  BY <1>1, <1>2, MoneyUnchanged DEF HeldBy, Driven, Counters, Carries, balVars
<1> QED
  BY <1>6, <1>7, StructurePrimed DEF Sound

LEMMA StutterSound ==
    ASSUME Sound, UNCHANGED vars
    PROVE  Sound'
<1>1. UNCHANGED <<batch, items, file, lb, run, pumping, proc, spent, unbilled, escaped, crashes>> /\ UNCHANGED balVars
  BY DEF vars, disk, history
<1>2. MoneyOK /\ Counters /\ HeldBy(lb, run) /\ Driven /\ Consistent(proc, batch, lb, items, run, file)
  BY DEF Sound, Structure
<1>3. Consistent(proc', batch', lb', items', run', file')
  BY <1>1, <1>2
<1>4. MoneyOK' /\ HeldBy(lb, run)' /\ Driven' /\ Counters'
  BY <1>1, <1>2, MoneyUnchanged DEF HeldBy, Driven, Counters, Carries, balVars
<1> QED
  BY <1>3, <1>4, StructurePrimed DEF Sound

LEMMA StepSound == Sound /\ [Next]_vars => Sound'
<1> SUFFICES ASSUME Sound, [Next]_vars PROVE Sound'
  OBVIOUS
<1>1. CASE Create
  BY <1>1, CreateSound
<1>2. CASE PumpStep
  BY <1>2, AskItemSound, AskRefusedSound, AskPausesSound, PumpEndsSound, CompleteSound, PumpIdleSound
  DEF PumpStep, Ask
<1>3. CASE RetryTimer
  BY <1>3, RetryTimerSound
<1>4. ASSUME NEW r \in RunIds,
             StartQueued(r) \/ RunStep(r) \/ Settle(r) \/ CancelQueued(r) \/ CrashBeforeTicket(r)
      PROVE  Sound'
  <2>1. CASE StartQueued(r)
    BY <2>1, StartQueuedSound
  <2>2. CASE RunStep(r)
    BY <2>2, RunOpensSound, CallStartsSound, CallRefusedSound, CallEndsSound, RunEndsSound,
       RunThrowsSound, BatchConstants DEF RunStep
  <2>3. CASE Settle(r)
    BY <2>3, RecordSound, ItemEndedSound DEF Settle
  <2>4. CASE CancelQueued(r)
    BY <2>4, CancelQueuedSound
  <2>5. CASE CrashBeforeTicket(r)
    BY <2>5, CrashBeforeTicketSound
  <2> QED
    BY <1>4, <2>1, <2>2, <2>3, <2>4, <2>5
<1>5. CASE Control
  BY <1>5, ControlPauseSound, ControlResumeSound, ControlCancelSound, ControlRerunSound, SyncRunSound
  DEF Control
<1>6. CASE Crash \/ Stop \/ Exit \/ Boot \/ CrashInReconcile
  BY <1>6, CrashSound, StopSound, ExitSound, BootSound, CrashInReconcileSound
<1>7. CASE UNCHANGED vars
  BY <1>7, StutterSound
<1> QED
  BY <1>1, <1>2, <1>3, <1>4, <1>5, <1>6, <1>7 DEF Next

LEMMA AlwaysSound == Spec => []Sound
BY InitSound, StepSound, PTL DEF Spec

-----------------------------------------------------------------------------
(* Types and places *)

(* Every variable keeps its type; the run an item is given is one of the run
   numbers, because fewer items than numbers have one (requestItem()). *)
THEOREM BatchTypes == Spec => []TypeOK
<1>1. Sound => TypeOK
  BY DEF Sound, Structure, Consistent, Counters, TypeOK, BatchRecord, Item, RunFile, Carried
<1> QED
  BY <1>1, AlwaysSound, PTL

(* No item is lost and none has two runs, through pause, cancel, rerun and
   restart: memory, the items and the runs agree on who is where. *)
THEOREM EveryItemAccounted == Spec => []ItemsAccounted
<1>1. ASSUME Sound PROVE ItemsAccounted
  <2> SUFFICES ASSUME proc = "up", lb.live
               PROVE  /\ lb.outstanding = InFlight(items)
                      /\ \A i \in lb.outstanding : items[i].run # NoRun /\ run[items[i].run].item = i
                      /\ \A r \in RunIds : run[r].phase # "idle" => items[run[r].item].run = r
                      /\ IsInjective(lb.pending)
                      /\ ToSet(lb.pending) = PendingItems(items)
    BY DEF ItemsAccounted, InFlight, PendingItems
  <2>1. /\ Placed(lb, items, run, file) /\ lb.outstanding = InFlight(items)
        /\ Lists(lb.pending, PendingItems(items))
    BY <1>1, UpFacts DEF Sound, Carries
  <2>2. \A i \in lb.outstanding : items[i].run # NoRun /\ run[items[i].run].item = i
    BY <2>1 DEF Placed, RunIds, NoRun
  <2>3. \A r \in RunIds : run[r].phase # "idle" => items[run[r].item].run = r
    BY <2>1 DEF Placed, RunPlaced
  <2> QED
    BY <2>1, <2>2, <2>3 DEF Lists
<1> QED
  BY <1>1, AlwaysSound, PTL

(* The account inside the batch is an account: its reservations and holders are
   the runs' own, and it is never overdrawn, driver and runs together. *)
THEOREM BatchAccount == Spec => [](Bal!ReservationsAccounted /\ Bal!NotOverspent)
<1>1. ASSUME Sound PROVE Bal!ReservationsAccounted /\ Bal!NotOverspent
  <2>1. Money!ReservationsAccounted /\ Money!NotOverspent
    BY <1>1, Money!IInvImplies, MoneyAssumptions DEF Sound, MoneyOK
  <2>2. \A S : Bal!Cardinality(S) = Money!Cardinality(S)
    BY DEF Bal!Cardinality, Money!Cardinality
  <2>3. \A a : Bal!Total(reservation, a) = Money!Total(reservation, a)
    BY DEF Bal!Total, Money!Total
  <2> QED
    BY <2>1, <2>2, <2>3 DEF Bal!ReservationsAccounted, Money!ReservationsAccounted, Bal!NotOverspent,
        Money!NotOverspent, Bal!Runs, Money!Runs, Bal!NoCall, Money!NoCall
<1> QED
  BY <1>1, AlwaysSound, PTL

-----------------------------------------------------------------------------
(* What the items cost and what was spent *)

(* An item in flight has a file. *)
LEMMA FlightFacts ==
    ASSUME NEW its \in [Items -> Item], Named(its), NEW i \in Items
    PROVE  i \in InFlight(its) => its[i].run \in RunIds
BY DEF Named, InFlight, Item

LEMMA BillTypes ==
    ASSUME NEW its \in [Items -> Item], NEW f \in [RunIds -> RunFile], Named(its), NEW i \in Items
    PROVE  /\ Owed(its, f, i) \in Nat /\ its[i].cost \in Nat
           /\ Bill(its, f)[i].cost = its[i].cost + Owed(its, f, i)
           /\ Bill(its, f)[i].cost \in Nat
<1>1. its[i].cost \in Nat
  BY DEF Item
<1>2. Owed(its, f, i) \in Nat
  BY FlightFacts DEF Owed, RunFile
<1>3. Bill(its, f)[i].cost = its[i].cost + Owed(its, f, i)
  BY DEF Bill
<1> QED
  BY <1>1, <1>2, <1>3

(* The bill of items that are charged no less is no less. *)
LEMMA BillGrows ==
    ASSUME NEW its \in [Items -> Item], NEW f \in [RunIds -> RunFile], Named(its),
           NEW later \in [Items -> Item], NEW g \in [RunIds -> RunFile], Named(later),
           NEW x \in Nat,
           \A i \in Items : its[i].cost + Owed(its, f, i) <= later[i].cost + Owed(later, g, i),
           x = 0 \/ \E j \in Items : its[j].cost + Owed(its, f, j) + x <= later[j].cost + Owed(later, g, j)
    PROVE  /\ SumCost(Bill(its, f)) \in Nat /\ SumCost(Bill(later, g)) \in Nat
           /\ SumCost(Bill(its, f)) + x <= SumCost(Bill(later, g))
<1> DEFINE less == Bill(its, f)
           more == Bill(later, g)
<1>1. \A i \in Items : /\ less[i].cost = its[i].cost + Owed(its, f, i) /\ less[i].cost \in Nat
                       /\ more[i].cost = later[i].cost + Owed(later, g, i) /\ more[i].cost \in Nat
  BY BillTypes
<1> HIDE DEF less, more
<1>2. \A i \in Items : less[i].cost \in Nat /\ more[i].cost \in Nat /\ less[i].cost <= more[i].cost
  BY <1>1
<1>3. x = 0 \/ \E j \in Items : less[j].cost + x <= more[j].cost
  BY <1>1
<1>4. SumCost(less) \in Nat /\ SumCost(more) \in Nat /\ SumCost(less) + x <= SumCost(more)
  BY <1>2, <1>3, CostsCompare
<1> QED
  BY <1>4 DEF less, more

(* While a process carries the runs, the files follow from them. *)
LEMMA FiledWhileUp ==
    ASSUME Structure, Carries
    PROVE  Filed(items, file)
<1>1. /\ items \in [Items -> Item] /\ run \in [RunIds -> Carried] /\ file \in [RunIds -> RunFile]
      /\ Placed(lb, items, run, file) /\ lb.outstanding = InFlight(items)
  BY UpFacts
<1> SUFFICES ASSUME NEW i \in InFlight(items) PROVE FileAccounts(items[i].state, file[items[i].run])
  BY DEF Filed
<1> DEFINE r == items[i].run
<1>2. r \in RunIds /\ run[r].phase # "idle" /\ run[r].item = i
  BY <1>1 DEF Placed
<1>3. RunPlaced(r, lb, items, run, file)
  BY <1>1, <1>2 DEF Placed
<1>4. run[r].phase \in {"queued", "dispatched", "running", "ended", "recorded"}
  BY <1>1, <1>2 DEF Carried
<1> HIDE DEF r
<1>5. CASE run[r].phase = "queued"
  BY <1>2, <1>3, <1>5 DEF RunPlaced, FileAccounts, r
<1>6. CASE run[r].phase \in {"dispatched", "running", "ended"}
  BY <1>2, <1>3, <1>6 DEF RunPlaced, FileAccounts, r
<1>7. CASE run[r].phase = "recorded"
  BY <1>2, <1>3, <1>7 DEF RunPlaced, FileAccounts, r
<1> QED
  BY <1>4, <1>5, <1>6, <1>7

(* A step that charges no less, and as much more as it spends. *)
LEMMA ChargedStep ==
    ASSUME Structure, Structure', Charged, escaped \subseteq escaped',
           "torn" \notin escaped' => Filed(items', file'),
           NEW x \in Nat, Due' = Due + x,
           "torn" \notin escaped =>
               /\ \A i \in Items : items[i].cost + Owed(items, file, i) <= items'[i].cost + Owed(items', file', i)
               /\ x = 0 \/ \E j \in Items : items[j].cost + Owed(items, file, j) + x
                                                <= items'[j].cost + Owed(items', file', j)
    PROVE  Charged'
<1> SUFFICES ASSUME "torn" \notin escaped'
             PROVE  Filed(items', file') /\ SumCost(Bill(items', file')) >= Due'
  BY DEF Charged, Due
<1>1. "torn" \notin escaped /\ SumCost(Bill(items, file)) >= Due
  BY DEF Charged, Due
<1>2. /\ items \in [Items -> Item] /\ file \in [RunIds -> RunFile] /\ Named(items)
  BY DEF Structure, Consistent
<1>3. /\ items' \in [Items -> Item] /\ file' \in [RunIds -> RunFile] /\ Named(items')
  BY DEF Structure, Consistent
<1>4. /\ SumCost(Bill(items, file)) \in Nat /\ SumCost(Bill(items', file')) \in Nat
      /\ SumCost(Bill(items, file)) + x <= SumCost(Bill(items', file'))
  BY <1>1, <1>2, <1>3, BillGrows
<1>5. Due \in Int
  BY DEF Structure, Counters, Due
<1> QED
  BY <1>1, <1>4, <1>5

(* While the process is up nothing else is needed when nothing is spent. *)
LEMMA ChargedUp ==
    ASSUME Structure, Structure', Charged, escaped \subseteq escaped', Carries', Due' = Due,
           "torn" \notin escaped =>
               \A i \in Items : items[i].cost + Owed(items, file, i) <= items'[i].cost + Owed(items', file', i)
    PROVE  Charged'
<1>1. Filed(items', file')
  <2>1. Filed(items, file)'
    BY FiledWhileUp, PTL
  <2> QED
    BY <2>1
<1>2. Due \in Int
  BY DEF Structure, Counters, Due
<1>3. 0 \in Nat /\ Due' = Due + 0
  BY <1>2
<1> QED
  BY <1>1, <1>3, ChargedStep

(* Nothing is owed while nobody runs. *)
LEMMA RestCovers ==
    ASSUME Structure, Charged, "torn" \notin escaped, InFlight(items) \subseteq lb.outstanding,
           NobodyRuns(lb, items)
    PROVE  SumCost(items) >= Due
<1>1. items \in [Items -> Item] /\ file \in [RunIds -> RunFile] /\ Named(items) /\ Due \in Int
  BY DEF Structure, Consistent, Counters, Due
<1>2. \A i \in Items : Owed(items, file, i) = 0
  BY DEF Owed, InFlight, NobodyRuns, Charged, Filed, FileAccounts
<1> DEFINE bill == Bill(items, file)
<1>3. \A i \in Items : bill[i].cost \in Nat /\ items[i].cost \in Nat /\ bill[i].cost <= items[i].cost
  <2> TAKE i \in Items
  <2>1. /\ Owed(items, file, i) \in Nat /\ items[i].cost \in Nat
        /\ bill[i].cost = items[i].cost + Owed(items, file, i) /\ bill[i].cost \in Nat
    BY <1>1, BillTypes
  <2> QED
    BY <1>2, <2>1
<1> HIDE DEF bill
<1>4. SumCost(bill) \in Nat /\ SumCost(items) \in Nat /\ SumCost(bill) + 0 <= SumCost(items)
  BY <1>3, CostsCompare
<1>5. SumCost(bill) >= Due
  BY DEF Charged, bill, Due
<1> QED
  BY <1>1, <1>4, <1>5

(* Nothing on disk changes. *)
LEMMA ChargedSame ==
    ASSUME Charged, UNCHANGED <<items, file, Due>>, escaped \subseteq escaped'
    PROVE  Charged'
BY DEF Charged, Due

(* An item whose run keeps its entry in the ledger owes the same. *)
LEMMA OwesSame ==
    ASSUME NEW its, NEW f, NEW later, NEW g, NEW i \in Items,
           later[i].run = its[i].run,
           i \in InFlight(later) <=> i \in InFlight(its),
           i \in InFlight(its) => g[its[i].run].used = f[its[i].run].used
    PROVE  Owed(later, g, i) = Owed(its, f, i)
BY DEF Owed, Due

LEMMA KeptOwes ==
    ASSUME NEW its \in [Items -> Item], NEW f \in [RunIds -> RunFile], Named(its), NEW i \in Items
    PROVE  Owed(its, Kept(its, f), i) = Owed(its, f, i)
<1>1. i \in InFlight(its) => Kept(its, f)[its[i].run] = f[its[i].run]
  BY FlightFacts, KeptFiles
<1> QED
  BY <1>1 DEF Owed

(* A run that leaves the queue never called anything. *)
LEMMA QueueOwes ==
    ASSUME NEW d, NEW its \in [Items -> Item], NEW rn, NEW st \in {"skipped", "cancelled"},
           file \in [RunIds -> RunFile], Named(its), Filed(its, file), d.outstanding \subseteq InFlight(its),
           LeaveQueue(d, its, rn, st), NEW i \in Items
    PROVE  Owed(its, file', i) = Owed(its, file, i)
<1> DEFINE out == Waiting(d, its)
           all == [r \in RunIds |-> IF r \in out THEN NeverStarted(st) ELSE file[r]]
<1>1. all \in [RunIds -> RunFile]
  BY IsNeverStarted
<1>2. file' = Kept(its, all)
  BY DEF LeaveQueue
<1>3. ASSUME NEW r \in out PROVE file[r].used = 0
  <2>1. PICK k \in d.outstanding : its[k].state = "queued" /\ r = its[k].run
    BY <1>3 DEF Waiting
  <2>2. FileAccounts(its[k].state, file[its[k].run])
    BY <2>1 DEF Filed
  <2> QED
    BY <2>1, <2>2 DEF FileAccounts
<1>4. \A r \in RunIds : all[r].used = file[r].used
  BY <1>3, IsNeverStarted
<1>5. i \in InFlight(its) => its[i].run \in RunIds
  BY FlightFacts
<1>6. Owed(its, all, i) = Owed(its, file, i)
  BY <1>4, <1>5 DEF Owed
<1> HIDE DEF all
<1>7. Owed(its, Kept(its, all), i) = Owed(its, all, i)
  BY <1>1, KeptOwes
<1> QED
  BY <1>2, <1>6, <1>7

-----------------------------------------------------------------------------
(* What is left on the account *)

(* The account is kept as it is, or given up. *)
LEMMA BudgetedKept ==
    ASSUME Budgeted, escaped \subseteq escaped', Due' = Due, batch'.budget = batch.budget,
           holders'[Account] > 0 => holders[Account] > 0 /\ balance'[Account] = balance[Account],
           escaped' = {} /\ ~lb'.anchored => NobodyRuns(lb', items')
    PROVE  Budgeted'
<1> SUFFICES ASSUME escaped' = {}
             PROVE  /\ Due' <= batch'.budget
                    /\ holders'[Account] > 0 => balance'[Account] + Due' <= batch'.budget
                    /\ ~lb'.anchored => NobodyRuns(lb', items')
  BY DEF Budgeted, NobodyRuns, Due
<1>1. escaped = {}
  OBVIOUS
<1> QED
  BY <1>1 DEF Budgeted

(* Nothing of it changes at all. *)
LEMMA BudgetedSame ==
    ASSUME Budgeted, UNCHANGED <<holders, balance, Due, escaped>>, batch'.budget = batch.budget,
           lb'.anchored = lb.anchored, NobodyRuns(lb, items) => NobodyRuns(lb', items')
    PROVE  Budgeted'
<1>1. escaped' = {} /\ ~lb'.anchored => NobodyRuns(lb', items')
  BY DEF Budgeted
<1> QED
  BY <1>1, BudgetedKept

LEMMA AnchorGivenUp ==
    ASSUME MoneyOK, NEW d, NEW rn, HeldBy(d, rn), ReleaseAnchor(d)
    PROVE  holders'[Account] > 0 => holders[Account] > 0 /\ balance'[Account] = balance[Account]
<1>1. CASE d.anchored
  <2>1. Bal!Release(Anchor)
    BY <1>1 DEF ReleaseAnchor
  <2>2. /\ holders[Account] > 1 => balance'[Account] = balance[Account]
        /\ holders[Account] <= 1 => holders'[Account] = 0
    BY <2>1, Holds, MoneyReleases
  <2>3. holders[Account] \in Nat
    BY MoneyTypes
  <2> QED
    BY <2>2, <2>3
<1>2. CASE ~d.anchored
  BY <1>2 DEF ReleaseAnchor, balVars
<1> QED
  BY <1>1, <1>2

(* Who holds the account. *)
LEMMA Holders ==
    ASSUME Structure, MoneyOK
    PROVE  /\ lb.anchored => holders[Account] > 0
           /\ \A r \in RunIds : run[r].phase = "running" => holders[Account] > 0
BY Holds, MoneyHolders DEF Structure, HeldBy

LEMMA PauseBudget ==
    ASSUME MoneyOK, Budgeted, NEW b, NEW d, NEW its, NEW rn, NEW reason,
           b.budget = batch.budget, b \in BatchRecord, d \in LiveBatch, HeldBy(d, rn),
           Pause(b, d, its, rn, reason), Due' = Due
    PROVE  Budgeted'
<1>1. /\ batch' = [b EXCEPT !.state = "paused", !.reason = reason]
      /\ items' = its
      /\ lb' = [d EXCEPT !.retry = FALSE, !.anchored = FALSE, !.withdrawn = @ \cup Waiting(d, its)]
      /\ ReleaseAnchor(d)
      /\ escaped' = escaped \cup LeavesRunning(d, its)
  BY DEF Pause
<1>2. batch'.budget = batch.budget
  BY <1>1 DEF BatchRecord
<1>3. lb'.outstanding = d.outstanding
  BY <1>1 DEF LiveBatch
<1>4. escaped' = {} => NobodyRuns(lb', items')
  BY <1>1, <1>3 DEF LeavesRunning, OthersRunning, NobodyRuns
<1>5. holders'[Account] > 0 => holders[Account] > 0 /\ balance'[Account] = balance[Account]
  BY <1>1, AnchorGivenUp
<1> QED
  BY <1>1, <1>2, <1>4, <1>5, BudgetedKept

LEMMA ActivateBudget ==
    ASSUME MoneyOK, NEW b \in BatchRecord, NEW d \in LiveBatch, NEW its \in [Items -> Item], NEW caller,
           HeldBy(d, run), Due \in Int,
           Activate(b, d, its, caller), UNCHANGED <<Due, escaped>>,
           escaped = {} => /\ Due <= b.budget
                           /\ holders[Account] > 0 => balance[Account] + Due <= b.budget
                           /\ holders[Account] = 0 => SumCost(its) >= Due
    PROVE  Budgeted'
<1>1. /\ batch' = b /\ lb' = [d EXCEPT !.waitForSettle = FALSE, !.anchored = TRUE]
      /\ IF d.anchored THEN UNCHANGED balVars ELSE Bal!Open(Anchor, Remaining(b, its))
  BY DEF Activate
<1>2. lb'.anchored
  BY <1>1 DEF LiveBatch
<1>3. b.budget \in Nat /\ SumCost(its) \in Nat
  <2>1. \A i \in Items : its[i].cost \in Nat
    BY DEF Item
  <2> QED
    BY <2>1, CostIsNatural DEF BatchRecord
<1>4. holders[Account] \in Nat
  BY MoneyTypes
<1> SUFFICES ASSUME escaped = {}
             PROVE  Due <= b.budget /\ balance'[Account] + Due <= b.budget
  BY <1>1, <1>2 DEF Budgeted
<1>5. CASE d.anchored
  <2>1. holders[Account] > 0 /\ UNCHANGED balVars
    BY <1>1, <1>5, Holds, MoneyHolders DEF HeldBy
  <2> QED
    BY <2>1 DEF balVars
<1>6. CASE ~d.anchored
  <2> DEFINE left == Remaining(b, its)
  <2>1. left \in [{Account} -> Nat]
    BY RemainingTypes
  <2>2. Bal!Open(Anchor, left)
    BY <1>1, <1>6
  <2>3. balance'[Account] = IF holders[Account] = 0 THEN left[Account] ELSE balance[Account]
    <3> HIDE DEF left
    <3> QED
      BY <2>1, <2>2, Holds, MoneyOpens
  <2>4. CASE holders[Account] = 0
    <3>1. left[Account] = IF b.budget - SumCost(its) > 0 THEN b.budget - SumCost(its) ELSE 0
      BY DEF Remaining
    <3>2. SumCost(its) >= Due
      BY <2>4
    <3> HIDE DEF left
    <3>3. balance'[Account] = left[Account]
      BY <2>3, <2>4
    <3> QED
      BY <1>3, <3>1, <3>2, <3>3
  <2>5. CASE holders[Account] # 0
    <3> HIDE DEF left
    <3> QED
      BY <1>4, <2>3, <2>5
  <2> QED
    BY <2>4, <2>5
<1> QED
  BY <1>5, <1>6

LEMMA SettleIdleBudget ==
    ASSUME MoneyOK, Budgeted, NEW b \in BatchRecord, NEW d \in LiveBatch, NEW its, HeldBy(d, run),
           SettleIdle(b, d, its), b.budget = batch.budget, items' = its, UNCHANGED <<Due, escaped>>,
           escaped = {} /\ ~d.anchored => NobodyRuns(d, its)
    PROVE  Budgeted'
<1>1. CASE d.outstanding = {}
  <2>1. /\ batch' = IF b.state = "paused" /\ PendingOf(its) = <<>>
                    THEN [b EXCEPT !.state = "completed", !.reason = "none"] ELSE b
        /\ lb' = NotLoaded
        /\ ReleaseAnchor(d)
    BY <1>1 DEF SettleIdle
  <2>2. batch'.budget = batch.budget
    BY <2>1 DEF BatchRecord
  <2>3. NobodyRuns(lb', items')
    BY <2>1, IsNotLoaded DEF NobodyRuns
  <2>4. holders'[Account] > 0 => holders[Account] > 0 /\ balance'[Account] = balance[Account]
    BY <2>1, AnchorGivenUp
  <2> QED
    BY <2>2, <2>3, <2>4, BudgetedKept
<1>2. CASE d.outstanding # {}
  <2>1. batch' = b /\ lb' = d /\ UNCHANGED balVars
    BY <1>2 DEF SettleIdle
  <2> QED
    BY <2>1, BudgetedKept DEF balVars
<1> QED
  BY <1>1, <1>2

-----------------------------------------------------------------------------
(* Every step keeps the books *)

LEMMA InitBooks == Init => Books
<1> SUFFICES ASSUME Init PROVE Books
  OBVIOUS
<1>1. /\ items = [i \in Items |-> NewItem] /\ lb = NotLoaded /\ Due = 0 /\ Bal!Init
      /\ batch.budget = FirstBudget
  BY DEF Init, Due
<1>2. InFlight(items) = {}
  BY <1>1 DEF InFlight, NewItem
<1>3. Structure /\ MoneyOK
  BY InitSound DEF Sound
<1>4. items \in [Items -> Item] /\ file \in [RunIds -> RunFile] /\ Named(items)
  BY <1>3 DEF Structure, Consistent
<1>5. SumCost(Bill(items, file)) \in Nat
  <2>1. \A i \in Items : Bill(items, file)[i].cost \in Nat
    BY <1>4, BillTypes
  <2> QED
    BY <2>1, CostIsNatural
<1>6. Charged
  BY <1>1, <1>2, <1>5 DEF Charged, Filed
<1>7. ~(holders[Account] > 0)
  BY <1>1 DEF Bal!Init, Bal!Nothing
<1>8. Budgeted
  BY <1>1, <1>7, BatchConstants, IsNotLoaded DEF Budgeted, NobodyRuns
<1> QED
  BY <1>6, <1>8 DEF Books

LEMMA CreateBooks ==
    ASSUME Sound, Books, Create
    PROVE  Books'
<1> DEFINE b == [batch EXCEPT !.state = "running"]
           d == FreshBatch(items)
<1>1. /\ proc = "none" /\ Activate(b, d, items, "driver") /\ UNCHANGED <<file, run, history>>
  BY DEF Create
<1>2. /\ Structure /\ MoneyOK /\ Charged /\ Budgeted /\ HeldBy(lb, run) /\ Due \in Int
      /\ ~lb.live /\ InFlight(items) = {}
  BY <1>1 DEF Sound, Books, Structure, Driven, Carries, Counters, Due
<1>3. batch \in BatchRecord /\ items \in [Items -> Item] /\ lb.outstanding = {} /\ ~lb.anchored
  BY <1>2 DEF Structure, Consistent
<1>4. b \in BatchRecord /\ b.budget = batch.budget
  BY <1>3 DEF BatchRecord
<1>5. d \in LiveBatch /\ HeldBy(d, run)
  BY <1>2, <1>3, IsFreshBatch DEF HeldBy
<1>6. "torn" \notin escaped => SumCost(items) >= Due
  <2>1. NobodyRuns(lb, items) /\ InFlight(items) \subseteq lb.outstanding
    BY <1>2, <1>3 DEF NobodyRuns
  <2> QED
    BY <1>2, <2>1, RestCovers
<1>7. /\ items' = items /\ UNCHANGED <<Due, escaped>>
  BY <1>1 DEF Activate, history, Due
<1> HIDE DEF b, d
<1>8. escaped = {} => /\ Due <= b.budget
                      /\ holders[Account] > 0 => balance[Account] + Due <= b.budget
                      /\ holders[Account] = 0 => SumCost(items) >= Due
  BY <1>2, <1>4, <1>6 DEF Budgeted
<1>9. Budgeted'
  BY <1>1, <1>2, <1>3, <1>4, <1>5, <1>7, <1>8, ActivateBudget
<1>10. Charged'
  BY <1>1, <1>2, <1>7, ChargedSame
<1> QED
  BY <1>9, <1>10 DEF Books

LEMMA AskItemBooks ==
    ASSUME Sound, Sound', Books, NEW started \in BOOLEAN, AskItem(started)
    PROVE  Books'
<1> DEFINE i == Head(lb.pending)
           r == CHOOSE x \in RunIds : run[x].phase = "idle" /\ \A j \in Items : items[j].run # x
           state == IF started THEN "running" ELSE "queued"
           record == [NoRecord EXCEPT !.ticket = state]
<1>1. /\ CanAsk
      /\ items' = [items EXCEPT ![i].state = state, ![i].run = r]
      /\ lb' = [lb EXCEPT !.pending = Tail(@), !.outstanding = @ \cup {i}, !.endedSince[r] = FALSE]
      /\ file' = [file EXCEPT ![r] = record]
      /\ UNCHANGED <<batch, proc, balVars, Due, escaped>>
  BY DEF AskItem, history, Due
<1>2. /\ proc = "up" /\ Carries /\ lb.live /\ lb.anchored /\ lb.pending # <<>>
      /\ Structure /\ Structure' /\ Charged /\ Budgeted
  BY <1>1, Asking DEF Sound, Books
<1>3. /\ lb \in LiveBatch /\ items \in [Items -> Item] /\ file \in [RunIds -> RunFile]
      /\ Named(items) /\ Lists(lb.pending, PendingItems(items))
  BY <1>2, UpFacts
<1>4. i \in Items /\ items[i].state = "pending"
  <2>1. i \in PendingItems(items)
    BY <1>2, <1>3, TailLists
  <2> QED
    BY <2>1 DEF PendingItems
<1>5. r \in RunIds /\ \A j \in Items : items[j].run # r
  BY <1>2, <1>4, FreeRun
<1> HIDE DEF i, r, state
<1>6. /\ items' \in [Items -> Item] /\ file' \in [RunIds -> RunFile] /\ Named(items')
  BY <1>2 DEF Structure, Consistent
<1>7. \A j \in Items : items[j].cost + Owed(items, file, j) <= items'[j].cost + Owed(items', file', j)
  <2> TAKE j \in Items
  <2>1. items'[j].cost = items[j].cost /\ items[j].cost \in Nat
    BY <1>1, <1>3 DEF Item
  <2>2. Owed(items', file', j) \in Nat
    BY <1>6, BillTypes
  <2>3. CASE j = i
    <3>1. Owed(items, file, j) = 0
      BY <1>4, <2>3 DEF Owed, InFlight
    <3> QED
      BY <2>1, <2>2, <3>1
  <2>4. CASE j # i
    <3>1. items'[j] = items[j]
      BY <1>1, <1>3, <2>4
    <3>2. j \in InFlight(items) => file'[items[j].run] = file[items[j].run]
      BY <1>1, <1>3, <1>5, FlightFacts
    <3>3. Owed(items', file', j) = Owed(items, file, j)
      BY <3>1, <3>2, OwesSame DEF InFlight
    <3> QED
      BY <2>1, <2>2, <3>3
  <2> QED
    BY <2>3, <2>4
<1>8. Charged'
  <2>1. Carries' /\ Due' = Due /\ escaped \subseteq escaped'
    BY <1>1, <1>2 DEF Carries
  <2> QED
    BY <1>2, <1>7, <2>1, ChargedUp
<1>9. Budgeted'
  <2>1. lb'.anchored = lb.anchored
    BY <1>1, <1>3 DEF LiveBatch
  <2> QED
    BY <1>1, <1>2, <2>1, BudgetedKept DEF balVars
<1> QED
  BY <1>8, <1>9 DEF Books

LEMMA AskRefusedBooks ==
    ASSUME Sound, Books, AskRefused
    PROVE  Books'
<1>1. /\ lb' = [lb EXCEPT !.retry = TRUE]
      /\ UNCHANGED <<disk, balVars, history>>
  BY DEF AskRefused
<1>2. lb \in LiveBatch
  BY DEF Sound, Structure, Consistent
<1>3. lb'.outstanding = lb.outstanding /\ lb'.anchored = lb.anchored
  BY <1>1, <1>2 DEF LiveBatch
<1> QED
  BY <1>1, <1>3, ChargedSame, BudgetedSame DEF Books, NobodyRuns, disk, balVars, history, Due

(* pause(): what waits never cost anything, what runs keeps its item. *)
LEMMA PauseBooks ==
    ASSUME Sound, Sound', Books, Carries,
           NEW reason \in {"manual", "budget", "pass_rate", "unavailable"},
           Pause(batch, lb, items, run, reason), UNCHANGED <<proc, Due>>
    PROVE  Books'
<1>1. /\ Structure /\ Structure' /\ MoneyOK /\ Charged /\ Budgeted /\ HeldBy(lb, run)
      /\ Consistent(proc, batch, lb, items, run, file)
  BY DEF Sound, Books, Structure
<1>2. /\ items' = items /\ LeaveQueue(lb, items, run, "skipped") /\ escaped \subseteq escaped'
  BY DEF Pause
<1>3. /\ batch \in BatchRecord /\ lb \in LiveBatch /\ items \in [Items -> Item]
      /\ file \in [RunIds -> RunFile] /\ Named(items) /\ lb.outstanding = InFlight(items)
      /\ Filed(items, file)
  BY <1>1, UpFacts, FiledWhileUp
<1>4. \A i \in Items : items[i].cost + Owed(items, file, i) <= items'[i].cost + Owed(items', file', i)
  <2> TAKE i \in Items
  <2>1. "skipped" \in {"skipped", "cancelled"} /\ lb.outstanding \subseteq InFlight(items)
    BY <1>3
  <2>2. Owed(items, file', i) = Owed(items, file, i)
    BY <1>2, <1>3, <2>1, QueueOwes
  <2>3. Owed(items, file, i) \in Nat /\ items[i].cost \in Nat
    BY <1>3, BillTypes
  <2> QED
    BY <1>2, <2>2, <2>3
<1>5. Charged'
  BY <1>1, <1>2, <1>4, ChargedUp DEF Carries
<1>6. Budgeted'
  BY <1>1, <1>3, PauseBudget
<1> QED
  BY <1>5, <1>6 DEF Books

LEMMA AskPausesBooks ==
    ASSUME Sound, Sound', Books, NEW reason \in {"budget", "unavailable"}, AskPauses(reason)
    PROVE  Books'
<1>1. CanAsk /\ Pause(batch, lb, items, run, reason) /\ UNCHANGED <<proc, Due>>
  BY DEF AskPauses, Due
<1>2. Carries
  BY <1>1, Asking DEF Sound
<1>3. reason \in {"manual", "budget", "pass_rate", "unavailable"}
  OBVIOUS
<1> QED
  BY <1>1, <1>2, <1>3, PauseBooks

LEMMA PumpEndsBooks ==
    ASSUME Books, PumpEnds
    PROVE  Books'
<1>1. UNCHANGED <<batch, items, file, lb, balVars, Due, escaped>>
  BY DEF PumpEnds, disk, history, Due
<1> QED
  BY <1>1, ChargedSame, BudgetedSame DEF Books, balVars

LEMMA CompleteBooks ==
    ASSUME Sound, Books, Complete
    PROVE  Books'
<1>1. /\ batch' = [batch EXCEPT !.state = "completed"] /\ lb' = NotLoaded /\ ReleaseAnchor(lb)
      /\ UNCHANGED <<items, file, Due, escaped>>
  BY DEF Complete, history, Due
<1>2. MoneyOK /\ HeldBy(lb, run) /\ batch \in BatchRecord /\ Charged /\ Budgeted
  BY DEF Sound, Structure, Consistent, Books
<1>3. batch'.budget = batch.budget
  BY <1>1, <1>2 DEF BatchRecord
<1>4. NobodyRuns(lb', items')
  BY <1>1, IsNotLoaded DEF NobodyRuns
<1>5. holders'[Account] > 0 => holders[Account] > 0 /\ balance'[Account] = balance[Account]
  BY <1>1, <1>2, AnchorGivenUp
<1> QED
  BY <1>1, <1>2, <1>3, <1>4, <1>5, ChargedSame, BudgetedKept DEF Books

LEMMA PumpIdleBooks ==
    ASSUME Sound, Books, PumpIdle
    PROVE  Books'
<1>1. SettleIdle(batch, lb, items) /\ UNCHANGED <<items, file, Due, escaped>>
  BY DEF PumpIdle, history, Due
<1>2. MoneyOK /\ HeldBy(lb, run) /\ batch \in BatchRecord /\ lb \in LiveBatch /\ Charged /\ Budgeted
  BY DEF Sound, Structure, Consistent, Books
<1>3. escaped = {} /\ ~lb.anchored => NobodyRuns(lb, items)
  BY <1>2 DEF Budgeted
<1>4. Budgeted'
  BY <1>1, <1>2, <1>3, SettleIdleBudget
<1> QED
  BY <1>1, <1>2, <1>4, ChargedSame DEF Books

LEMMA RetryTimerBooks ==
    ASSUME Sound, Books, RetryTimer
    PROVE  Books'
<1>1. lb' = [lb EXCEPT !.retry = FALSE] /\ UNCHANGED <<batch, items, file, balVars, Due, escaped>>
  BY DEF RetryTimer, disk, history, Due
<1>2. lb \in LiveBatch
  BY DEF Sound, Structure, Consistent
<1>3. lb'.outstanding = lb.outstanding /\ lb'.anchored = lb.anchored
  BY <1>1, <1>2 DEF LiveBatch
<1> QED
  BY <1>1, <1>3, ChargedSame, BudgetedSame DEF Books, NobodyRuns, balVars

(* What is owed for the other items does not change when one run's file does. *)
LEMMA OneRunOwes ==
    ASSUME Structure, Carries, NEW r \in RunIds, run[r].phase # "idle",
           \A s \in RunIds : s # r => file'[s].used = file[s].used,
           \A j \in Items : /\ items'[j].cost = items[j].cost /\ items'[j].run = items[j].run
                            /\ j \in InFlight(items') <=> j \in InFlight(items)
    PROVE  /\ run[r].item \in Items
           /\ \A j \in Items : j # run[r].item => Owed(items', file', j) = Owed(items, file, j)
           /\ Owed(items, file, run[r].item) = file[r].used
           /\ Owed(items', file', run[r].item) = file'[r].used
<1> DEFINE i == run[r].item
<1>1. /\ lb \in LiveBatch /\ items \in [Items -> Item] /\ Named(items) /\ Placed(lb, items, run, file)
      /\ lb.outstanding = InFlight(items)
  BY UpFacts
<1>2. RunPlaced(r, lb, items, run, file)
  BY <1>1 DEF Placed
<1>3. i \in Items /\ i \in InFlight(items) /\ items[i].run = r
  BY <1>1, <1>2 DEF RunPlaced, LiveBatch
<1>4. Owed(items, file, i) = file[r].used /\ Owed(items', file', i) = file'[r].used
  BY <1>3 DEF Owed
<1>5. ASSUME NEW j \in Items, j # i PROVE Owed(items', file', j) = Owed(items, file, j)
  <2>1. j \in InFlight(items) => items[j].run \in RunIds
    BY <1>1, FlightFacts
  <2>2. items[j].run # r
    BY <1>3, <1>1, <1>5 DEF Named, RunIds, NoRun
  <2> QED
    BY <2>1, <2>2, OwesSame
<1> QED
  BY <1>3, <1>4, <1>5

(* A step of a run that spends x and enters it. *)
LEMMA OneRunCharged ==
    ASSUME Structure, Structure', Charged, Carries, UNCHANGED <<proc, escaped>>,
           NEW r \in RunIds, run[r].phase # "idle",
           NEW x \in Nat, Due' = Due + x, file'[r].used = file[r].used + x,
           \A s \in RunIds : s # r => file'[s].used = file[s].used,
           \A j \in Items : /\ items'[j].cost = items[j].cost /\ items'[j].run = items[j].run
                            /\ j \in InFlight(items') <=> j \in InFlight(items)
    PROVE  Charged'
<1> DEFINE i == run[r].item
<1>1. /\ i \in Items
      /\ \A j \in Items : j # i => Owed(items', file', j) = Owed(items, file, j)
      /\ Owed(items, file, i) = file[r].used /\ Owed(items', file', i) = file'[r].used
  BY OneRunOwes
<1> HIDE DEF i
<1>2. items \in [Items -> Item] /\ file \in [RunIds -> RunFile] /\ Named(items)
  BY UpFacts
<1>3. file[r].used \in Nat
  BY <1>2 DEF RunFile
<1>4. \A j \in Items : items[j].cost \in Nat /\ Owed(items, file, j) \in Nat
  BY <1>2, BillTypes
<1>5. items[i].cost + Owed(items, file, i) + x <= items'[i].cost + Owed(items', file', i)
  BY <1>1, <1>3, <1>4
<1>6. \A j \in Items : items[j].cost + Owed(items, file, j) <= items'[j].cost + Owed(items', file', j)
  <2> TAKE j \in Items
  <2>1. CASE j = i
    BY <1>1, <1>3, <1>4, <2>1
  <2>2. CASE j # i
    BY <1>1, <1>4, <2>2
  <2> QED
    BY <2>1, <2>2
<1>7. Filed(items', file')
  <2>1. Carries'
    BY DEF Carries
  <2>2. Filed(items, file)'
    BY <2>1, FiledWhileUp, PTL
  <2> QED
    BY <2>2
<1> QED
  BY <1>1, <1>5, <1>6, <1>7, ChargedStep

LEMMA StartQueuedBooks ==
    ASSUME Sound, Sound', Books, NEW r \in RunIds, StartQueued(r)
    PROVE  Books'
<1> DEFINE i == run[r].item
<1>1. /\ run[r].phase = "queued" /\ Carries
      /\ file' = [file EXCEPT ![r].ticket = "running"]
      /\ items' = [items EXCEPT ![i].state = IF items[i].run = r THEN "running" ELSE @]
      /\ UNCHANGED <<batch, lb, proc, balVars, Due, escaped>>
  BY DEF StartQueued, Carries, history, Due
<1>2. Structure /\ Structure' /\ Charged /\ Budgeted /\ Due \in Int
  BY DEF Sound, Books, Structure, Counters, Due
<1>3. /\ lb \in LiveBatch /\ items \in [Items -> Item] /\ file \in [RunIds -> RunFile]
      /\ Placed(lb, items, run, file) /\ lb.outstanding = InFlight(items)
  BY <1>1, <1>2, UpFacts
<1>4. RunPlaced(r, lb, items, run, file)
  BY <1>1, <1>3 DEF Placed
<1>5. i \in Items /\ i \in InFlight(items) /\ items[i].run = r /\ lb.anchored
  BY <1>1, <1>3, <1>4 DEF RunPlaced, LiveBatch
<1> HIDE DEF i
<1>6. \A j \in Items : /\ items'[j].cost = items[j].cost /\ items'[j].run = items[j].run
                       /\ j \in InFlight(items') <=> j \in InFlight(items)
  <2> TAKE j \in Items
  <2>1. CASE j = i
    <3>1. items' = [items EXCEPT ![i].state = "running"]
      BY <1>1, <1>3, <1>5
    <3>2. items'[i].state = "running" /\ items'[i].cost = items[i].cost /\ items'[i].run = items[i].run
      BY <1>3, <1>5, <3>1 DEF Item
    <3> QED
      BY <1>5, <2>1, <3>2 DEF InFlight
  <2>2. CASE j # i
    <3>1. items'[j] = items[j]
      BY <1>1, <1>3, <2>2
    <3> QED
      BY <3>1 DEF InFlight
  <2> QED
    BY <2>1, <2>2
<1>7. \A s \in RunIds : file'[s].used = file[s].used
  BY <1>1, <1>3 DEF RunFile
<1>8. file'[r].used = file[r].used + 0 /\ Due' = Due + 0 /\ 0 \in Nat
  BY <1>1, <1>2, <1>3, <1>7 DEF RunFile
<1>9. Charged'
  BY <1>1, <1>2, <1>6, <1>7, <1>8, OneRunCharged
<1>10. Budgeted'
  BY <1>1, <1>2, <1>5, BudgetedKept DEF balVars
<1> QED
  BY <1>9, <1>10 DEF Books

(* A run that was dispatched finds the driver's hold. *)
LEMMA RunOpensBooks ==
    ASSUME Sound, Books, NEW r \in RunIds, RunOpens(r)
    PROVE  Books'
<1> DEFINE left == [a \in {Account} |-> run[r].remaining]
<1>1. /\ run[r].phase = "dispatched" /\ Carries
      /\ Bal!Open(r, left)
      /\ UNCHANGED <<batch, items, file, lb, Due, escaped>>
  BY DEF RunOpens, Carries, disk, history, Due
<1>2. Structure /\ MoneyOK /\ Charged /\ Budgeted
  BY DEF Sound, Books
<1>3. run \in [RunIds -> Carried] /\ Placed(lb, items, run, file)
  BY <1>1, <1>2, UpFacts
<1>4. RunPlaced(r, lb, items, run, file)
  BY <1>1, <1>3 DEF Placed
<1>5. escaped = {} => lb.anchored
  BY <1>1, <1>2, <1>4 DEF RunPlaced, Budgeted, NobodyRuns
<1>6. left \in [{Account} -> Nat]
  BY <1>3 DEF Carried
<1> HIDE DEF left
<1>7. balance'[Account] = IF holders[Account] = 0 THEN left[Account] ELSE balance[Account]
  BY <1>1, <1>2, <1>6, Holds, MoneyOpens
<1>8. lb.anchored => holders[Account] > 0 /\ holders[Account] \in Nat
  BY <1>2, Holders, MoneyTypes
<1>9. Budgeted'
  <2> SUFFICES ASSUME escaped' = {}
               PROVE  /\ Due' <= batch'.budget
                      /\ holders'[Account] > 0 => balance'[Account] + Due' <= batch'.budget
                      /\ ~lb'.anchored => NobodyRuns(lb', items')
    BY DEF Budgeted, NobodyRuns, Due
  <2>1. lb.anchored /\ holders[Account] > 0 /\ balance'[Account] = balance[Account]
    BY <1>1, <1>5, <1>7, <1>8
  <2> QED
    BY <1>1, <1>2, <2>1 DEF Budgeted
<1> QED
  BY <1>1, <1>2, <1>9, ChargedSame DEF Books

LEMMA CallStartsBooks ==
    ASSUME Sound, Books, NEW r \in RunIds, NEW out \in MinCall..MaxCall, CallStarts(r, out)
    PROVE  Books'
<1>1. Bal!CheckGranted(r, 0, MaxCall, MinCall, out) /\ UNCHANGED <<batch, items, file, lb, Due, escaped>>
  BY DEF CallStarts, disk, history, Due
<1>2. UNCHANGED <<holders, balance>>
  BY <1>1, MoneyGrants DEF Sound
<1> QED
  BY <1>1, <1>2, ChargedSame, BudgetedSame DEF Books

LEMMA CallRefusedBooks ==
    ASSUME Sound, Books, NEW r \in RunIds, CallRefused(r)
    PROVE  Books'
<1>1. Bal!CheckRefused(r, 0, MaxCall, MinCall) /\ UNCHANGED <<batch, items, file, lb, Due, escaped>>
  BY DEF CallRefused, disk, history, Due
<1>2. UNCHANGED <<holders, balance>>
  BY <1>1, MoneyRefuses DEF Sound
<1> QED
  BY <1>1, <1>2, ChargedSame, BudgetedSame DEF Books

(* What a call costs leaves the balance as it is spent, and the balance is not
   overdrawn. *)
LEMMA CallEndsBooks ==
    ASSUME Sound, Sound', Books, NEW r \in RunIds, NEW cost \in CallCosts, CallEnds(r, cost)
    PROVE  Books'
<1>1. /\ run[r].phase = "running" /\ Carries /\ cost <= call[r].output
      /\ Bal!Debit(r, 0, call[r].output, [a \in {Account} |-> cost])
      /\ file' = [file EXCEPT ![r].used = @ + cost]
      /\ spent' = spent + cost /\ UNCHANGED unbilled
      /\ UNCHANGED <<batch, items, lb, proc, escaped>>
  BY DEF CallEnds, Carries
<1>2. /\ Structure /\ Structure' /\ MoneyOK /\ MoneyOK' /\ Charged /\ Budgeted
      /\ spent \in Nat /\ unbilled \in Nat /\ Due \in Int
  BY DEF Sound, Books, Structure, Counters, Due
<1>3. file \in [RunIds -> RunFile] /\ batch \in BatchRecord
  BY <1>1, <1>2, UpFacts
<1>4. cost \in Nat
  BY BatchConstants
<1>5. Due' = Due + cost
  BY <1>1, <1>2, <1>4 DEF Due
<1>6. file'[r].used = file[r].used + cost /\ \A s \in RunIds : s # r => file'[s].used = file[s].used
  BY <1>1, <1>3 DEF RunFile
<1>7. Charged'
  BY <1>1, <1>2, <1>4, <1>6, <1>5, OneRunCharged DEF InFlight
<1>8. balance'[Account] = balance[Account] - cost /\ UNCHANGED holders
  BY <1>1, <1>2, MoneyDebits
<1>9. balance[Account] \in Int /\ batch.budget \in Nat /\ balance'[Account] >= 0
  <2>1. balance[Account] \in Int
    BY <1>2, MoneyTypes
  <2>2. (reserved[Account] \in Nat /\ reserved[Account] <= balance[Account] /\ balance[Account] \in Int)'
    BY <1>2, MoneyTypes, PTL
  <2> QED
    BY <1>3, <2>1, <2>2 DEF BatchRecord
<1>10. holders[Account] > 0
  BY <1>1, <1>2, Holders
<1>11. Budgeted'
  <2> SUFFICES ASSUME escaped = {}
               PROVE  /\ Due' <= batch.budget
                      /\ balance'[Account] + Due' <= batch.budget
                      /\ ~lb.anchored => NobodyRuns(lb, items)
    BY <1>1 DEF Budgeted, NobodyRuns
  <2>1. balance[Account] + Due <= batch.budget /\ (~lb.anchored => NobodyRuns(lb, items))
    BY <1>2, <1>10 DEF Budgeted
  <2> QED
    BY <1>1, <1>2, <1>4, <1>8, <1>9, <1>5, <2>1
<1> QED
  BY <1>7, <1>11 DEF Books

LEMMA RunEndsBooks ==
    ASSUME Sound, Books, NEW r \in RunIds, NEW execution, NEW stop, RunEnds(r, execution, stop)
    PROVE  Books'
<1>1. /\ IF run[r].phase = "running" THEN Bal!Release(r) ELSE UNCHANGED balVars
      /\ UNCHANGED <<batch, items, file, lb, Due, escaped>>
  BY DEF RunEnds, disk, history, Due
<1>2. holders'[Account] > 0 => holders[Account] > 0 /\ balance'[Account] = balance[Account]
  <2>1. CASE run[r].phase = "running"
    <3>1. /\ holders[Account] > 1 => balance'[Account] = balance[Account]
          /\ holders[Account] <= 1 => holders'[Account] = 0
      BY <1>1, <2>1, Holds, MoneyReleases DEF Sound
    <3>2. holders[Account] \in Nat
      BY MoneyTypes DEF Sound
    <3> QED
      BY <3>1, <3>2
  <2>2. CASE run[r].phase # "running"
    BY <1>1, <2>2 DEF balVars
  <2> QED
    BY <2>1, <2>2
<1>3. Charged' /\ (escaped' = {} /\ ~lb'.anchored => NobodyRuns(lb', items'))
  BY <1>1, ChargedSame DEF Books, Budgeted, NobodyRuns
<1> QED
  BY <1>1, <1>2, <1>3, BudgetedKept DEF Books

LEMMA RunThrowsBooks ==
    ASSUME Sound, Books, NEW r \in RunIds, RunThrows(r)
    PROVE  Books'
<1>1. Bal!Release(r) /\ UNCHANGED <<batch, items, file, lb, Due, escaped>>
  BY DEF RunThrows, disk, history, Due
<1>2. holders'[Account] > 0 => holders[Account] > 0 /\ balance'[Account] = balance[Account]
  <2>1. /\ holders[Account] > 1 => balance'[Account] = balance[Account]
        /\ holders[Account] <= 1 => holders'[Account] = 0
    BY <1>1, Holds, MoneyReleases DEF Sound
  <2>2. holders[Account] \in Nat
    BY MoneyTypes DEF Sound
  <2> QED
    BY <2>1, <2>2
<1>3. Charged' /\ (escaped' = {} /\ ~lb'.anchored => NobodyRuns(lb', items'))
  BY <1>1, ChargedSame DEF Books, Budgeted, NobodyRuns
<1> QED
  BY <1>1, <1>2, <1>3, BudgetedKept DEF Books

(* A record that leaves x of what a run used out of the books takes it from what
   is due as well. *)
LEMMA OneRunUnbilled ==
    ASSUME Structure, Structure', Charged, Carries, UNCHANGED <<proc, escaped, items>>,
           NEW r \in RunIds, run[r].phase # "idle",
           NEW x \in Nat, Due' + x = Due, file'[r].used + x = file[r].used,
           \A s \in RunIds : s # r => file'[s].used = file[s].used
    PROVE  Charged'
<1> DEFINE i == run[r].item
           less == Bill(items', file')
           more == Bill(items, file)
<1>1. /\ i \in Items
      /\ \A j \in Items : j # i => Owed(items', file', j) = Owed(items, file, j)
      /\ Owed(items, file, i) = file[r].used /\ Owed(items', file', i) = file'[r].used
  BY OneRunOwes DEF InFlight
<1> HIDE DEF i
<1>2. items \in [Items -> Item] /\ file \in [RunIds -> RunFile] /\ Named(items)
  BY UpFacts
<1>3. items' \in [Items -> Item] /\ file' \in [RunIds -> RunFile] /\ Named(items')
  BY DEF Structure, Consistent
<1>4. \A j \in Items : /\ more[j].cost = items[j].cost + Owed(items, file, j) /\ more[j].cost \in Nat
                       /\ items[j].cost \in Nat
  BY <1>2, BillTypes
<1>5. \A j \in Items : less[j].cost = items'[j].cost + Owed(items', file', j) /\ less[j].cost \in Nat
  BY <1>3, BillTypes
<1>6. file'[r].used \in Nat /\ file[r].used \in Nat
  BY <1>2, <1>3 DEF RunFile
<1>7. /\ \A j \in Items : j # i => more[j].cost = less[j].cost
      /\ more[i].cost = less[i].cost + x
  <2> HIDE DEF less, more
  <2> QED
    BY <1>1, <1>4, <1>5, <1>6
<1>8. SumCost(less) \in Nat /\ SumCost(more) = SumCost(less) + x
  <2> HIDE DEF less, more
  <2> QED
    BY <1>1, <1>4, <1>5, <1>7, CostsRise
<1>9. Filed(items', file')
  <2>1. Carries'
    BY DEF Carries
  <2>2. Filed(items, file)'
    BY <2>1, FiledWhileUp, PTL
  <2> QED
    BY <2>2
<1>10. "torn" \notin escaped => SumCost(more) >= Due
  BY DEF Charged
<1>11. Due \in Int /\ Due' \in Int
  BY DEF Structure, Counters, Due
<1> HIDE DEF less, more
<1>12. "torn" \notin escaped => SumCost(less) >= Due'
  <2>1. SumCost(less) \in Int /\ SumCost(more) \in Int
    BY <1>8
  <2> QED
    BY <1>8, <1>10, <1>11, <2>1, TakenAway
<1> QED
  BY <1>9, <1>12 DEF Charged, less

LEMMA RecordBooks ==
    ASSUME Sound, Sound', Books, NEW r \in RunIds, Record(r)
    PROVE  Books'
<1> DEFINE g == Closed(Recording(r))
           x == file[r].used - Recording(r).cost
<1>1. /\ run[r].phase = "ended" /\ Carries
      /\ file' = [file EXCEPT ![r] = g]
      /\ unbilled' = unbilled + file[r].used - Recording(r).cost
      /\ UNCHANGED <<batch, items, lb, proc, balVars, spent, escaped>>
  BY DEF Record, Carries
<1>2. /\ Structure /\ Structure' /\ Charged /\ Budgeted /\ spent \in Nat /\ unbilled \in Nat
      /\ Due \in Int /\ Due' \in Int
  BY DEF Sound, Books, Structure, Counters, Due
<1>3. file \in [RunIds -> RunFile] /\ run \in [RunIds -> Carried]
  BY <1>1, <1>2, UpFacts
<1>4. x \in Nat /\ file[r].used \in Nat /\ Recording(r).cost \in Nat /\ g.used = Recording(r).cost
  BY <1>3, Records, Closes DEF RunFile
<1>5. Due' + x = Due
  BY <1>1, <1>2, <1>4 DEF Due
<1>6. file'[r].used + x = file[r].used /\ \A s \in RunIds : s # r => file'[s].used = file[s].used
  BY <1>1, <1>3, <1>4
<1> HIDE DEF g, x
<1>7. Charged'
  BY <1>1, <1>2, <1>4, <1>5, <1>6, OneRunUnbilled
<1>8. Due' <= Due
  BY <1>2, <1>4, <1>5, TakenAway
<1>9. Budgeted'
  <2> SUFFICES ASSUME escaped = {}
               PROVE  /\ Due' <= batch.budget
                      /\ holders[Account] > 0 => balance[Account] + Due' <= batch.budget
                      /\ ~lb.anchored => NobodyRuns(lb, items)
    BY <1>1 DEF Budgeted, NobodyRuns, balVars
  <2>1. /\ Due <= batch.budget
        /\ holders[Account] > 0 => balance[Account] + Due <= batch.budget
        /\ ~lb.anchored => NobodyRuns(lb, items)
    BY <1>2 DEF Budgeted
  <2>2. balance[Account] \in Int /\ batch.budget \in Nat
    BY <1>1, <1>2, MoneyTypes, UpFacts DEF Sound, BatchRecord
  <2> QED
    BY <1>2, <1>8, <2>1, <2>2
<1> QED
  BY <1>7, <1>9 DEF Books

LEMMA CancelQueuedBooks ==
    ASSUME Sound, Sound', Books, NEW r \in RunIds, CancelQueued(r)
    PROVE  Books'
<1>1. /\ run[r].phase = "queued" /\ Carries
      /\ file' = [file EXCEPT ![r] = NeverStarted("cancelled")]
      /\ UNCHANGED <<batch, items, lb, proc, balVars, Due, escaped>>
  BY DEF CancelQueued, Carries, history, Due
<1>2. Structure /\ Structure' /\ Charged /\ Budgeted /\ Due \in Int
  BY DEF Sound, Books, Structure, Counters, Due
<1>3. file \in [RunIds -> RunFile] /\ Placed(lb, items, run, file)
  BY <1>1, <1>2, UpFacts
<1>4. RunPlaced(r, lb, items, run, file)
  BY <1>1, <1>3 DEF Placed
<1>5. file[r].used = 0
  BY <1>1, <1>4 DEF RunPlaced
<1>6. \A s \in RunIds : file'[s].used = file[s].used
  BY <1>1, <1>3, <1>5 DEF NeverStarted
<1>7. file'[r].used = file[r].used + 0 /\ Due' = Due + 0 /\ 0 \in Nat
  BY <1>2, <1>5, <1>6, <1>1
<1>8. Charged'
  BY <1>1, <1>2, <1>6, <1>7, OneRunCharged DEF InFlight
<1> QED
  BY <1>1, <1>2, <1>8, BudgetedSame DEF Books, balVars

LEMMA ItemEndedBooks ==
    ASSUME Sound, Sound', Books, NEW r \in RunIds, NEW verdict \in Verdicts \cup {"none"},
           ItemEnded(r, verdict)
    PROVE  Books'
<1> DEFINE i == run[r].item
<1>1. Carries /\ run[r].phase = "recorded" /\ UNCHANGED <<proc, Due>>
  BY ItemSettles DEF Due
<1>2. Structure /\ Structure' /\ MoneyOK /\ Charged /\ Budgeted
  BY DEF Sound, Books
<1>3. /\ batch \in BatchRecord /\ items \in [Items -> Item] /\ file \in [RunIds -> RunFile] /\ Named(items)
      /\ lb \in LiveBatch /\ Placed(lb, items, run, file) /\ lb.outstanding = InFlight(items)
  BY <1>1, <1>2, UpFacts
<1>4. RunPlaced(r, lb, items, run, file)
  BY <1>1, <1>3 DEF Placed
<1>5. i \in InFlight(items) /\ items[i].run = r /\ file[r] \in RunFile /\ file[r].used <= file[r].cost
  BY <1>1, <1>3, <1>4 DEF RunPlaced, LiveBatch
<1>6. PICK d, its, rn, reason :
        /\ Consistent(proc, batch, d, its, rn, file) /\ HeldBy(d, rn)
        /\ d.anchored = lb.anchored /\ d.outstanding = lb.outstanding \ {i}
        /\ its[i].state \in {"done", "pending"} /\ its[i].cost = items[i].cost + file[r].cost
        /\ \A j \in Items : j # i => its[j] = items[j]
        /\ IF batch.state = "running" /\ reason # "none"
           THEN Pause(batch, d, its, rn, reason)
           ELSE Proceed(batch, d, its, rn)
  BY ItemSettles
<1> HIDE DEF i
<1>7. d \in LiveBatch /\ its \in [Items -> Item] /\ Named(its)
  BY <1>6 DEF Consistent
<1>8. \A j \in Items : items[j].cost + Owed(items, file, j) <= its[j].cost + Owed(its, file, j)
  <2> TAKE j \in Items
  <2>1. items[j].cost \in Nat /\ Owed(items, file, j) \in Nat
    BY <1>3, BillTypes
  <2>2. CASE j = i
    <3>1. Owed(items, file, j) = file[r].used
      BY <1>5, <2>2 DEF Owed
    <3>2. Owed(its, file, j) = 0 /\ its[j].cost = items[j].cost + file[r].cost
      BY <1>6, <2>2 DEF Owed, InFlight
    <3>3. file[r].used \in Nat /\ file[r].cost \in Nat
      BY <1>5 DEF RunFile
    <3> QED
      BY <1>5, <2>1, <3>1, <3>2, <3>3
  <2>3. CASE j # i
    <3>1. its[j] = items[j]
      BY <1>6, <2>3
    <3>2. Owed(its, file, j) = Owed(items, file, j)
      BY <3>1 DEF Owed, InFlight
    <3> QED
      BY <2>1, <3>1, <3>2
  <2> QED
    BY <2>2, <2>3
<1>9. items' = its /\ escaped \subseteq escaped' /\ Carries'
  BY <1>1, <1>6 DEF Pause, Proceed, Carries
<1>10. NobodyRuns(lb, items) => NobodyRuns(d, its)
  <2> SUFFICES ASSUME NobodyRuns(lb, items), NEW j \in d.outstanding PROVE its[j].state # "running"
    BY DEF NobodyRuns
  <2>1. j \in Items /\ j # i /\ j \in lb.outstanding
    BY <1>3, <1>6 DEF LiveBatch
  <2> QED
    BY <1>6, <2>1 DEF NobodyRuns
<1>11. CASE batch.state = "running" /\ reason # "none"
  <2>1. Pause(batch, d, its, rn, reason)
    BY <1>6, <1>11
  <2>2. \A j \in Items : items[j].cost + Owed(items, file, j) <= items'[j].cost + Owed(items', file', j)
    <3> TAKE j \in Items
    <3>1. "skipped" \in {"skipped", "cancelled"} /\ LeaveQueue(d, its, rn, "skipped")
      BY <2>1 DEF Pause
    <3>2. Filed(its, file) /\ d.outstanding \subseteq InFlight(its)
      <4>1. \A k \in InFlight(its) : k \in InFlight(items) /\ its[k] = items[k]
        BY <1>6 DEF InFlight
      <4>2. \A k \in d.outstanding : k \in InFlight(its)
        <5> TAKE k \in d.outstanding
        <5>1. k \in InFlight(items) /\ k # i
          BY <1>3, <1>6
        <5> QED
          BY <1>6, <5>1 DEF InFlight
      <4>3. Filed(items, file)
        BY <1>1, <1>2, FiledWhileUp
      <4> QED
        BY <4>1, <4>2, <4>3 DEF Filed
    <3>3. Owed(its, file', j) = Owed(its, file, j)
      BY <1>3, <1>7, <3>1, <3>2, QueueOwes
    <3> QED
      BY <1>8, <1>9, <3>3
  <2>3. Charged'
    BY <1>1, <1>2, <1>9, <2>2, ChargedUp
  <2>4. Budgeted'
    BY <1>1, <1>2, <1>3, <1>6, <1>7, <2>1, PauseBudget
  <2> QED
    BY <2>3, <2>4 DEF Books
<1>12. CASE ~(batch.state = "running" /\ reason # "none")
  <2>1. /\ batch' = batch /\ lb' = d /\ items' = its /\ file' = Kept(its, file)
        /\ UNCHANGED <<balVars, escaped>>
    BY <1>6, <1>12 DEF Proceed
  <2>2. \A j \in Items : items[j].cost + Owed(items, file, j) <= items'[j].cost + Owed(items', file', j)
    <3> TAKE j \in Items
    <3>1. Owed(its, Kept(its, file), j) = Owed(its, file, j)
      BY <1>3, <1>7, KeptOwes
    <3> QED
      BY <1>8, <2>1, <3>1
  <2>3. Charged'
    BY <1>1, <1>2, <1>9, <2>2, ChargedUp
  <2>4. Budgeted'
    BY <1>1, <1>2, <1>6, <1>10, <2>1, BudgetedSame DEF balVars
  <2> QED
    BY <2>3, <2>4 DEF Books
<1> QED
  BY <1>11, <1>12

LEMMA ControlPauseBooks ==
    ASSUME Sound, Sound', Books, ControlPause
    PROVE  Books'
<1>1. Carries /\ Pause(batch, lb, items, run, "manual") /\ UNCHANGED <<proc, Due>>
  BY DEF ControlPause, Carries, Due
<1> QED
  BY <1>1, PauseBooks

(* With no holder nobody runs, and the items' cost covers what was spent. *)
LEMMA UnheldCovers ==
    ASSUME Sound, Books, Carries, escaped = {}, holders[Account] = 0
    PROVE  SumCost(items) >= Due
<1>1. Structure /\ MoneyOK /\ Charged /\ Budgeted
  BY DEF Sound, Books
<1>2. ~lb.anchored
  BY <1>1, Holders
<1>3. NobodyRuns(lb, items)
  BY <1>1, <1>2 DEF Budgeted
<1>4. InFlight(items) \subseteq lb.outstanding /\ "torn" \notin escaped
  BY <1>1, UpFacts
<1> QED
  BY <1>1, <1>3, <1>4, RestCovers

(* resume(): another budget is set while nobody holds the account only. *)
LEMMA ControlResumeBooks ==
    ASSUME Sound, Books, NEW budget \in Budgets \cup {batch.budget}, ControlResume(budget)
    PROVE  Books'
<1> DEFINE b == [Running(batch) EXCEPT !.budget = budget]
<1>1. /\ proc = "up" /\ Carries /\ MaySet(budget)
      /\ Activate(b, Loaded, items, "control")
      /\ UNCHANGED <<file, run, Due, escaped>>
  BY DEF ControlResume, Carries, history, Due
<1>2. Structure /\ MoneyOK /\ Charged /\ Budgeted /\ Due \in Int
  BY DEF Sound, Books, Structure, Counters, Due
<1>3. batch \in BatchRecord /\ items \in [Items -> Item]
  BY <1>1, <1>2, UpFacts
<1>4. budget \in Nat
  BY <1>3, BatchConstants DEF BatchRecord
<1>5. b \in BatchRecord /\ b.budget = budget
  BY <1>3, <1>4, RunningRecord DEF BatchRecord
<1>6. Loaded \in LiveBatch /\ HeldBy(Loaded, run)
  BY <1>1, <1>2, LoadedConsistent, LoadedHeld DEF Consistent
<1>7. SumCost(items) \in Nat
  BY <1>3, CostIsNatural DEF Item
<1>8. items' = items
  BY <1>1 DEF Activate
<1> HIDE DEF b
<1>9. ASSUME escaped = {}
      PROVE  /\ Due <= b.budget
             /\ holders[Account] > 0 => balance[Account] + Due <= b.budget
             /\ holders[Account] = 0 => SumCost(items) >= Due
  <2>1. holders[Account] = 0 => SumCost(items) >= Due
    BY <1>1, <1>9, UnheldCovers
  <2>2. CASE budget = batch.budget
    BY <1>2, <1>5, <1>9, <2>1, <2>2 DEF Budgeted
  <2>3. CASE budget # batch.budget
    BY <1>1, <1>2, <1>4, <1>5, <1>7, <2>1, <2>3 DEF MaySet
  <2> QED
    BY <2>2, <2>3
<1>10. Budgeted'
  BY <1>1, <1>2, <1>3, <1>5, <1>6, <1>9, ActivateBudget
<1> QED
  BY <1>1, <1>2, <1>8, <1>10, ChargedSame DEF Books

LEMMA ControlCancelBooks ==
    ASSUME Sound, Sound', Books, ControlCancel
    PROVE  Books'
<1> DEFINE its == [i \in Items |-> IF items[i].state = "pending"
                                   THEN [items[i] EXCEPT !.state = "done", !.execution = "cancelled"]
                                   ELSE items[i]]
           d == [Loaded EXCEPT !.pending = <<>>, !.retry = FALSE, !.anchored = FALSE]
<1>1. /\ proc = "up" /\ Carries
      /\ batch' = [batch EXCEPT !.state = "cancelled", !.reason = "none"]
      /\ items' = its
      /\ lb' = IF d.outstanding = {} THEN NotLoaded ELSE d
      /\ LeaveQueue(d, its, run, "cancelled")
      /\ ReleaseAnchor(Loaded)
      /\ escaped' = escaped \cup LeavesRunning(d, its)
      /\ UNCHANGED <<proc, Due>>
  BY DEF ControlCancel, Carries, Due
<1>2. Structure /\ Structure' /\ MoneyOK /\ Charged /\ Budgeted
  BY DEF Sound, Books
<1>3. /\ batch \in BatchRecord /\ items \in [Items -> Item] /\ file \in [RunIds -> RunFile] /\ Named(items)
      /\ lb \in LiveBatch /\ lb.outstanding = InFlight(items) /\ Filed(items, file)
  BY <1>1, <1>2, UpFacts, FiledWhileUp
<1>4. Loaded \in LiveBatch /\ HeldBy(Loaded, run) /\ Loaded.outstanding = lb.outstanding
  BY <1>1, <1>2, LoadedConsistent, LoadedHeld DEF Consistent
<1>5. d.outstanding = lb.outstanding
  BY <1>4 DEF LiveBatch
<1>6. \A i \in Items : /\ its[i].cost = items[i].cost /\ its[i].run = items[i].run /\ its[i] \in Item
                       /\ items[i].state = "pending" => its[i].state = "done"
                       /\ items[i].state # "pending" => its[i] = items[i]
  <2> TAKE i \in Items
  <2>1. items[i] \in Item
    BY <1>3
  <2> QED
    BY <2>1 DEF Item
<1>7. its \in [Items -> Item]
  BY <1>6
<1> HIDE DEF its, d
<1>8. InFlight(its) = InFlight(items) /\ (\A i \in InFlight(its) : its[i] = items[i]) /\ Named(its)
  <2>1. InFlight(its) = InFlight(items) /\ \A i \in InFlight(its) : its[i] = items[i]
    BY <1>6 DEF InFlight
  <2>2. Named(its)
    BY <1>2, <1>1 DEF Structure, Consistent
  <2> QED
    BY <2>1, <2>2
<1>9. batch'.budget = batch.budget
  BY <1>1, <1>3 DEF BatchRecord
<1>10. escaped' = {} => NobodyRuns(lb', items')
  BY <1>1, IsNotLoaded DEF NobodyRuns, LeavesRunning, OthersRunning
<1>11. holders'[Account] > 0 => holders[Account] > 0 /\ balance'[Account] = balance[Account]
  BY <1>1, <1>2, <1>4, AnchorGivenUp
<1>12. Budgeted'
  BY <1>1, <1>2, <1>9, <1>10, <1>11, BudgetedKept
<1>13. \A i \in Items : items[i].cost + Owed(items, file, i) <= items'[i].cost + Owed(items', file', i)
  <2> TAKE i \in Items
  <2>1. Owed(items, file, i) \in Nat /\ items[i].cost \in Nat
    BY <1>3, BillTypes
  <2>2. Owed(its, file, i) = Owed(items, file, i)
    BY <1>6, <1>8 DEF Owed
  <2>3. "cancelled" \in {"skipped", "cancelled"} /\ Filed(its, file) /\ d.outstanding \subseteq InFlight(its)
    BY <1>3, <1>5, <1>8 DEF Filed
  <2>4. Owed(its, file', i) = Owed(its, file, i)
    BY <1>1, <1>3, <1>7, <1>8, <2>3, QueueOwes
  <2> QED
    BY <1>1, <1>6, <2>1, <2>2, <2>4
<1>14. Charged'
  BY <1>1, <1>2, <1>13, ChargedUp DEF Carries
<1> QED
  BY <1>12, <1>14 DEF Books

(* An item that is run again keeps what it cost. *)
LEMMA ControlRerunBooks ==
    ASSUME Sound, Sound', Books, ControlRerun
    PROVE  Books'
<1> DEFINE again == InOrder({i \in Items : IsRerunnable(items[i])})
           its == [i \in Items |-> IF IsRerunnable(items[i]) THEN BackToPending(items[i]) ELSE items[i]]
           d == [Loaded EXCEPT !.pending = @ \o again]
           b == IF batch.state = "running" THEN batch ELSE Running(batch)
<1>1. /\ proc = "up" /\ Carries /\ UNCHANGED proc
      /\ Activate(b, d, its, "control")
      /\ file' = Kept(its, file)
      /\ UNCHANGED <<run, Due, escaped>>
  BY DEF ControlRerun, Carries, history, Due
<1>2. Structure /\ Structure' /\ MoneyOK /\ Charged /\ Budgeted /\ Due \in Int
  BY DEF Sound, Books, Structure, Counters, Due
<1>3. /\ batch \in BatchRecord /\ items \in [Items -> Item] /\ file \in [RunIds -> RunFile] /\ Named(items)
  BY <1>1, <1>2, UpFacts
<1>4. items' = its /\ lb' = [d EXCEPT !.waitForSettle = FALSE, !.anchored = TRUE]
  BY <1>1 DEF Activate
<1>5. its \in [Items -> Item] /\ Named(its)
  BY <1>2, <1>4 DEF Structure, Consistent
<1>6. Loaded \in LiveBatch /\ HeldBy(Loaded, run) /\ Lists(Loaded.pending, PendingItems(items))
  BY <1>1, <1>2, LoadedConsistent, LoadedHeld DEF Consistent
<1>7. d \in LiveBatch /\ d.anchored = Loaded.anchored
  <2> DEFINE list == Loaded.pending \o again
  <2>1. again \in Seq(Items) /\ Loaded.pending \in Seq(Items)
    BY <1>6, InOrderLists DEF Lists
  <2>2. list \in Seq(Items)
    BY <2>1, ConcatProperties
  <2>3. d = [Loaded EXCEPT !.pending = list]
    BY <1>6 DEF LiveBatch
  <2> HIDE DEF list, d
  <2> QED
    BY <1>6, <2>2, <2>3 DEF LiveBatch
<1>8. HeldBy(d, run)
  BY <1>6, <1>7 DEF HeldBy
<1>9. b \in BatchRecord /\ b.budget = batch.budget
  <2>1. Running(batch) \in BatchRecord
    BY <1>3, RunningRecord
  <2> QED
    BY <1>3, <2>1 DEF Running, BatchRecord
<1>10. \A i \in Items : /\ its[i].cost = items[i].cost
                        /\ IsRerunnable(items[i]) => i \notin InFlight(items)
                        /\ ~IsRerunnable(items[i]) => its[i] = items[i]
  BY DEF BackToPending, NewItem, IsRerunnable, InFlight
<1> HIDE DEF again, its, d, b
<1>11. SumCost(items) <= SumCost(its) /\ SumCost(items) \in Nat /\ SumCost(its) \in Nat
  <2>1. \A i \in Items : items[i].cost \in Nat /\ its[i].cost \in Nat /\ items[i].cost <= its[i].cost
    BY <1>3, <1>10 DEF Item
  <2>2. SumCost(items) \in Nat /\ SumCost(its) \in Nat /\ SumCost(items) + 0 <= SumCost(its)
    BY <2>1, CostsCompare
  <2> QED
    BY <2>2
<1>12. ASSUME escaped = {}
       PROVE  /\ Due <= b.budget
              /\ holders[Account] > 0 => balance[Account] + Due <= b.budget
              /\ holders[Account] = 0 => SumCost(its) >= Due
  <2>1. holders[Account] = 0 => SumCost(items) >= Due
    BY <1>1, <1>12, UnheldCovers
  <2> QED
    BY <1>2, <1>9, <1>11, <1>12, <2>1 DEF Budgeted
<1>13. Budgeted'
  BY <1>1, <1>2, <1>5, <1>7, <1>8, <1>9, <1>12, ActivateBudget
<1>14. \A i \in Items : items[i].cost + Owed(items, file, i) <= items'[i].cost + Owed(items', file', i)
  <2> TAKE i \in Items
  <2>1. Owed(items, file, i) \in Nat /\ items[i].cost \in Nat /\ Owed(its, file, i) \in Nat
    BY <1>3, <1>5, BillTypes
  <2>2. Owed(items, file, i) <= Owed(its, file, i)
    <3>1. CASE IsRerunnable(items[i])
      BY <1>10, <2>1, <3>1 DEF Owed
    <3>2. CASE ~IsRerunnable(items[i])
      <4>1. Owed(its, file, i) = Owed(items, file, i)
        BY <1>10, <3>2 DEF Owed, InFlight
      <4> QED
        BY <2>1, <4>1
    <3> QED
      BY <3>1, <3>2
  <2>3. Owed(its, Kept(its, file), i) = Owed(its, file, i)
    BY <1>3, <1>5, KeptOwes
  <2> QED
    BY <1>1, <1>4, <1>10, <2>1, <2>2, <2>3
<1>15. Charged'
  BY <1>1, <1>2, <1>14, ChargedUp DEF Carries
<1> QED
  BY <1>13, <1>15 DEF Books

LEMMA SyncRunBooks ==
    ASSUME Sound, Sound', Books, NEW i \in Items, NEW verdict \in Verdicts, SyncRun(i, verdict)
    PROVE  Books'
<1>1. /\ proc = "up" /\ Carries /\ UNCHANGED proc
      /\ items' = [items EXCEPT ![i].verdict = verdict]
      /\ IF batch.state = "running" THEN UNCHANGED <<batch, lb, balVars>>
         ELSE SettleIdle(batch, Loaded, items')
      /\ UNCHANGED <<file, run, Due, escaped>>
  BY DEF SyncRun, Carries, history, Due
<1>2. Structure /\ Structure' /\ MoneyOK /\ Charged /\ Budgeted
  BY DEF Sound, Books
<1>3. /\ batch \in BatchRecord /\ items \in [Items -> Item] /\ file \in [RunIds -> RunFile] /\ Named(items)
      /\ lb \in LiveBatch /\ lb.outstanding = InFlight(items)
  BY <1>1, <1>2, UpFacts
<1>4. \A j \in Items : /\ items'[j].state = items[j].state /\ items'[j].run = items[j].run
                       /\ items'[j].cost = items[j].cost
  BY <1>1, <1>3 DEF Item
<1>5. \A j \in Items : items[j].cost + Owed(items, file, j) <= items'[j].cost + Owed(items', file', j)
  <2> TAKE j \in Items
  <2>1. Owed(items, file, j) \in Nat /\ items[j].cost \in Nat
    BY <1>3, BillTypes
  <2>2. Owed(items', file', j) = Owed(items, file, j)
    BY <1>1, <1>4 DEF Owed, InFlight
  <2> QED
    BY <1>4, <2>1, <2>2
<1>6. Charged'
  BY <1>1, <1>2, <1>5, ChargedUp DEF Carries
<1>7. NobodyRuns(lb, items) => NobodyRuns(lb, items')
  <2>1. \A j \in lb.outstanding : j \in Items
    BY <1>3 DEF InFlight
  <2> QED
    BY <1>4, <2>1 DEF NobodyRuns
<1>8. CASE batch.state = "running"
  <2>1. UNCHANGED <<batch, lb, balVars>>
    BY <1>1, <1>8
  <2>2. Budgeted'
    BY <1>1, <1>2, <1>7, <2>1, BudgetedSame DEF balVars
  <2> QED
    BY <1>6, <2>2 DEF Books
<1>9. CASE batch.state # "running"
  <2>1. /\ Loaded \in LiveBatch /\ HeldBy(Loaded, run)
        /\ Loaded.outstanding = lb.outstanding /\ Loaded.anchored = lb.anchored
    BY <1>1, <1>2, LoadedConsistent, LoadedHeld DEF Consistent
  <2>2. escaped = {} /\ ~Loaded.anchored => NobodyRuns(Loaded, items')
    BY <1>2, <1>7, <2>1 DEF Budgeted, NobodyRuns
  <2>3. SettleIdle(batch, Loaded, items')
    BY <1>1, <1>9
  <2>4. Budgeted'
    BY <1>1, <1>2, <1>3, <2>1, <2>2, <2>3, SettleIdleBudget
  <2> QED
    BY <1>6, <2>4 DEF Books
<1> QED
  BY <1>8, <1>9

(* The account is gone with the process. *)
LEMMA LostBudget ==
    ASSUME Budgeted, Lost, UNCHANGED <<batch, Due, escaped>>
    PROVE  Budgeted'
<1>1. holders'[Account] = 0 /\ NobodyRuns(lb', items')
  BY MoneyLost, IsNotLoaded DEF Lost, NobodyRuns
<1> QED
  BY <1>1, BudgetedKept

LEMMA CrashBooks ==
    ASSUME Books, Crash
    PROVE  Books'
BY ChargedSame, LostBudget DEF Books, Crash, disk, Due

LEMMA ExitBooks ==
    ASSUME Books, Exit
    PROVE  Books'
BY ChargedSame, LostBudget DEF Books, Exit, disk, history, Due

(* What the run cost is on its index line already. *)
LEMMA CrashBeforeTicketBooks ==
    ASSUME Sound, Sound', Books, NEW r \in RunIds, CrashBeforeTicket(r)
    PROVE  Books'
<1> DEFINE g == Recording(r)
<1>1. /\ run[r].phase = "ended" /\ Carries
      /\ file' = [file EXCEPT ![r] = g]
      /\ Lost
      /\ UNCHANGED <<batch, items, Due, escaped>>
  BY DEF CrashBeforeTicket, Carries, Due
<1>2. Structure /\ Structure' /\ Charged /\ Budgeted /\ Due \in Int
  BY DEF Sound, Books, Structure, Counters, Due
<1>3. /\ items \in [Items -> Item] /\ file \in [RunIds -> RunFile] /\ Named(items)
      /\ lb \in LiveBatch /\ Placed(lb, items, run, file) /\ lb.outstanding = InFlight(items)
      /\ Filed(items, file)
  BY <1>1, <1>2, UpFacts, FiledWhileUp
<1>4. RunPlaced(r, lb, items, run, file)
  BY <1>1, <1>3 DEF Placed
<1>5. g.used = file[r].used /\ g.ticket = "running" /\ g.line /\ g.started /\ file[r].used \in Nat
  BY <1>1, <1>2, <1>3, UpFacts, Records
<1> HIDE DEF g
<1>6. \A s \in RunIds : file'[s].used = file[s].used
  BY <1>1, <1>3, <1>5
<1>7. Filed(items', file')
  <2> SUFFICES ASSUME NEW i \in InFlight(items)
               PROVE  FileAccounts(items[i].state, file'[items[i].run])
    BY <1>1 DEF Filed
  <2>1. items[i].run \in RunIds /\ i \in Items
    BY <1>3, FlightFacts DEF InFlight
  <2>2. CASE items[i].run = r
    <3>1. run[r].item \in Items /\ items[run[r].item].run = r /\ items[run[r].item].state = "running"
      BY <1>1, <1>3, <1>4 DEF RunPlaced, LiveBatch
    <3>2. i = run[r].item
      BY <1>3, <2>1, <2>2, <3>1 DEF Named, RunIds, NoRun
    <3>3. file'[r] = g /\ items[i].state = "running"
      BY <1>1, <1>3, <3>1, <3>2
    <3> QED
      BY <1>5, <2>2, <3>3 DEF FileAccounts
  <2>3. CASE items[i].run # r
    <3>1. file'[items[i].run] = file[items[i].run]
      BY <1>1, <1>3, <2>1, <2>3
    <3> QED
      BY <1>3, <3>1 DEF Filed
  <2> QED
    BY <2>2, <2>3
<1>8. \A i \in Items : items[i].cost + Owed(items, file, i) <= items'[i].cost + Owed(items', file', i)
  <2> TAKE i \in Items
  <2>1. Owed(items, file, i) \in Nat /\ items[i].cost \in Nat
    BY <1>3, BillTypes
  <2>2. i \in InFlight(items) => items[i].run \in RunIds
    BY <1>3, FlightFacts
  <2>3. Owed(items', file', i) = Owed(items, file, i)
    BY <1>1, <1>6, <2>2 DEF Owed
  <2> QED
    BY <1>1, <2>1, <2>3
<1>9. Charged'
  <2>1. 0 \in Nat /\ Due' = Due + 0
    BY <1>1, <1>2
  <2> QED
    BY <1>1, <1>2, <1>7, <1>8, <2>1, ChargedStep
<1>10. Budgeted'
  BY <1>1, <1>2, LostBudget
<1> QED
  BY <1>9, <1>10 DEF Books

LEMMA StopBooks ==
    ASSUME Sound, Sound', Books, Stop
    PROVE  Books'
<1>1. /\ proc = "up" /\ Carries /\ proc' = "stopping"
      /\ lb' = [lb EXCEPT !.retry = FALSE, !.anchored = FALSE]
      /\ LeaveQueue(lb, items, run, "skipped")
      /\ ReleaseAnchor(lb)
      /\ escaped' = escaped \cup LeavesRunning(lb, items)
      /\ UNCHANGED <<batch, items, Due>>
  BY DEF Stop, Carries, Due
<1>2. Structure /\ Structure' /\ MoneyOK /\ Charged /\ Budgeted /\ HeldBy(lb, run)
  BY DEF Sound, Books, Structure
<1>3. /\ lb \in LiveBatch /\ items \in [Items -> Item] /\ file \in [RunIds -> RunFile] /\ Named(items)
      /\ lb.outstanding = InFlight(items) /\ Filed(items, file)
  BY <1>1, <1>2, UpFacts, FiledWhileUp
<1>4. lb'.outstanding = lb.outstanding
  BY <1>1, <1>3 DEF LiveBatch
<1>5. escaped' = {} => NobodyRuns(lb', items')
  BY <1>1, <1>4 DEF LeavesRunning, OthersRunning, NobodyRuns
<1>6. holders'[Account] > 0 => holders[Account] > 0 /\ balance'[Account] = balance[Account]
  BY <1>1, <1>2, AnchorGivenUp
<1>7. Budgeted'
  BY <1>1, <1>2, <1>5, <1>6, BudgetedKept
<1>8. \A i \in Items : items[i].cost + Owed(items, file, i) <= items'[i].cost + Owed(items', file', i)
  <2> TAKE i \in Items
  <2>1. "skipped" \in {"skipped", "cancelled"} /\ lb.outstanding \subseteq InFlight(items)
    BY <1>3
  <2>2. Owed(items, file', i) = Owed(items, file, i)
    BY <1>1, <1>3, <2>1, QueueOwes
  <2>3. Owed(items, file, i) \in Nat /\ items[i].cost \in Nat
    BY <1>3, BillTypes
  <2> QED
    BY <1>1, <2>2, <2>3
<1>9. Charged'
  BY <1>1, <1>2, <1>8, ChargedUp DEF Carries
<1> QED
  BY <1>7, <1>9 DEF Books

(* reconcile() charges what the ledger says of a run that was lost. *)
LEMMA ReconcileCharges ==
    ASSUME Structure, Charged, "torn" \notin escaped, NEW i \in Items
    PROVE  items[i].cost + Owed(items, file, i) <= Reconciled(i).cost
<1> DEFINE f == file[items[i].run]
           g == SettledFile(f)
           c == LostCharge(f)
           settled == Outcome(items[i], g, "none")
<1>1. items \in [Items -> Item] /\ file \in [RunIds -> RunFile] /\ Named(items)
  BY DEF Structure, Consistent
<1>2. items[i].cost \in Nat /\ items[i] \in Item
  BY <1>1 DEF Item
<1>3. CASE i \notin Unsettled
  <2>1. Owed(items, file, i) = 0 /\ Reconciled(i) = items[i]
    BY <1>3 DEF Owed, InFlight, Unsettled, Reconciled
  <2> QED
    BY <1>2, <2>1
<1>4. CASE i \in Unsettled
  <2>1. i \in InFlight(items) /\ f \in RunFile
    BY <1>1, <1>4, FlightFacts DEF InFlight, Unsettled
  <2>2. FileAccounts(items[i].state, f) /\ Owed(items, file, i) = f.used
    BY <2>1 DEF Charged, Filed, Owed
  <2>3. Reconciled(i) = IF g.started THEN [settled EXCEPT !.cost = @ + c]
                        ELSE IF batch.state = "cancelled"
                        THEN [BackToPending(items[i]) EXCEPT !.state = "done", !.execution = "cancelled"]
                        ELSE BackToPending(items[i])
    BY <1>4 DEF Reconciled
  <2>4. /\ BackToPending(items[i]).cost = items[i].cost
        /\ [BackToPending(items[i]) EXCEPT !.state = "done", !.execution = "cancelled"].cost = items[i].cost
    BY DEF BackToPending, NewItem
  <2>5. [settled EXCEPT !.cost = @ + c].cost = items[i].cost + g.cost + c
    BY <1>2 DEF Outcome, Item
  <2> HIDE DEF settled
  <2>6. /\ f.used \in Nat /\ f.cost \in Nat /\ f.started \in BOOLEAN /\ f.line \in BOOLEAN
    BY <2>1 DEF RunFile
  <2>7. g.started => g.cost \in Nat /\ c \in Nat /\ f.used <= g.cost + c
    <3> HIDE DEF f
    <3>1. c \in Nat /\ (f.ticket = "running" => c = f.used)
      BY <2>6 DEF LostCharge
    <3>2. CASE f.line
      <4>1. g.cost = f.cost
        BY <2>1, <3>2 DEF SettledFile, Closed, RunFile
      <4> QED
        BY <2>2, <2>6, <3>1, <3>2, <4>1 DEF FileAccounts
    <3>3. CASE ~f.line /\ f.ticket = "running"
      <4>1. g.cost = f.cost
        BY <2>1, <3>3 DEF SettledFile, RunFile
      <4> QED
        BY <2>6, <3>1, <3>3, <4>1
    <3>4. CASE ~f.line /\ f.ticket # "running"
      <4>1. ~g.started
        BY <3>4 DEF SettledFile, NeverStarted
      <4> QED
        BY <4>1
    <3> QED
      BY <3>2, <3>3, <3>4
  <2>8. ~g.started => f.used = 0
    <3> HIDE DEF f
    <3>1. CASE f.line
      <4>1. g.started = f.started
        BY <2>1, <3>1 DEF SettledFile, Closed, RunFile
      <4> QED
        BY <2>2, <3>1, <4>1 DEF FileAccounts
    <3>2. CASE ~f.line /\ f.ticket = "running"
      BY <2>1, <3>2 DEF SettledFile, RunFile
    <3>3. CASE ~f.line /\ f.ticket # "running"
      BY <2>2, <3>3 DEF FileAccounts
    <3> QED
      BY <3>1, <3>2, <3>3
  <2> HIDE DEF f, g, c
  <2>9. CASE g.started
    BY <1>2, <2>2, <2>3, <2>5, <2>6, <2>7, <2>9
  <2>10. CASE ~g.started
    BY <1>2, <2>2, <2>3, <2>4, <2>8, <2>10
  <2> QED
    BY <2>9, <2>10
<1> QED
  BY <1>3, <1>4

LEMMA BootBooks ==
    ASSUME Sound, Sound', Books, Boot
    PROVE  Books'
<1> DEFINE its == [i \in Items |-> Reconciled(i)]
           d == FreshBatch(its)
<1>1. /\ proc = "down" /\ proc' = "up"
      /\ IF batch.state = "running"
         THEN Activate(batch, d, its, "driver")
         ELSE SettleIdle(batch, d, its) /\ items' = its /\ pumping' = "no"
      /\ UNCHANGED <<run, Due, escaped>>
  BY DEF Boot, history, Due
<1>2. /\ Structure /\ Structure' /\ MoneyOK /\ Charged /\ Budgeted /\ Due \in Int
      /\ HeldBy(lb, run) /\ ~lb.live
  BY <1>1 DEF Sound, Books, Structure, Counters, Driven, Carries, Due
<1>3. batch \in BatchRecord /\ items \in [Items -> Item] /\ file \in [RunIds -> RunFile]
      /\ Named(items) /\ ~lb.anchored
  BY <1>2 DEF Structure, Consistent
<1>4. items' = its /\ its \in [Items -> Item]
  <2>1. items' = its
    BY <1>1 DEF Activate
  <2> QED
    BY <1>2, <2>1 DEF Structure, Consistent
<1>5. "torn" \notin escaped =>
          \A i \in Items : items[i].cost + Owed(items, file, i) <= its[i].cost
  BY <1>2, ReconcileCharges
<1>6. d \in LiveBatch /\ HeldBy(d, run) /\ d.outstanding = {}
  BY <1>2, <1>3, IsFreshBatch DEF HeldBy
<1> HIDE DEF its, d
<1>7. "torn" \notin escaped => SumCost(its) >= Due
  <2> SUFFICES ASSUME "torn" \notin escaped PROVE SumCost(its) >= Due
    OBVIOUS
  <2> DEFINE bill == Bill(items, file)
  <2>1. \A i \in Items : bill[i].cost \in Nat /\ its[i].cost \in Nat /\ bill[i].cost <= its[i].cost
    <3> TAKE i \in Items
    <3>1. bill[i].cost = items[i].cost + Owed(items, file, i) /\ bill[i].cost \in Nat
      BY <1>3, BillTypes
    <3>2. its[i].cost \in Nat
      BY <1>4 DEF Item
    <3> HIDE DEF bill
    <3> QED
      BY <1>5, <3>1, <3>2
  <2>2. SumCost(bill) >= Due
    BY <1>2 DEF Charged
  <2> HIDE DEF bill
  <2>3. SumCost(bill) \in Nat /\ SumCost(its) \in Nat /\ SumCost(bill) + 0 <= SumCost(its)
    BY <2>1, CostsCompare
  <2> QED
    BY <1>2, <2>2, <2>3
<1>8. Charged'
  <2>1. "torn" \notin escaped =>
            \A i \in Items : items[i].cost + Owed(items, file, i) <= items'[i].cost + Owed(items', file', i)
    <3> SUFFICES ASSUME "torn" \notin escaped, NEW i \in Items
                 PROVE  items[i].cost + Owed(items, file, i) <= items'[i].cost + Owed(items', file', i)
      OBVIOUS
    <3>1. file' \in [RunIds -> RunFile] /\ Named(items') /\ items' \in [Items -> Item]
      BY <1>2 DEF Structure, Consistent
    <3>2. Owed(items', file', i) \in Nat /\ items'[i].cost \in Nat
      BY <3>1, BillTypes
    <3>3. Owed(items, file, i) \in Nat /\ items[i].cost \in Nat
      BY <1>3, BillTypes
    <3> QED
      BY <1>4, <1>5, <3>2, <3>3
  <2> QED
    BY <1>1, <1>2, <2>1, ChargedUp DEF Carries
<1>9. CASE batch.state = "running"
  <2>1. escaped = {} => /\ Due <= batch.budget
                        /\ holders[Account] > 0 => balance[Account] + Due <= batch.budget
                        /\ holders[Account] = 0 => SumCost(its) >= Due
    BY <1>2, <1>7 DEF Budgeted
  <2>2. Activate(batch, d, its, "driver")
    BY <1>1, <1>9
  <2>3. Budgeted'
    BY <1>1, <1>2, <1>3, <1>4, <1>6, <2>1, <2>2, ActivateBudget
  <2> QED
    BY <1>8, <2>3 DEF Books
<1>10. CASE batch.state # "running"
  <2>1. SettleIdle(batch, d, its)
    BY <1>1, <1>10
  <2>2. NobodyRuns(d, its)
    BY <1>6 DEF NobodyRuns
  <2>3. Budgeted'
    BY <1>1, <1>2, <1>3, <1>4, <1>6, <2>1, <2>2, SettleIdleBudget
  <2> QED
    BY <1>8, <2>3 DEF Books
<1> QED
  BY <1>9, <1>10

LEMMA CrashInReconcileBooks ==
    ASSUME Books, CrashInReconcile
    PROVE  Books'
<1>1. /\ escaped' = escaped \cup {"torn"}
      /\ UNCHANGED <<batch, items, lb, balVars, Due>>
  BY DEF CrashInReconcile, Due
<1>2. Charged' /\ Budgeted'
  BY <1>1 DEF Charged, Budgeted
<1> QED
  BY <1>2 DEF Books

LEMMA StutterBooks ==
    ASSUME Books, UNCHANGED vars
    PROVE  Books'
<1>1. UNCHANGED <<batch, items, file, lb, Due, escaped, balVars>>
  BY DEF vars, disk, history, Due
<1> QED
  BY <1>1, ChargedSame, BudgetedSame DEF Books, balVars

LEMMA StepBooks == Sound /\ Sound' /\ Books /\ [Next]_vars => Books'
<1> SUFFICES ASSUME Sound, Sound', Books, [Next]_vars PROVE Books'
  OBVIOUS
<1>1. CASE Create
  BY <1>1, CreateBooks
<1>2. CASE PumpStep
  BY <1>2, AskItemBooks, AskRefusedBooks, AskPausesBooks, PumpEndsBooks, CompleteBooks, PumpIdleBooks
  DEF PumpStep, Ask
<1>3. CASE RetryTimer
  BY <1>3, RetryTimerBooks
<1>4. ASSUME NEW r \in RunIds,
             StartQueued(r) \/ RunStep(r) \/ Settle(r) \/ CancelQueued(r) \/ CrashBeforeTicket(r)
      PROVE  Books'
  <2>1. CASE StartQueued(r)
    BY <2>1, StartQueuedBooks
  <2>2. CASE RunStep(r)
    BY <2>2, RunOpensBooks, CallStartsBooks, CallRefusedBooks, CallEndsBooks, RunEndsBooks,
       RunThrowsBooks DEF RunStep
  <2>3. CASE Settle(r)
    BY <2>3, RecordBooks, ItemEndedBooks DEF Settle
  <2>4. CASE CancelQueued(r)
    BY <2>4, CancelQueuedBooks
  <2>5. CASE CrashBeforeTicket(r)
    BY <2>5, CrashBeforeTicketBooks
  <2> QED
    BY <1>4, <2>1, <2>2, <2>3, <2>4, <2>5
<1>5. CASE Control
  BY <1>5, ControlPauseBooks, ControlResumeBooks, ControlCancelBooks, ControlRerunBooks, SyncRunBooks
  DEF Control
<1>6. CASE Crash \/ Stop \/ Exit \/ Boot \/ CrashInReconcile
  BY <1>6, CrashBooks, StopBooks, ExitBooks, BootBooks, CrashInReconcileBooks
<1>7. CASE UNCHANGED vars
  BY <1>7, StutterBooks
<1> QED
  BY <1>1, <1>2, <1>3, <1>4, <1>5, <1>6, <1>7 DEF Next

LEMMA AlwaysBooks == Spec => []Books
<1>1. Books /\ Sound /\ Sound' /\ [Next]_vars => Books'
  BY StepBooks
<1> QED
  BY <1>1, InitBooks, AlwaysSound, PTL DEF Spec

-----------------------------------------------------------------------------
(* Money *)

(* "concurrent runs cannot together pass the budget": unless the driver let go
   of the account while runs were in flight, or the process died inside
   reconcile(), what all runs of the batch cost stays within its budget, passed
   at most by what runs had used that threw after completed calls. *)
THEOREM BatchWithinBudget == Spec => []BudgetHolds
<1>1. ASSUME Sound, Books PROVE BudgetHolds
  <2>1. spent \in Nat /\ unbilled \in Nat /\ batch.budget \in Nat
    BY <1>1 DEF Sound, Structure, Consistent, Counters, BatchRecord
  <2> QED
    BY <1>1, <2>1 DEF Books, Budgeted, BudgetHolds, Due
<1> QED
  BY <1>1, AlwaysSound, AlwaysBooks, PTL

(* "boot charges a run lost in a crash from the usage ledger": at rest the items'
   cost covers everything that was spent, after any crash outside reconcile(), but
   what runs had used that threw, whose records tell of no cost. *)
THEOREM ItemsPayForRuns == Spec => []CostCovers
<1>1. ASSUME Sound, Books PROVE CostCovers
  <2> SUFFICES ASSUME Resting, "torn" \notin escaped PROVE SumCost(items) + unbilled >= spent
    BY DEF CostCovers
  <2>1. Structure /\ Charged /\ Carries
    BY <1>1 DEF Sound, Books, Resting, Carries
  <2>2. lb.outstanding = InFlight(items) /\ Placed(lb, items, run, file)
    BY <2>1, UpFacts
  <2>3. lb.outstanding = {}
    BY <2>2 DEF Placed, Resting
  <2>4. SumCost(items) >= Due
    BY <2>1, <2>2, <2>3, RestCovers DEF NobodyRuns
  <2>5. items \in [Items -> Item] /\ spent \in Nat /\ unbilled \in Nat
    BY <2>1 DEF Structure, Consistent, Counters
  <2>6. SumCost(items) \in Nat
    BY <2>5, CostIsNatural DEF Item
  <2> QED
    BY <2>4, <2>5, <2>6 DEF Due
<1> QED
  BY <1>1, AlwaysSound, AlwaysBooks, PTL

-----------------------------------------------------------------------------
(* Deliverables *)

(* A run that produced something did start, and an item that is done repeats
   what the file of its run says. *)
Delivered(its, f) ==
    \A i \in Items : its[i].run # NoRun =>
        /\ f[its[i].run].execution = "produced" => f[its[i].run].started
        /\ its[i].state = "done" => its[i].execution = f[its[i].run].execution

Deliveries == Delivered(items, file)

(* What every step must leave. *)
StillDelivered == Deliveries' /\ KeepsDeliverables(items')

LEMMA SameItems ==
    ASSUME items' = items
    PROVE  KeepsDeliverables(items')
BY DEF KeepsDeliverables

LEMMA DiskUntouched ==
    ASSUME Deliveries, items' = items, file' = file
    PROVE  StillDelivered
BY SameItems DEF StillDelivered, Deliveries, Delivered

LEMMA KeptDelivers ==
    ASSUME NEW its \in [Items -> Item], NEW f \in [RunIds -> RunFile], Delivered(its, f)
    PROVE  Delivered(its, Kept(its, f))
<1>1. ASSUME NEW i \in Items, its[i].run # NoRun
      PROVE  Kept(its, f)[its[i].run] = f[its[i].run]
  <2>1. its[i].run \in RunIds
    BY <1>1 DEF Item
  <2> QED
    BY <2>1, KeptFiles
<1> QED
  BY <1>1 DEF Delivered

(* A run that leaves the queue produced nothing, and its item is in flight. *)
LEMMA QueueDelivers ==
    ASSUME NEW d, NEW its \in [Items -> Item], NEW rn, NEW st \in {"skipped", "cancelled"},
           file \in [RunIds -> RunFile], Named(its), Delivered(its, file),
           d.outstanding \subseteq InFlight(its), LeaveQueue(d, its, rn, st)
    PROVE  Delivered(its, file')
<1> DEFINE out == Waiting(d, its)
           all == [r \in RunIds |-> IF r \in out THEN NeverStarted(st) ELSE file[r]]
<1>1. all \in [RunIds -> RunFile]
  BY IsNeverStarted
<1>2. file' = Kept(its, all)
  BY DEF LeaveQueue
<1>3. ASSUME NEW i \in Items, its[i].run # NoRun
      PROVE  /\ all[its[i].run].execution = "produced" => all[its[i].run].started
             /\ its[i].state = "done" => its[i].execution = all[its[i].run].execution
  <2>1. its[i].run \in RunIds
    BY <1>3 DEF Item
  <2>2. CASE its[i].run \in out
    <3>1. PICK k \in d.outstanding : its[k].state = "queued" /\ its[i].run = its[k].run
      BY <2>2 DEF Waiting
    <3>2. k \in Items
      BY DEF InFlight
    <3>3. k = i
      BY <1>3, <3>1, <3>2 DEF Named
    <3>4. all[its[i].run].execution # "produced"
      BY <2>1, <2>2 DEF NeverStarted
    <3> QED
      BY <3>1, <3>3, <3>4
  <2>3. CASE its[i].run \notin out
    <3>1. all[its[i].run] = file[its[i].run]
      BY <2>1, <2>3
    <3> QED
      BY <1>3, <3>1 DEF Delivered
  <2> QED
    BY <2>2, <2>3
<1>4. Delivered(its, all)
  BY <1>3 DEF Delivered
<1> HIDE DEF all
<1> QED
  BY <1>1, <1>2, <1>4, KeptDelivers

(* One run's file is rewritten while its item is in flight. *)
LEMMA OneRunDelivers ==
    ASSUME Deliveries, Named(items), file \in [RunIds -> RunFile], items \in [Items -> Item],
           NEW r \in RunIds, NEW i \in InFlight(items), items[i].run = r,
           NEW g, file' = [file EXCEPT ![r] = g], g.execution = "produced" => g.started,
           \A j \in Items : /\ items'[j].run = items[j].run /\ items'[j].execution = items[j].execution
                            /\ items'[j].state = "done" <=> items[j].state = "done"
    PROVE  StillDelivered
<1>1. ASSUME NEW j \in Items, items'[j].run # NoRun
      PROVE  /\ file'[items'[j].run].execution = "produced" => file'[items'[j].run].started
             /\ items'[j].state = "done" => items'[j].execution = file'[items'[j].run].execution
  <2>1. items'[j].run = items[j].run /\ items[j].run \in RunIds
    BY <1>1 DEF Item
  <2>2. CASE items[j].run = r
    <3>1. i \in Items /\ items[i].state # "done"
      BY DEF InFlight
    <3>2. i = j
      BY <1>1, <2>1, <2>2, <3>1 DEF Named
    <3>3. file'[items'[j].run] = g
      BY <2>1, <2>2
    <3> QED
      BY <3>1, <3>2, <3>3
  <2>3. CASE items[j].run # r
    <3>1. file'[items'[j].run] = file[items[j].run]
      BY <2>1, <2>3
    <3> QED
      BY <1>1, <2>1, <3>1 DEF Deliveries, Delivered
  <2> QED
    BY <2>2, <2>3
<1>2. Deliveries'
  BY <1>1 DEF Deliveries, Delivered
<1>3. KeepsDeliverables(items')
  BY DEF KeepsDeliverables
<1> QED
  BY <1>2, <1>3 DEF StillDelivered

LEMMA PauseDelivers ==
    ASSUME NEW b, NEW d, NEW its \in [Items -> Item], NEW rn, NEW reason,
           file \in [RunIds -> RunFile], Named(its), Delivered(its, file),
           d.outstanding \subseteq InFlight(its), Pause(b, d, its, rn, reason)
    PROVE  items' = its /\ Deliveries'
<1>1. items' = its /\ LeaveQueue(d, its, rn, "skipped")
  BY DEF Pause
<1>2. Delivered(its, file')
  BY <1>1, QueueDelivers
<1> QED
  BY <1>1, <1>2 DEF Deliveries

(* pause(), by a person or by the driver, and stop(). *)
LEMMA PausesDeliver ==
    ASSUME Sound, Deliveries, ControlPause \/ Stop \/ \E reason \in {"budget", "unavailable"} : AskPauses(reason)
    PROVE  StillDelivered
<1>1. Carries /\ Structure
  BY DEF ControlPause, Stop, AskPauses, CanAsk, Sound, Structure, Driven, Carries
<1>2. /\ items \in [Items -> Item] /\ file \in [RunIds -> RunFile] /\ Named(items)
      /\ lb.outstanding = InFlight(items)
  BY <1>1, UpFacts
<1>3. CASE Stop
  <2>1. LeaveQueue(lb, items, run, "skipped") /\ items' = items
    BY <1>3 DEF Stop
  <2>2. Delivered(items, file')
    BY <1>2, <2>1, QueueDelivers DEF Deliveries
  <2> QED
    BY <2>1, <2>2, SameItems DEF StillDelivered, Deliveries
<1>4. ASSUME NEW reason, Pause(batch, lb, items, run, reason)
      PROVE  StillDelivered
  BY <1>2, <1>4, PauseDelivers, SameItems DEF StillDelivered, Deliveries
<1> QED
  BY <1>3, <1>4 DEF ControlPause, AskPauses

(* requestItem(): a run number that no item had, for an item without a run. *)
LEMMA AskItemDelivers ==
    ASSUME Sound, Deliveries, NEW started \in BOOLEAN, AskItem(started)
    PROVE  StillDelivered
<1> DEFINE i == Head(lb.pending)
           r == CHOOSE x \in RunIds : run[x].phase = "idle" /\ \A j \in Items : items[j].run # x
           state == IF started THEN "running" ELSE "queued"
           record == [NoRecord EXCEPT !.ticket = state]
<1>1. /\ CanAsk
      /\ items' = [items EXCEPT ![i].state = state, ![i].run = r]
      /\ file' = [file EXCEPT ![r] = record]
  BY DEF AskItem
<1>2. Structure /\ lb.pending # <<>> /\ lb.live /\ proc = "up" /\ Carries
  BY <1>1, Asking DEF Sound
<1>3. /\ lb \in LiveBatch /\ items \in [Items -> Item] /\ file \in [RunIds -> RunFile]
      /\ Placed(lb, items, run, file) /\ Named(items) /\ Lists(lb.pending, PendingItems(items))
  BY <1>2, UpFacts
<1>4. i \in Items /\ items[i].state = "pending" /\ items[i].run = NoRun
  <2>1. i \in PendingItems(items)
    BY <1>2, <1>3, TailLists
  <2> QED
    BY <1>3, <2>1 DEF PendingItems, Named
<1>5. r \in RunIds /\ \A j \in Items : items[j].run # r
  BY <1>1, <1>2, <1>3, <1>4, FreeRun
<1>6. record.execution # "produced" /\ state # "done"
  BY DEF NoRecord
<1> HIDE DEF i, r, record, state
<1>7. /\ items'[i].run = r /\ items'[i].state = state
      /\ \A j \in Items : j # i => items'[j] = items[j]
  BY <1>1, <1>3, <1>4 DEF Item
<1>8. /\ file'[r] = record
      /\ \A x \in RunIds : x # r => file'[x] = file[x]
  BY <1>1, <1>3, <1>5
<1>9. ASSUME NEW j \in Items, items'[j].run # NoRun
      PROVE  /\ file'[items'[j].run].execution = "produced" => file'[items'[j].run].started
             /\ items'[j].state = "done" => items'[j].execution = file'[items'[j].run].execution
  <2>1. CASE j = i
    BY <1>6, <1>7, <1>8, <2>1
  <2>2. CASE j # i
    <3>1. items'[j] = items[j] /\ items[j].run \in RunIds /\ items[j].run # r
      BY <1>3, <1>5, <1>7, <1>9, <2>2 DEF Item
    <3>2. file'[items'[j].run] = file[items[j].run]
      BY <1>8, <3>1
    <3> QED
      BY <1>9, <3>1, <3>2 DEF Deliveries, Delivered
  <2> QED
    BY <2>1, <2>2
<1>10. Deliveries'
  BY <1>9 DEF Deliveries, Delivered
<1>11. KeepsDeliverables(items')
  BY <1>4, <1>7 DEF KeepsDeliverables, HasDeliverable
<1> QED
  BY <1>10, <1>11 DEF StillDelivered

(* The item of a run that is carried is in flight. *)
LEMMA CarriedRun ==
    ASSUME Sound, Carries, NEW r \in RunIds, run[r].phase # "idle"
    PROVE  /\ items \in [Items -> Item] /\ file \in [RunIds -> RunFile] /\ Named(items)
           /\ run[r].item \in InFlight(items) /\ items[run[r].item].run = r
<1>1. /\ items \in [Items -> Item] /\ file \in [RunIds -> RunFile] /\ Named(items)
      /\ lb.outstanding = InFlight(items) /\ Placed(lb, items, run, file)
  BY UpFacts DEF Sound
<1> QED
  BY <1>1 DEF Placed, RunPlaced

LEMMA StartQueuedDelivers ==
    ASSUME Sound, Deliveries, NEW r \in RunIds, StartQueued(r)
    PROVE  StillDelivered
<1> DEFINE i == run[r].item
           g == [file[r] EXCEPT !.ticket = "running"]
<1>1. /\ Carries /\ run[r].phase # "idle"
      /\ file' = [file EXCEPT ![r].ticket = "running"]
      /\ items' = [items EXCEPT ![i].state = IF items[i].run = r THEN "running" ELSE @]
  BY DEF StartQueued, Carries
<1>2. /\ items \in [Items -> Item] /\ file \in [RunIds -> RunFile] /\ Named(items)
      /\ i \in InFlight(items) /\ items[i].run = r
  BY <1>1, CarriedRun
<1> HIDE DEF i
<1>3. i \in Items /\ items[i].state # "done"
  BY <1>2 DEF InFlight
<1>4. g.execution = file[r].execution /\ g.started = file[r].started
  BY <1>2 DEF RunFile
<1>5. file' = [file EXCEPT ![r] = g]
  BY <1>1
<1>6. \A j \in Items : /\ items'[j].run = items[j].run /\ items'[j].execution = items[j].execution
                       /\ items'[j].state = "done" <=> items[j].state = "done"
  BY <1>1, <1>2, <1>3 DEF Item
<1>7. g.execution = "produced" => g.started
  <2>1. items[i].run # NoRun
    BY <1>2 DEF NoRun, RunIds
  <2> QED
    BY <1>2, <1>3, <1>4, <2>1 DEF Deliveries, Delivered
<1> HIDE DEF g
<1> QED
  BY <1>2, <1>5, <1>6, <1>7, OneRunDelivers

LEMMA CallEndsDelivers ==
    ASSUME Sound, Deliveries, NEW r \in RunIds, NEW cost, CallEnds(r, cost)
    PROVE  StillDelivered
<1> DEFINE i == run[r].item
           g == [file[r] EXCEPT !.used = @ + cost]
<1>1. Carries /\ run[r].phase # "idle" /\ file' = [file EXCEPT ![r].used = @ + cost] /\ items' = items
  BY DEF CallEnds, Carries
<1>2. /\ items \in [Items -> Item] /\ file \in [RunIds -> RunFile] /\ Named(items)
      /\ i \in InFlight(items) /\ items[i].run = r
  BY <1>1, CarriedRun
<1> HIDE DEF i
<1>3. g.execution = file[r].execution /\ g.started = file[r].started
  BY <1>2 DEF RunFile
<1>4. file' = [file EXCEPT ![r] = g]
  BY <1>1
<1>5. g.execution = "produced" => g.started
  <2>1. i \in Items /\ items[i].run # NoRun
    BY <1>2 DEF NoRun, RunIds, InFlight
  <2> QED
    BY <1>2, <1>3, <2>1 DEF Deliveries, Delivered
<1> HIDE DEF g
<1> QED
  BY <1>1, <1>2, <1>4, <1>5, OneRunDelivers

(* The recording of a run, complete or cut short, and a waiting run's removal. *)
LEMMA RecordsDeliver ==
    ASSUME Sound, Deliveries, NEW r \in RunIds, Record(r) \/ CancelQueued(r) \/ CrashBeforeTicket(r)
    PROVE  StillDelivered
<1> DEFINE i == run[r].item
<1>1. /\ Carries /\ run[r].phase # "idle" /\ items' = items
      /\ \E g : file' = [file EXCEPT ![r] = g] /\ (g.execution = "produced" => g.started)
  <2>1. CASE Record(r)
    <3>1. file' = [file EXCEPT ![r] = Closed(Recording(r))] /\ Closed(Recording(r)).started
      BY <2>1 DEF Record, Recording, Closed
    <3> QED
      BY <2>1, <3>1 DEF Record, Carries
  <2>2. CASE CancelQueued(r)
    <3>1. file' = [file EXCEPT ![r] = NeverStarted("cancelled")] /\ NeverStarted("cancelled").execution # "produced"
      BY <2>2 DEF CancelQueued, NeverStarted
    <3> QED
      BY <2>2, <3>1 DEF CancelQueued, Carries
  <2>3. CASE CrashBeforeTicket(r)
    <3>1. file' = [file EXCEPT ![r] = Recording(r)] /\ Recording(r).started
      BY <2>3 DEF CrashBeforeTicket, Recording
    <3> QED
      BY <2>3, <3>1 DEF CrashBeforeTicket, Carries
  <2> QED
    BY <2>1, <2>2, <2>3
<1>2. PICK g : file' = [file EXCEPT ![r] = g] /\ (g.execution = "produced" => g.started)
  BY <1>1
<1>3. /\ items \in [Items -> Item] /\ file \in [RunIds -> RunFile] /\ Named(items)
      /\ i \in InFlight(items) /\ items[i].run = r
  BY <1>1, CarriedRun
<1> HIDE DEF i
<1> QED
  BY <1>1, <1>2, <1>3, OneRunDelivers

(* itemEnded(): an item whose run produced something is done with it. *)
LEMMA ItemEndedDelivers ==
    ASSUME Sound, Deliveries, NEW r \in RunIds, NEW verdict \in Verdicts \cup {"none"},
           ItemEnded(r, verdict)
    PROVE  StillDelivered
<1> DEFINE i == run[r].item
<1>1. Carries /\ run[r].phase # "idle"
  BY ItemSettles
<1>2. /\ items \in [Items -> Item] /\ file \in [RunIds -> RunFile] /\ Named(items)
      /\ i \in InFlight(items) /\ items[i].run = r
  BY <1>1, CarriedRun
<1>3. lb.outstanding = InFlight(items) /\ lb \in LiveBatch
  BY <1>1, UpFacts DEF Sound
<1>4. PICK d, its, rn, reason :
        /\ Consistent(proc, batch, d, its, rn, file)
        /\ d.outstanding = lb.outstanding \ {i}
        /\ RunsAgain(r) => its[i].run = NoRun
        /\ ~RunsAgain(r) => its[i].run = r /\ its[i].execution = file[r].execution
        /\ \A j \in Items : j # i => its[j] = items[j]
        /\ IF batch.state = "running" /\ reason # "none"
           THEN Pause(batch, d, its, rn, reason)
           ELSE Proceed(batch, d, its, rn)
  BY ItemSettles
<1>5. i \in Items /\ items[i].state # "done" /\ items[i].run # NoRun
  BY <1>2 DEF InFlight, NoRun, RunIds
<1> HIDE DEF i
<1>6. its \in [Items -> Item] /\ Named(its) /\ d.outstanding = InFlight(its)
  BY <1>1, <1>4 DEF Consistent, Carries
<1>7. file[r].execution = "produced" => file[r].started
  BY <1>2, <1>5 DEF Deliveries, Delivered
<1>8. Delivered(its, file)
  <2>1. ASSUME NEW j \in Items, its[j].run # NoRun
        PROVE  /\ file[its[j].run].execution = "produced" => file[its[j].run].started
               /\ its[j].state = "done" => its[j].execution = file[its[j].run].execution
    <3>1. CASE j = i
      BY <1>4, <1>7, <2>1, <3>1
    <3>2. CASE j # i
      BY <1>4, <2>1, <3>2 DEF Deliveries, Delivered
    <3> QED
      BY <3>1, <3>2
  <2> QED
    BY <2>1 DEF Delivered
<1>9. KeepsDeliverables(its)
  <2>1. ASSUME NEW j \in Items, HasDeliverable(j)
        PROVE  its[j].run = items[j].run /\ its[j].execution \in {items[j].execution, "produced"}
    <3>1. CASE j = i
      <4>1. file[r].execution = "produced" /\ file[r].started
        BY <1>2, <1>7, <2>1, <3>1 DEF HasDeliverable
      <4>2. ~RunsAgain(r)
        BY <4>1 DEF RunsAgain
      <4> QED
        BY <1>2, <1>4, <3>1, <4>1, <4>2
    <3>2. CASE j # i
      BY <1>4, <3>2
    <3> QED
      BY <3>1, <3>2
  <2> QED
    BY <2>1 DEF KeepsDeliverables
<1>10. CASE batch.state = "running" /\ reason # "none"
  <2>1. Pause(batch, d, its, rn, reason)
    BY <1>4, <1>10
  <2>2. items' = its /\ Deliveries'
    BY <1>2, <1>6, <1>8, <2>1, PauseDelivers
  <2> QED
    BY <1>9, <2>2 DEF StillDelivered
<1>11. CASE ~(batch.state = "running" /\ reason # "none")
  <2>1. items' = its /\ file' = Kept(its, file)
    BY <1>4, <1>11 DEF Proceed
  <2>2. Delivered(its, file')
    BY <1>2, <1>6, <1>8, <2>1, KeptDelivers
  <2> QED
    BY <1>9, <2>1, <2>2 DEF StillDelivered, Deliveries
<1> QED
  BY <1>10, <1>11

(* controlCancel(): an item that is pending has no run to be done with. *)
LEMMA ControlCancelDelivers ==
    ASSUME Sound, Deliveries, ControlCancel
    PROVE  StillDelivered
<1> DEFINE cancelled(i) == [items[i] EXCEPT !.state = "done", !.execution = "cancelled"]
           its == [i \in Items |-> IF items[i].state = "pending" THEN cancelled(i) ELSE items[i]]
           d == [Loaded EXCEPT !.pending = <<>>, !.retry = FALSE, !.anchored = FALSE]
<1>1. Carries /\ items' = its /\ LeaveQueue(d, its, run, "cancelled")
  BY DEF ControlCancel, Carries
<1>2. /\ items \in [Items -> Item] /\ file \in [RunIds -> RunFile] /\ Named(items)
      /\ lb.outstanding = InFlight(items)
  BY <1>1, UpFacts DEF Sound
<1>3. d.outstanding = InFlight(items)
  <2>1. Loaded \in LiveBatch /\ Loaded.outstanding = lb.outstanding
    BY <1>1, <1>2, LoadedConsistent DEF Sound, Structure, ControlCancel, Consistent
  <2> QED
    BY <1>2, <2>1 DEF LiveBatch
<1> HIDE DEF d
<1>4. \A i \in Items : /\ cancelled(i) \in Item /\ cancelled(i).run = items[i].run
                       /\ cancelled(i).state = "done"
  BY <1>2 DEF Item
<1> HIDE DEF cancelled
<1>5. \A i \in Items : /\ its[i] \in Item /\ its[i].run = items[i].run
                       /\ items[i].state = "pending" => its[i].run = NoRun /\ its[i].state = "done"
                       /\ items[i].state # "pending" => its[i] = items[i]
  BY <1>4, <1>2 DEF Named
<1>6. its \in [Items -> Item]
  BY <1>5
<1> HIDE DEF its
<1>7. InFlight(items) = InFlight(its)
  BY <1>5 DEF InFlight
<1>8. Named(its)
  BY <1>2, <1>5 DEF Named
<1>9. Delivered(its, file)
  BY <1>5 DEF Deliveries, Delivered
<1>10. Delivered(its, file')
  BY <1>1, <1>2, <1>3, <1>6, <1>7, <1>8, <1>9, QueueDelivers
<1>11. KeepsDeliverables(its)
  BY <1>5 DEF KeepsDeliverables, HasDeliverable
<1> QED
  BY <1>1, <1>10, <1>11 DEF StillDelivered, Deliveries

(* controlRerun(): a deliverable is asked for again only when it failed. *)
LEMMA ControlRerunDelivers ==
    ASSUME Sound, Deliveries, ControlRerun
    PROVE  StillDelivered
<1> DEFINE its == [i \in Items |-> IF IsRerunnable(items[i])
                                   THEN BackToPending(items[i]) ELSE items[i]]
<1>1. Carries /\ items' = its /\ file' = Kept(its, file)
  BY DEF ControlRerun, Activate, Carries
<1>2. items \in [Items -> Item] /\ file \in [RunIds -> RunFile]
  BY <1>1, UpFacts DEF Sound
<1>3. \A i \in Items : BackToPending(items[i]) \in Item /\ BackToPending(items[i]).run = NoRun
  <2> TAKE i \in Items
  <2>1. items[i].cost \in Nat
    BY <1>2 DEF Item
  <2> QED
    BY <2>1 DEF BackToPending, NewItem, Item
<1>4. \A i \in Items : /\ IsRerunnable(items[i]) => its[i].run = NoRun
                       /\ ~IsRerunnable(items[i]) => its[i] = items[i]
  BY <1>3
<1>5. its \in [Items -> Item]
  BY <1>2, <1>3
<1> HIDE DEF its
<1>6. Delivered(its, file)
  BY <1>4 DEF Deliveries, Delivered
<1>7. Delivered(its, file')
  BY <1>1, <1>2, <1>5, <1>6, KeptDelivers
<1>8. ASSUME NEW i \in Items, HasDeliverable(i)
      PROVE  ~IsRerunnable(items[i])
  BY <1>8 DEF HasDeliverable, IsRerunnable, Deliveries, Delivered
<1>9. KeepsDeliverables(its)
  BY <1>4, <1>8 DEF KeepsDeliverables
<1> QED
  BY <1>1, <1>7, <1>9 DEF StillDelivered, Deliveries

LEMMA SyncRunDelivers ==
    ASSUME Sound, Deliveries, NEW i \in Items, NEW verdict \in Verdicts, SyncRun(i, verdict)
    PROVE  StillDelivered
<1>1. Carries /\ items' = [items EXCEPT ![i].verdict = verdict] /\ file' = file
  BY DEF SyncRun, Carries
<1>2. items \in [Items -> Item]
  BY <1>1, UpFacts DEF Sound
<1>3. \A j \in Items : /\ items'[j].run = items[j].run /\ items'[j].state = items[j].state
                       /\ items'[j].execution = items[j].execution
  BY <1>1, <1>2 DEF Item
<1> QED
  BY <1>1, <1>3 DEF StillDelivered, KeepsDeliverables, Deliveries, Delivered

(* settleLostRun(): a run that has its record keeps it, one that has none
   produced nothing. *)
LEMMA SettledDelivers ==
    ASSUME Structure, Deliveries
    PROVE  Delivered(items, SettledFiles)
<1>1. items \in [Items -> Item] /\ file \in [RunIds -> RunFile] /\ Named(items)
  BY DEF Structure, Consistent
<1>2. \A r \in RunIds : /\ SettledFile(file[r]).execution = "produced" => file[r].execution = "produced"
                        /\ SettledFile(file[r]).execution = "produced" /\ file[r].started => SettledFile(file[r]).started
  <2> TAKE r \in RunIds
  <2>1. file[r] \in RunFile
    BY <1>1
  <2> QED
    BY <2>1 DEF SettledFile, Closed, NeverStarted, RunFile
<1>3. ASSUME NEW i \in Items, items[i].run # NoRun
      PROVE  /\ SettledFiles[items[i].run].execution = "produced" => SettledFiles[items[i].run].started
             /\ items[i].state = "done" => items[i].execution = SettledFiles[items[i].run].execution
  <2>1. items[i].run \in RunIds
    BY <1>1, <1>3 DEF Item
  <2>2. CASE \E j \in Unsettled : items[j].run = items[i].run
    <3>1. i \in Unsettled
      BY <1>1, <1>3, <2>2 DEF Named, Unsettled
    <3>2. SettledFiles[items[i].run] = SettledFile(file[items[i].run])
      BY <2>1, <2>2 DEF SettledFiles
    <3>3. items[i].state # "done"
      BY <3>1 DEF Unsettled
    <3>4. file[items[i].run].execution = "produced" => file[items[i].run].started
      BY <1>3 DEF Deliveries, Delivered
    <3> QED
      BY <1>2, <2>1, <3>2, <3>3, <3>4
  <2>3. CASE ~\E j \in Unsettled : items[j].run = items[i].run
    <3>1. SettledFiles[items[i].run] = file[items[i].run]
      BY <2>1, <2>3 DEF SettledFiles
    <3> QED
      BY <1>3, <3>1 DEF Deliveries, Delivered
  <2> QED
    BY <2>2, <2>3
<1> QED
  BY <1>3 DEF Delivered

LEMMA BootDelivers ==
    ASSUME Sound, Deliveries, Boot
    PROVE  StillDelivered
<1> DEFINE its == [i \in Items |-> Reconciled(i)]
<1>1. items' = its /\ file' = Kept(its, SettledFiles)
  BY DEF Boot, Activate
<1>2. Structure /\ items \in [Items -> Item] /\ file \in [RunIds -> RunFile] /\ Named(items)
  BY DEF Sound, Structure, Consistent
<1>3. /\ its \in [Items -> Item] /\ SettledFiles \in [RunIds -> RunFile]
      /\ \A i \in Items : its[i].run \in {NoRun, items[i].run}
  BY <1>2, ReconciledFacts
<1>4. Delivered(items, SettledFiles)
  BY <1>2, SettledDelivers
<1>5. \A i \in Items : i \notin Unsettled => its[i] = items[i]
  BY DEF Reconciled
<1>6. ASSUME NEW i \in Unsettled, its[i].run # NoRun
      PROVE  its[i].execution = SettledFiles[items[i].run].execution
  <2>1. i \in Items /\ items[i].run # NoRun
    BY <1>2, <1>6 DEF Unsettled, Named
  <2>2. items[i].run \in RunIds
    BY <1>2, <2>1 DEF Item
  <2>3. SettledFiles[items[i].run] = SettledFile(file[items[i].run])
    BY <2>2 DEF SettledFiles
  <2> DEFINE settled == Outcome(items[i], SettledFile(file[items[i].run]), "none")
  <2>4. settled.execution = SettledFile(file[items[i].run]).execution
    BY <1>2, <2>1 DEF Outcome, Item
  <2>5. settled \in [state : {"done"}, run : {items[i].run}, execution : {settled.execution},
                     verdict : {"none"}, cost : {settled.cost}]
    BY <1>2, <2>1 DEF Outcome, Item
  <2> HIDE DEF settled
  <2>6. SettledFile(file[items[i].run]).started
    BY <1>6, <2>1 DEF Reconciled, BackToPending, NewItem
  <2>7. its[i] = [settled EXCEPT !.cost = @ + LostCharge(file[items[i].run])]
    BY <2>1, <2>6 DEF Reconciled, settled
  <2> QED
    BY <2>3, <2>4, <2>5, <2>7
<1> HIDE DEF its
<1>7. Delivered(its, SettledFiles)
  <2>1. ASSUME NEW i \in Items, its[i].run # NoRun
        PROVE  /\ SettledFiles[its[i].run].execution = "produced" => SettledFiles[its[i].run].started
               /\ its[i].state = "done" => its[i].execution = SettledFiles[its[i].run].execution
    <3>1. its[i].run = items[i].run
      BY <1>3, <2>1
    <3> QED
      BY <1>4, <1>5, <1>6, <2>1, <3>1 DEF Delivered
  <2> QED
    BY <2>1 DEF Delivered
<1>8. Delivered(its, file')
  BY <1>1, <1>3, <1>7, KeptDelivers
<1>9. ASSUME NEW i \in Unsettled, HasDeliverable(i)
      PROVE  its[i].run = items[i].run /\ its[i].execution = "produced"
  <2>1. i \in Items /\ items[i].run # NoRun /\ items[i].run \in RunIds
    BY <1>2, <1>9 DEF Unsettled, HasDeliverable, Item
  <2>2. file[items[i].run].line /\ file[items[i].run].execution = "produced" /\ file[items[i].run].started
    BY <1>9, <2>1 DEF HasDeliverable, Deliveries, Delivered
  <2>3. /\ SettledFile(file[items[i].run]).started
        /\ SettledFile(file[items[i].run]).execution = "produced"
    BY <1>2, <2>1, <2>2 DEF SettledFile, Closed, RunFile
  <2>4. its[i].run = items[i].run
    BY <1>2, <2>1, <2>3 DEF its, Reconciled, Outcome, Item
  <2>5. SettledFiles[items[i].run] = SettledFile(file[items[i].run])
    BY <2>1 DEF SettledFiles
  <2> QED
    BY <1>6, <2>1, <2>3, <2>4, <2>5
<1>10. KeepsDeliverables(its)
  BY <1>5, <1>9 DEF KeepsDeliverables
<1> QED
  BY <1>1, <1>8, <1>10 DEF StillDelivered, Deliveries

LEMMA CrashInReconcileDelivers ==
    ASSUME Sound, Deliveries, CrashInReconcile
    PROVE  StillDelivered
<1>1. items' = items /\ file' = SettledFiles
  BY DEF CrashInReconcile
<1> QED
  BY <1>1, SettledDelivers, SameItems DEF StillDelivered, Sound, Deliveries, Delivered

LEMMA InitDelivers == Init => Deliveries
BY DEF Init, NewItem, Deliveries, Delivered

LEMMA StepDelivers == Sound /\ Deliveries /\ [Next]_vars => StillDelivered
<1> SUFFICES ASSUME Sound, Deliveries, [Next]_vars PROVE StillDelivered
  OBVIOUS
<1>1. CASE Create
  BY <1>1, DiskUntouched DEF Create, Activate
<1>2. CASE PumpStep
  <2>1. CASE AskRefused \/ PumpEnds \/ Complete \/ PumpIdle
    BY <2>1, DiskUntouched DEF AskRefused, PumpEnds, Complete, PumpIdle, disk
  <2> QED
    BY <1>2, <2>1, AskItemDelivers, PausesDeliver DEF PumpStep, Ask
<1>3. CASE RetryTimer
  BY <1>3, DiskUntouched DEF RetryTimer, disk
<1>4. ASSUME NEW r \in RunIds,
             StartQueued(r) \/ RunStep(r) \/ Settle(r) \/ CancelQueued(r) \/ CrashBeforeTicket(r)
      PROVE  StillDelivered
  <2>1. CASE StartQueued(r)
    BY <2>1, StartQueuedDelivers
  <2>2. CASE RunStep(r)
    BY <2>2, CallEndsDelivers, DiskUntouched
    DEF RunStep, RunOpens, CallStarts, CallRefused, RunEnds, RunThrows, disk
  <2>3. CASE Settle(r)
    BY <2>3, RecordsDeliver, ItemEndedDelivers DEF Settle
  <2>4. CASE CancelQueued(r) \/ CrashBeforeTicket(r)
    BY <2>4, RecordsDeliver
  <2> QED
    BY <1>4, <2>1, <2>2, <2>3, <2>4
<1>5. CASE Control
  <2>1. ASSUME NEW budget, ControlResume(budget) PROVE StillDelivered
    BY <2>1, DiskUntouched DEF ControlResume, Activate
  <2> QED
    BY <1>5, <2>1, PausesDeliver, ControlCancelDelivers, ControlRerunDelivers, SyncRunDelivers DEF Control
<1>6. CASE Crash \/ Stop \/ Exit \/ Boot \/ CrashInReconcile
  <2>1. CASE Crash \/ Exit
    BY <2>1, DiskUntouched DEF Crash, Exit, disk
  <2> QED
    BY <1>6, <2>1, PausesDeliver, BootDelivers, CrashInReconcileDelivers
<1>7. CASE UNCHANGED vars
  BY <1>7, DiskUntouched DEF vars, disk
<1> QED
  BY <1>1, <1>2, <1>3, <1>4, <1>5, <1>6, <1>7 DEF Next

(* "running runs finish" and a process may die: a deliverable that was recorded
   stays with its item, or still has to reach it, and a good one is never run
   again, by a rerun, a withdrawal or a restart. *)
THEOREM DeliverablesAreKept == Spec => DeliverableKept
<1>1. Sound /\ Deliveries /\ [Next]_vars => Deliveries' /\ [KeepsDeliverables(items')]_vars
  BY StepDelivers DEF StillDelivered
<1> QED
  BY <1>1, InitDelivers, AlwaysSound, PTL DEF Spec, DeliverableKept
=============================================================================
