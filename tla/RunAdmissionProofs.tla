------------------------- MODULE RunAdmissionProofs -------------------------
(***************************************************************************)
(* Proofs about the admission pool, for every set of requests, workspaces  *)
(* and keys and every pair of limits.                                      *)
(*                                                                         *)
(* The conjunction of the pool's safety properties is inductive: no part   *)
(* is on its own.  The accounting of slots needs the uniqueness of keys (a *)
(* release deletes its key from runningKeys), work conservation needs the  *)
(* slot bound and the loop of nextIndex() to find an entry.                *)
(***************************************************************************)
EXTENDS RunAdmission, NatLemmas, FiniteSetTheorems, SequenceTheorems

-----------------------------------------------------------------------------
(* The loop of nextIndex() *)

ScanStep(b, i) == IF HeldAt(b) > 0 /\ HeldAt(i) < HeldAt(b) THEN i ELSE b

(* The recursive definition of scan defines a function: there is one that
   satisfies its equation on every prefix of the queue. *)
LEMMA ScanDefined ==
    ASSUME queue \in Seq(Requests)
    PROVE  scan = [i \in 1..Len(queue) |-> IF i = 1 THEN 1 ELSE ScanStep(scan[i - 1], i)]
<1> DEFINE L == Len(queue)
           Solves(f, n) == \A i \in 1..n : f[i] = IF i = 1 THEN 1 ELSE ScanStep(f[i - 1], i)
           S == {n \in Nat : \E f : Solves(f, n)}
<1>1. \A n \in Nat : n \in S
  <2> HIDE DEF ScanStep
  <2>1. 0 \in S
    <3>1. Solves([i \in {} |-> 1], 0)
      OBVIOUS
    <3> QED
      BY <3>1
  <2>2. ASSUME NEW n \in Nat, n \in S PROVE n + 1 \in S
    <3>1. PICK f : Solves(f, n)
      BY <2>2
    <3> DEFINE g == [i \in 1..(n + 1) |-> IF i <= n THEN f[i]
                                          ELSE IF i = 1 THEN 1 ELSE ScanStep(f[i - 1], i)]
    <3>2. Solves(g, n + 1)
      <4> SUFFICES ASSUME NEW i \in 1..(n + 1)
                   PROVE  g[i] = IF i = 1 THEN 1 ELSE ScanStep(g[i - 1], i)
        OBVIOUS
      <4>1. i = 1 \/ g[i - 1] = f[i - 1]
        OBVIOUS
      <4> QED
        BY <3>1, <4>1
    <3> HIDE DEF Solves
    <3> QED
      BY <3>2
  <2> HIDE DEF S
  <2> QED
    BY <2>1, <2>2, SetInduction
<1>2. L \in Nat
  BY LenProperties
<1>3. PICK f : Solves(f, L)
  BY <1>1, <1>2
<1> DEFINE h == [i \in 1..L |-> f[i]]
<1>4. h = [i \in 1..L |-> IF i = 1 THEN 1 ELSE ScanStep(h[i - 1], i)]
  <2> HIDE DEF ScanStep
  <2>1. \A i \in 1..L : h[i] = IF i = 1 THEN 1 ELSE ScanStep(h[i - 1], i)
    <3> SUFFICES ASSUME NEW i \in 1..L
                 PROVE  h[i] = IF i = 1 THEN 1 ELSE ScanStep(h[i - 1], i)
      OBVIOUS
    <3>1. i = 1 \/ h[i - 1] = f[i - 1]
      BY <1>2
    <3> QED
      BY <1>3, <3>1
  <2> QED
    BY <2>1
<1> QED
  BY <1>4 DEF scan, ScanStep, HeldAt

(* After i entries the loop holds the fair choice among them, although it stops
   looking once its candidate's workspace holds no slot: no count is lower. *)
LEMMA ScanIsFair ==
    ASSUME TypeOK
    PROVE  \A n \in 1..Len(queue) :
              /\ scan[n] \in 1..n
              /\ \A j \in 1..n : HeldAt(scan[n]) <= HeldAt(j)
              /\ \A j \in 1..(scan[n] - 1) : HeldAt(scan[n]) < HeldAt(j)
<1> DEFINE L == Len(queue)
           Fair(b, n) == /\ b \in 1..n
                         /\ \A j \in 1..n : HeldAt(b) <= HeldAt(j)
                         /\ \A j \in 1..(b - 1) : HeldAt(b) < HeldAt(j)
           S == {n \in Nat : n \in 1..L => Fair(scan[n], n)}
<1>1. L \in Nat /\ DOMAIN queue = 1..L
  BY LenProperties DEF TypeOK
<1>2. \A i \in 1..L : HeldAt(i) \in Nat
  BY <1>1, WorkspaceAssumption, ElementOfSeq DEF TypeOK, HeldAt
<1>3. scan = [i \in 1..L |-> IF i = 1 THEN 1 ELSE ScanStep(scan[i - 1], i)]
  BY ScanDefined DEF TypeOK
<1>4. \A n \in Nat : n \in S
  <2>1. 0 \in S
    OBVIOUS
  <2>2. ASSUME NEW n \in Nat, n \in S PROVE n + 1 \in S
    <3> SUFFICES ASSUME n + 1 \in 1..L PROVE Fair(scan[n + 1], n + 1)
      OBVIOUS
    <3>1. CASE n = 0
      <4>1. scan[n + 1] = 1
        BY <1>3, <3>1
      <4> QED
        BY <4>1, <3>1, <1>2
    <3>2. CASE n # 0
      <4> DEFINE b == scan[n]
      <4>1. n \in 1..L
        BY <1>1, <3>2
      <4>2. Fair(b, n)
        BY <2>2, <4>1
      <4> HIDE DEF b
      <4>3. scan[n + 1] = ScanStep(b, n + 1)
        BY <1>3, <3>2, <1>1 DEF b
      <4>4. HeldAt(b) \in Nat /\ HeldAt(n + 1) \in Nat /\ \A j \in 1..n : HeldAt(j) \in Nat
        BY <1>2, <4>1, <4>2
      <4>5. CASE HeldAt(b) > 0 /\ HeldAt(n + 1) < HeldAt(b)
        <5>1. scan[n + 1] = n + 1
          BY <4>3, <4>5 DEF ScanStep
        <5>2. \A j \in 1..n : HeldAt(n + 1) < HeldAt(j)
          BY <4>2, <4>4, <4>5
        <5> QED
          BY <5>1, <5>2, <4>4
      <4>6. CASE ~(HeldAt(b) > 0 /\ HeldAt(n + 1) < HeldAt(b))
        <5>1. scan[n + 1] = b
          BY <4>3, <4>6 DEF ScanStep
        <5>2. HeldAt(b) <= HeldAt(n + 1)
          BY <4>4, <4>6
        <5> QED
          BY <5>1, <5>2, <4>2, <4>4
      <4> QED
        BY <4>5, <4>6
    <3> QED
      BY <3>1, <3>2
  <2> HIDE DEF S
  <2> QED
    BY <2>1, <2>2, SetInduction
<1> QED
  BY <1>1, <1>4

(* nextIndex() returns the documented choice: the oldest waiting run among those
   whose workspace holds the fewest slots. *)
THEOREM NextIndexIsFairChoice ==
    ASSUME TypeOK, queue # <<>>
    PROVE  IsFairChoice(NextIndex)
<1>1. Len(queue) \in Nat /\ DOMAIN queue = 1..Len(queue) /\ Len(queue) # 0
  BY LenProperties, EmptySeq DEF TypeOK
<1>2. Len(queue) \in 1..Len(queue)
  BY <1>1
<1> QED
  BY <1>1, <1>2, ScanIsFair DEF NextIndex, IsFairChoice

-----------------------------------------------------------------------------
(* The loop of withdraw() *)

Distinct(s) == \A i, j \in DOMAIN s : s[i] = s[j] => i = j

(* Appending a new element keeps a sequence free of repetitions. *)
LEMMA AppendFacts ==
    ASSUME NEW R, NEW s \in Seq(R), NEW e \in R
    PROVE  /\ Append(s, e) \in Seq(R)
           /\ Len(Append(s, e)) = Len(s) + 1
           /\ ToSet(Append(s, e)) = ToSet(s) \cup {e}
           /\ Distinct(s) /\ e \notin ToSet(s) => Distinct(Append(s, e))
<1>1. /\ Append(s, e) \in Seq(R)
      /\ Len(Append(s, e)) = Len(s) + 1
      /\ \A i \in 1..Len(s) : Append(s, e)[i] = s[i]
      /\ Append(s, e)[Len(s) + 1] = e
  BY AppendProperties
<1>2. Len(s) \in Nat /\ DOMAIN s = 1..Len(s) /\ DOMAIN Append(s, e) = 1..(Len(s) + 1)
  BY <1>1, LenProperties
<1>3. ToSet(Append(s, e)) = ToSet(s) \cup {e}
  BY <1>1, <1>2 DEF ToSet
<1>4. Distinct(s) /\ e \notin ToSet(s) => Distinct(Append(s, e))
  BY <1>1, <1>2 DEF ToSet, Distinct
<1> QED
  BY <1>1, <1>3, <1>4

(* Withdrawing S keeps the others: the result is a sequence of exactly the
   members of q outside S, no longer than q, and repeats nothing q does not. *)
LEMMA WithoutFacts ==
    ASSUME NEW R, NEW q \in Seq(R), NEW S
    PROVE  /\ Without(q, S) \in Seq(R)
           /\ Len(Without(q, S)) <= Len(q)
           /\ ToSet(Without(q, S)) = ToSet(q) \ S
           /\ Distinct(q) => Distinct(Without(q, S))
<1> DEFINE L == Len(q)
           Step(s, i) == IF q[i] \in S THEN s ELSE Append(s, q[i])
           Is(f) == f = [i \in 0..L |-> IF i = 0 THEN <<>> ELSE Step(f[i - 1], i)]
           Solves(f, n) == \A i \in 0..n : f[i] = IF i = 0 THEN <<>> ELSE Step(f[i - 1], i)
           A == {n \in Nat : \E f : Solves(f, n)}
<1>1. L \in Nat /\ DOMAIN q = 1..L /\ \A i \in 1..L : q[i] \in R
  BY LenProperties, ElementOfSeq
<1>2. \A n \in Nat : n \in A
  <2> HIDE DEF Step
  <2>1. 0 \in A
    <3>1. Solves([i \in 0..0 |-> <<>>], 0)
      OBVIOUS
    <3> QED
      BY <3>1
  <2>2. ASSUME NEW n \in Nat, n \in A PROVE n + 1 \in A
    <3>1. PICK f : Solves(f, n)
      BY <2>2
    <3> DEFINE g == [i \in 0..(n + 1) |-> IF i <= n THEN f[i] ELSE Step(f[i - 1], i)]
    <3>2. Solves(g, n + 1)
      <4> SUFFICES ASSUME NEW i \in 0..(n + 1)
                   PROVE  g[i] = IF i = 0 THEN <<>> ELSE Step(g[i - 1], i)
        OBVIOUS
      <4>1. i = 0 \/ g[i - 1] = f[i - 1]
        OBVIOUS
      <4> QED
        BY <3>1, <4>1
    <3> HIDE DEF Solves
    <3> QED
      BY <3>2
  <2> HIDE DEF A
  <2> QED
    BY <2>1, <2>2, SetInduction
<1>3. PICK f : Is(f) /\ Without(q, S) = f[L]
  <2>1. PICK g : Solves(g, L)
    BY <1>1, <1>2
  <2> DEFINE h == [i \in 0..L |-> g[i]]
  <2>2. Is(h)
    <3> HIDE DEF Step
    <3>1. \A i \in 0..L : h[i] = IF i = 0 THEN <<>> ELSE Step(h[i - 1], i)
      <4> SUFFICES ASSUME NEW i \in 0..L
                   PROVE  h[i] = IF i = 0 THEN <<>> ELSE Step(h[i - 1], i)
        OBVIOUS
      <4>1. i = 0 \/ h[i - 1] = g[i - 1]
        BY <1>1
      <4> QED
        BY <2>1, <4>1
    <3> QED
      BY <3>1
  <2>3. Without(q, S) = (CHOOSE k : Is(k))[L]
    BY DEF Without
  <2>4. Is(CHOOSE k : Is(k))
    <3> HIDE DEF Is
    <3> QED
      BY <2>2
  <2> HIDE DEF Is
  <2> QED
    BY <2>3, <2>4
<1> DEFINE Upto(n) == {q[j] : j \in 1..n}
           Good(s, n) == /\ s \in Seq(R)
                         /\ Len(s) <= n
                         /\ ToSet(s) = Upto(n) \ S
                         /\ Distinct(q) => Distinct(s)
           B == {n \in Nat : n <= L => Good(f[n], n)}
<1>4. \A n \in Nat : n \in B
  <2>1. 0 \in B
    <3>1. f[0] = <<>>
      BY <1>1, <1>3
    <3>2. Good(<<>>, 0)
      BY EmptySeq DEF ToSet, Distinct
    <3> QED
      BY <3>1, <3>2
  <2>2. ASSUME NEW n \in Nat, n \in B PROVE n + 1 \in B
    <3> SUFFICES ASSUME n + 1 <= L PROVE Good(f[n + 1], n + 1)
      OBVIOUS
    <3>1. Good(f[n], n)
      BY <2>2, <1>1
    <3>2. f[n + 1] = Step(f[n], n + 1)
      <4> HIDE DEF Step
      <4> QED
        BY <1>1, <1>3
    <3>3. Upto(n + 1) = Upto(n) \cup {q[n + 1]}
      OBVIOUS
    <3>4. CASE q[n + 1] \in S
      <4>1. f[n + 1] = f[n]
        BY <3>2, <3>4
      <4>2. Upto(n + 1) \ S = Upto(n) \ S
        BY <3>3, <3>4
      <4>3. Len(f[n]) \in Nat
        BY <3>1, LenProperties
      <4> QED
        BY <3>1, <4>1, <4>2, <4>3
    <3>5. CASE q[n + 1] \notin S
      <4> DEFINE s == f[n]
                 e == q[n + 1]
      <4>1. f[n + 1] = Append(s, e)
        BY <3>2, <3>5
      <4>2. e \in R
        BY <1>1
      <4>3. /\ Append(s, e) \in Seq(R)
            /\ Len(Append(s, e)) = Len(s) + 1
            /\ ToSet(Append(s, e)) = ToSet(s) \cup {e}
            /\ Distinct(s) /\ e \notin ToSet(s) => Distinct(Append(s, e))
        BY <3>1, <4>2, AppendFacts
      <4>4. Upto(n + 1) \ S = (Upto(n) \ S) \cup {e}
        BY <3>3, <3>5
      <4>5. Len(s) \in Nat
        BY <3>1, LenProperties
      <4>6. Distinct(q) => e \notin Upto(n)
        BY <1>1 DEF Distinct
      <4>7. Distinct(q) => Distinct(Append(s, e))
        BY <3>1, <4>3, <4>6
      <4> HIDE DEF s, e, Upto
      <4> QED
        BY <3>1, <4>1, <4>3, <4>4, <4>5, <4>7 DEF s
    <3> QED
      BY <3>4, <3>5
  <2> HIDE DEF B
  <2> QED
    BY <2>1, <2>2, SetInduction
<1>5. Good(f[L], L)
  <2>1. L \in B
    <3> HIDE DEF B, L
    <3> QED
      BY <1>1, <1>4
  <2> HIDE DEF Good
  <2> QED
    BY <2>1, <1>1
<1>6. Upto(L) = ToSet(q)
  BY <1>1 DEF ToSet
<1>7. Without(q, S) = f[L]
  BY <1>3
<1> HIDE DEF Upto, Is
<1>8. /\ f[L] \in Seq(R)
      /\ Len(f[L]) <= L
      /\ ToSet(f[L]) = ToSet(q) \ S
      /\ Distinct(q) => Distinct(f[L])
  BY <1>5, <1>6
<1> QED
  BY <1>7, <1>8

-----------------------------------------------------------------------------
(* The inductive invariant *)

IInv ==
    /\ TypeOK
    /\ WithinLimits
    /\ OneRunPerKey
    /\ SlotsAccounted
    /\ WorkConserving

(* What the cardinalities in the invariant do when a lease comes or goes. *)
LEMMA LeaseCount ==
    ASSUME NEW S, S \subseteq Requests, NEW r \in Requests
    PROVE  /\ IsFiniteSet(S) /\ Cardinality(S) \in Nat
           /\ r \notin S => Cardinality(S \cup {r}) = Cardinality(S) + 1
           /\ r \in S => Cardinality(S \ {r}) = Cardinality(S) - 1 /\ Cardinality(S) >= 1
<1>1. IsFiniteSet(S)
  BY RequestsFinite, FS_Subset
<1>2. Cardinality(S) \in Nat
  BY <1>1, FS_CardinalityType
<1>3. r \notin S => Cardinality(S \cup {r}) = Cardinality(S) + 1
  BY <1>1, FS_AddElement
<1>4. r \in S => Cardinality(S \ {r}) = Cardinality(S) - 1
  BY <1>1, FS_RemoveElement
<1>5. Cardinality(S \ {r}) \in Nat
  BY <1>1, FS_RemoveElement, FS_CardinalityType, FS_Subset
<1> QED
  BY <1>1, <1>2, <1>3, <1>4, <1>5

(* The part of the invariant that a grant disturbs: a request that held nothing,
   and whose key nobody has, takes a slot. *)
LEMMA GrantAccounted ==
    ASSUME TypeOK, SlotsAccounted, NEW r \in Requests, r \notin leases, Grant(r)
    PROVE  /\ leases' \subseteq Requests
           /\ runningKeys' \subseteq Keys
           /\ held' \in [Workspaces -> Nat]
           /\ SlotsAccounted'
           /\ Cardinality(leases') = Cardinality(leases) + 1
<1> DEFINE Of(S, w) == {s \in S : WorkspaceOf[s] = w}
<1>1. /\ leases' \subseteq Requests
      /\ runningKeys' \subseteq Keys
      /\ held' \in [Workspaces -> Nat]
  BY KeyAssumption, WorkspaceAssumption DEF TypeOK, Grant, Keyed
<1>2. Cardinality(leases') = Cardinality(leases) + 1
  BY LeaseCount DEF TypeOK, Grant
<1>3. runningKeys' = {KeyOf[s] : s \in {t \in leases' : Keyed(t)}}
  <2>1. CASE Keyed(r)
    <3>1. {t \in leases' : Keyed(t)} = {t \in leases : Keyed(t)} \cup {r}
      BY <2>1 DEF Grant
    <3> QED
      BY <2>1, <3>1 DEF Grant, SlotsAccounted
  <2>2. CASE ~Keyed(r)
    <3>1. {t \in leases' : Keyed(t)} = {t \in leases : Keyed(t)}
      BY <2>2 DEF Grant
    <3> QED
      BY <2>2, <3>1 DEF Grant, SlotsAccounted
  <2> QED
    BY <2>1, <2>2
<1>4. ASSUME NEW w \in Workspaces
      PROVE  held'[w] = Cardinality(Of(leases', w))
  <2>1. held[w] = Cardinality(Of(leases, w)) /\ held[w] \in Nat
    BY DEF SlotsAccounted, TypeOK
  <2>2. CASE w = WorkspaceOf[r]
    <3>1. Of(leases', w) = Of(leases, w) \cup {r}
      BY <2>2 DEF Grant
    <3>2. Cardinality(Of(leases, w) \cup {r}) = Cardinality(Of(leases, w)) + 1
      BY LeaseCount DEF TypeOK
    <3>3. held'[w] = held[w] + 1
      BY <2>2, <2>1 DEF Grant, TypeOK
    <3> QED
      BY <2>1, <3>1, <3>2, <3>3
  <2>3. CASE w # WorkspaceOf[r]
    <3>1. Of(leases', w) = Of(leases, w)
      BY <2>3 DEF Grant
    <3>2. held'[w] = held[w]
      BY <2>3 DEF Grant, TypeOK
    <3> QED
      BY <2>1, <3>1, <3>2
  <2> QED
    BY <2>2, <2>3
<1> QED
  BY <1>1, <1>2, <1>3, <1>4 DEF SlotsAccounted, Keyed

(* A release undoes it: the uniqueness of keys makes deleting the key right. *)
LEMMA ReleaseAccounted ==
    ASSUME TypeOK, OneRunPerKey, SlotsAccounted, NEW r \in Requests, Release(r)
    PROVE  /\ leases' \subseteq Requests
           /\ runningKeys' \subseteq Keys
           /\ held' \in [Workspaces -> Nat]
           /\ SlotsAccounted'
           /\ Cardinality(leases') = Cardinality(leases) - 1
<1> DEFINE Of(S, w) == {s \in S : WorkspaceOf[s] = w}
<1> USE DEF Release
<1>1. leases' \subseteq Requests /\ runningKeys' \subseteq Keys
  BY DEF TypeOK
<1>2. Cardinality(leases') = Cardinality(leases) - 1
  BY LeaseCount DEF TypeOK
<1>3. runningKeys' = {KeyOf[s] : s \in {t \in leases' : Keyed(t)}}
  <2>1. \A s \in leases : Keyed(s) /\ KeyOf[s] = KeyOf[r] => s = r
    BY DEF OneRunPerKey, Keyed
  <2>2. runningKeys = {KeyOf[s] : s \in {t \in leases : Keyed(t)}}
    BY DEF SlotsAccounted
  <2>3. {t \in leases' : Keyed(t)} = {t \in leases : Keyed(t)} \ {r}
    OBVIOUS
  <2> QED
    BY <2>1, <2>2, <2>3
<1>4. ASSUME NEW w \in Workspaces
      PROVE  held'[w] \in Nat /\ held'[w] = Cardinality(Of(leases', w))
  <2>1. held[w] = Cardinality(Of(leases, w)) /\ held[w] \in Nat
    BY DEF SlotsAccounted, TypeOK
  <2>2. CASE w = WorkspaceOf[r]
    <3>1. Of(leases', w) = Of(leases, w) \ {r}
      OBVIOUS
    <3>2. /\ Cardinality(Of(leases, w) \ {r}) = Cardinality(Of(leases, w)) - 1
          /\ Cardinality(Of(leases, w)) >= 1
      <4>1. r \in Of(leases, w) /\ Of(leases, w) \subseteq Requests
        BY <2>2 DEF TypeOK
      <4> HIDE DEF Of
      <4> QED
        BY <4>1, LeaseCount
    <3>3. held'[w] = IF held[w] - 1 > 0 THEN held[w] - 1 ELSE 0
      BY <2>2 DEF TypeOK
    <3> HIDE DEF Of, Release
    <3> QED
      BY <2>1, <3>1, <3>2, <3>3
  <2>3. CASE w # WorkspaceOf[r]
    <3>1. Of(leases', w) = Of(leases, w)
      BY <2>3
    <3>2. held'[w] = held[w]
      BY <2>3 DEF TypeOK
    <3> QED
      BY <2>1, <3>1, <3>2
  <2> QED
    BY <2>2, <2>3
<1>5. held' \in [Workspaces -> Nat]
  <2>1. DOMAIN held' = Workspaces /\ held' = [w \in Workspaces |-> held'[w]]
    BY DEF TypeOK
  <2> QED
    BY <1>4, <2>1
<1> QED
  BY <1>1, <1>2, <1>3, <1>4, <1>5 DEF SlotsAccounted, Keyed

(* Taking one entry out of a queue without repetitions leaves the others. *)
LEMMA RemoveAtFacts ==
    ASSUME NEW R, NEW s \in Seq(R), NEW i \in 1..Len(s), Distinct(s)
    PROVE  /\ RemoveAt(s, i) \in Seq(R)
           /\ Len(RemoveAt(s, i)) = Len(s) - 1
           /\ ToSet(RemoveAt(s, i)) = ToSet(s) \ {s[i]}
           /\ Distinct(RemoveAt(s, i))
<1> DEFINE t == RemoveAt(s, i)
           n == Len(s)
<1>1. n \in Nat /\ DOMAIN s = 1..n /\ i \in Nat /\ i <= n /\ i >= 1
  BY LenProperties
<1>2. /\ t \in Seq(R) /\ Len(t) = n - 1
      /\ \A j \in 1..(n - 1) : t[j] = IF j < i THEN s[j] ELSE s[j + 1]
  <2> DEFINE a == SubSeq(s, 1, i - 1)
             b == SubSeq(s, i + 1, n)
  <2>1. a \in Seq(R) /\ Len(a) = i - 1 /\ \A j \in 1..(i - 1) : a[j] = s[j]
    BY <1>1, SubSeqProperties
  <2>2. b \in Seq(R) /\ Len(b) = n - i /\ \A j \in 1..(n - i) : b[j] = s[i + j]
    <3>1. i + 1 \in Int /\ n \in Int /\ \A j \in (i + 1)..n : s[j] \in R
      BY <1>1, ElementOfSeq
    <3> HIDE DEF n
    <3>2. /\ b \in Seq(R)
          /\ Len(b) = IF i + 1 <= n THEN n - (i + 1) + 1 ELSE 0
          /\ \A j \in 1..(n - (i + 1) + 1) : b[j] = s[(i + 1) + j - 1]
      BY <3>1, SubSeqProperties
    <3> HIDE DEF b
    <3> QED
      BY <1>1, <3>2
  <2>3. t = a \o b
    BY DEF RemoveAt
  <2> HIDE DEF a, b, t, n
  <2>4. /\ t \in Seq(R) /\ Len(t) = Len(a) + Len(b)
        /\ \A j \in 1..(Len(a) + Len(b)) : t[j] = IF j <= Len(a) THEN a[j] ELSE b[j - Len(a)]
    BY <2>1, <2>2, <2>3, ConcatProperties
  <2> QED
    BY <1>1, <2>1, <2>2, <2>4
<1>3. DOMAIN t = 1..(n - 1)
  BY <1>1, <1>2, LenProperties
<1> HIDE DEF t
<1>4. ASSUME NEW x PROVE x \in ToSet(t) <=> x \in ToSet(s) \ {s[i]}
  <2>1. ASSUME x \in ToSet(t) PROVE x \in ToSet(s) \ {s[i]}
    <3>1. PICK j \in 1..(n - 1) : x = t[j]
      BY <2>1, <1>3 DEF ToSet
    <3>2. PICK k \in 1..n : k # i /\ x = s[k]
      BY <1>1, <1>2, <3>1
    <3> QED
      BY <1>1, <3>2 DEF ToSet, Distinct
  <2>2. ASSUME x \in ToSet(s) \ {s[i]} PROVE x \in ToSet(t)
    <3>1. PICK k \in 1..n : x = s[k] /\ k # i
      BY <2>2, <1>1 DEF ToSet
    <3>2. CASE k < i
      <4>1. k \in 1..(n - 1) /\ t[k] = x
        BY <1>1, <1>2, <3>1, <3>2
      <4> QED
        BY <4>1, <1>3 DEF ToSet
    <3>3. CASE k > i
      <4>1. k - 1 \in 1..(n - 1) /\ t[k - 1] = x
        BY <1>1, <1>2, <3>1, <3>3
      <4> QED
        BY <4>1, <1>3 DEF ToSet
    <3> QED
      BY <1>1, <3>1, <3>2, <3>3
  <2> QED
    BY <2>1, <2>2
<1>5. Distinct(t)
  <2> SUFFICES ASSUME NEW j \in 1..(n - 1), NEW k \in 1..(n - 1), t[j] = t[k]
               PROVE  j = k
    BY <1>3 DEF Distinct
  <2> DEFINE At(m) == IF m < i THEN m ELSE m + 1
  <2>1. At(j) \in 1..n /\ At(k) \in 1..n /\ s[At(j)] = t[j] /\ s[At(k)] = t[k]
    BY <1>1, <1>2
  <2>2. At(j) = At(k)
    BY <1>1, <2>1 DEF Distinct
  <2> QED
    BY <1>1, <2>2
<1>6. ToSet(t) = ToSet(s) \ {s[i]}
  BY <1>4
<1> QED
  BY <1>2, <1>5, <1>6 DEF t

(* The steps that only withdraw entries keep the invariant. *)
LEMMA WithdrawKeeps ==
    ASSUME IInv, NEW S, Withdraw(S),
           UNCHANGED <<leases, runningKeys, held, draining>>,
           \/ stopped' = stopped
           \/ stopped' = TRUE /\ S = Waiting
    PROVE  IInv'
<1> USE DEF IInv
<1>1. /\ queue' \in Seq(Requests)
      /\ Len(queue') <= Len(queue)
      /\ Waiting' = Waiting \ S
      /\ Distinct(queue) => Distinct(queue')
  BY WithoutFacts DEF TypeOK, Withdraw, Waiting
<1>2. Len(queue) \in Nat /\ Len(queue') \in Nat
  BY <1>1, LenProperties DEF TypeOK
<1>3. \A q \in Seq(Requests) : ToSet(q) = {} <=> q = <<>>
  BY LenProperties, EmptySeq DEF ToSet
<1>4. TypeOK'
  BY <1>1 DEF TypeOK
<1>5. WithinLimits'
  BY <1>1, <1>2, LimitAssumption DEF WithinLimits
<1>6. OneRunPerKey'
  <2>1. Distinct(queue')
    BY <1>1 DEF OneRunPerKey, Distinct
  <2> QED
    BY <2>1, <1>1 DEF OneRunPerKey, Distinct, Keyed
<1>7. SlotsAccounted'
  BY DEF SlotsAccounted, Keyed
<1>8. WorkConserving'
  <2>1. queue = <<>> => queue' = <<>>
    BY <1>1, <1>3 DEF Waiting, TypeOK
  <2>2. S = Waiting => queue' = <<>>
    BY <1>1, <1>3 DEF Waiting
  <2> QED
    BY <2>1, <2>2 DEF WorkConserving
<1> QED
  BY <1>4, <1>5, <1>6, <1>7, <1>8

(* Initially, and across every step: the conjunction is inductive. *)
LEMMA InitIInv == Init => IInv
<1> SUFFICES ASSUME Init PROVE IInv
  OBVIOUS
<1> USE DEF Init
<1>1. TypeOK
  BY EmptySeq DEF TypeOK
<1>2. Cardinality({}) = 0
  BY FS_EmptySet
<1>3. WithinLimits
  BY <1>2, EmptySeq, LimitAssumption DEF WithinLimits
<1>4. OneRunPerKey
  BY DEF OneRunPerKey, Waiting, ToSet
<1>5. SlotsAccounted
  <2>1. \A w \in Workspaces : {r \in leases : WorkspaceOf[r] = w} = {}
    OBVIOUS
  <2>2. \A w \in Workspaces : held[w] = 0
    OBVIOUS
  <2>3. runningKeys = {KeyOf[r] : r \in {s \in leases : Keyed(s)}}
    OBVIOUS
  <2> QED
    BY <2>1, <2>2, <2>3, <1>2 DEF SlotsAccounted
<1>6. WorkConserving
  BY DEF WorkConserving
<1> QED
  BY <1>1, <1>3, <1>4, <1>5, <1>6 DEF IInv

LEMMA StepIInv == IInv /\ [Next]_vars => IInv'
<1> SUFFICES ASSUME IInv, [Next]_vars PROVE IInv'
  OBVIOUS
<1> USE DEF IInv
<1>0. Len(queue) \in Nat /\ DOMAIN queue = 1..Len(queue) /\ Cardinality(leases) \in Nat
  BY LenProperties, FS_Subset, FS_CardinalityType, RequestsFinite DEF TypeOK
<1>1. ASSUME NEW r \in Requests, RequestAdmitted(r) PROVE IInv'
  <2> USE DEF RequestAdmitted
  <2>1. /\ leases' \subseteq Requests /\ runningKeys' \subseteq Keys
        /\ held' \in [Workspaces -> Nat] /\ SlotsAccounted'
        /\ Cardinality(leases') = Cardinality(leases) + 1
    BY <1>1, GrantAccounted
  <2>2. TypeOK'
    BY <1>1, <2>1 DEF TypeOK
  <2>3. WithinLimits'
    BY <1>1, <1>0, <2>1, LimitAssumption DEF WithinLimits, HasFreeSlot
  <2>4. OneRunPerKey'
    <3>1. ToSet(queue) = {}
      BY <1>1 DEF HasFreeSlot, ToSet
    <3>2. \A s \in leases : Keyed(s) => KeyOf[s] \in runningKeys
      BY DEF SlotsAccounted
    <3>3. \A s \in leases : Keyed(r) => KeyOf[s] # KeyOf[r]
      BY <1>1, <3>2 DEF Refused, Keyed
    <3>4. leases' = leases \cup {r} /\ queue' = queue
      BY <1>1 DEF Grant
    <3> QED
      BY <3>1, <3>3, <3>4 DEF OneRunPerKey, Keyed, Waiting
  <2>5. WorkConserving'
    BY <1>1 DEF WorkConserving, HasFreeSlot
  <2> QED
    BY <2>1, <2>2, <2>3, <2>4, <2>5
<1>2. ASSUME NEW r \in Requests, RequestQueued(r) PROVE IInv'
  <2> USE DEF RequestQueued
  <2>1. /\ queue' \in Seq(Requests)
        /\ Len(queue') = Len(queue) + 1
        /\ Waiting' = Waiting \cup {r}
        /\ Distinct(queue) => Distinct(queue')
    BY <1>2, AppendFacts DEF TypeOK, Waiting
  <2>2. TypeOK'
    BY <1>2, <2>1 DEF TypeOK
  <2>3. WithinLimits'
    BY <1>2, <1>0, <2>1, LimitAssumption DEF WithinLimits
  <2>4. OneRunPerKey'
    <3>1. Distinct(queue')
      BY <2>1 DEF OneRunPerKey, Distinct
    <3>2. \A s \in leases : Keyed(s) => KeyOf[s] \in runningKeys
      BY DEF SlotsAccounted
    <3>3. \A s \in leases \cup Waiting : Keyed(r) => KeyOf[s] # KeyOf[r]
      BY <1>2, <3>2 DEF Refused, Keyed
    <3> QED
      BY <1>2, <2>1, <3>1, <3>3 DEF OneRunPerKey, Distinct, Keyed
  <2>5. SlotsAccounted'
    BY <1>2 DEF SlotsAccounted, Keyed
  <2>6. WorkConserving'
    BY <1>2, <1>0, LimitAssumption DEF WorkConserving, HasFreeSlot, Refused, WithinLimits
  <2> QED
    BY <2>2, <2>3, <2>4, <2>5, <2>6
<1>3. ASSUME NEW r \in Requests, Release(r) PROVE IInv'
  <2>1. /\ leases' \subseteq Requests /\ runningKeys' \subseteq Keys
        /\ held' \in [Workspaces -> Nat] /\ SlotsAccounted'
        /\ Cardinality(leases') = Cardinality(leases) - 1
    BY <1>3, ReleaseAccounted
  <2> USE DEF Release
  <2>2. TypeOK'
    BY <1>3, <2>1 DEF TypeOK
  <2>3. WithinLimits'
    BY <1>3, <1>0, <2>1, LimitAssumption DEF WithinLimits
  <2>4. OneRunPerKey'
    BY <1>3 DEF OneRunPerKey, Keyed, Waiting
  <2>5. WorkConserving'
    BY <1>3 DEF WorkConserving
  <2> QED
    BY <2>1, <2>2, <2>3, <2>4, <2>5
<1>4. ASSUME NEW r \in Requests, Abort(r) PROVE IInv'
  BY <1>4, WithdrawKeeps DEF Abort
<1>5. ASSUME NEW k \in Keys, Cancel(k) PROVE IInv'
  BY <1>5, WithdrawKeeps DEF Cancel
<1>6. ASSUME NEW w \in Workspaces, WithdrawWorkspace(w) PROVE IInv'
  BY <1>6, WithdrawKeeps DEF WithdrawWorkspace
<1>7. ASSUME DrainAdmit PROVE IInv'
  <2> DEFINE r == queue[NextIndex]
  <2> USE DEF DrainAdmit
  <2>1. NextIndex \in 1..Len(queue) /\ r \in Requests /\ r \in Waiting
    BY <1>7, <1>0, ElementOfSeq DEF TypeOK, Waiting, ToSet
  <2>2. r \notin leases /\ Distinct(queue)
    BY <2>1 DEF OneRunPerKey, Distinct
  <2>3. /\ leases' \subseteq Requests /\ runningKeys' \subseteq Keys
        /\ held' \in [Workspaces -> Nat] /\ SlotsAccounted'
        /\ Cardinality(leases') = Cardinality(leases) + 1
    BY <1>7, <2>1, <2>2, GrantAccounted
  <2>4. /\ queue' \in Seq(Requests) /\ Len(queue') = Len(queue) - 1
        /\ Waiting' = Waiting \ {r} /\ Distinct(queue')
    BY <1>7, <2>1, <2>2, RemoveAtFacts DEF TypeOK, Waiting
  <2>5. leases' = leases \cup {r}
    BY <1>7 DEF Grant
  <2> HIDE DEF r
  <2>6. TypeOK'
    BY <1>7, <2>3, <2>4 DEF TypeOK
  <2>7. WithinLimits'
    BY <1>7, <1>0, <2>3, <2>4, LimitAssumption DEF WithinLimits, CanAdmit
  <2>8. OneRunPerKey'
    <3>1. \A s, t \in leases' \cup Waiting' : s \in leases \cup Waiting /\ t \in leases \cup Waiting
      BY <2>1, <2>4, <2>5
    <3> QED
      BY <2>1, <2>4, <2>5, <3>1 DEF OneRunPerKey, Distinct, Keyed
  <2>9. WorkConserving'
    BY <1>7 DEF WorkConserving, CanAdmit
  <2> QED
    BY <2>3, <2>6, <2>7, <2>8, <2>9
<1>8. ASSUME DrainEnd PROVE IInv'
  <2> USE DEF DrainEnd
  <2>1. queue # <<>> => NextIndex \in DOMAIN queue
    BY NextIndexIsFairChoice DEF IsFairChoice
  <2>2. WorkConserving'
    BY <1>8, <1>0, <2>1, LimitAssumption DEF WorkConserving, CanAdmit, WithinLimits
  <2>3. TypeOK' /\ WithinLimits' /\ OneRunPerKey' /\ SlotsAccounted'
    BY <1>8 DEF TypeOK, WithinLimits, OneRunPerKey, SlotsAccounted, Waiting, Keyed
  <2> QED
    BY <2>2, <2>3
<1>9. ASSUME Stop PROVE IInv'
  BY <1>9, WithdrawKeeps DEF Stop
<1>10. CASE UNCHANGED vars
  BY <1>10 DEF vars, TypeOK, WithinLimits, OneRunPerKey, SlotsAccounted, WorkConserving,
               Waiting, Keyed
<1> QED
  BY <1>1, <1>2, <1>3, <1>4, <1>5, <1>6, <1>7, <1>8, <1>9, <1>10 DEF Next

(* The invariant holds throughout every behaviour of the pool. *)
LEMMA Invariance == Spec => []IInv
  BY InitIInv, StepIInv, PTL DEF Spec

(* The pool's state is well typed. *)
THEOREM PoolTypes == Spec => []TypeOK
<1>1. IInv => TypeOK
  BY DEF IInv
<1> QED
  BY <1>1, Invariance, PTL

(* Neither limit of the pool is ever exceeded, by callbacks inside drain() either. *)
THEOREM PoolLimits == Spec => []WithinLimits
<1>1. IInv => WithinLimits
  BY DEF IInv
<1> QED
  BY <1>1, Invariance, PTL

(* No two runs with one key run or wait together. *)
THEOREM PoolKeys == Spec => []OneRunPerKey
<1>1. IInv => OneRunPerKey
  BY DEF IInv
<1> QED
  BY <1>1, Invariance, PTL

(* Leases, running keys and each workspace's count always agree. *)
THEOREM PoolAccounts == Spec => []SlotsAccounted
<1>1. IInv => SlotsAccounted
  BY DEF IInv
<1> QED
  BY <1>1, Invariance, PTL

(* Outside drain() no slot idles while a run waits. *)
THEOREM PoolConserves == Spec => []WorkConserving
<1>1. IInv => WorkConserving
  BY DEF IInv
<1> QED
  BY <1>1, Invariance, PTL

(* Every slot that is granted while runs wait goes to the run fair share names. *)
THEOREM SlotsAreFairlyShared == Spec => FairShare
<1>1. IInv /\ [Next]_vars => [FairShareStep]_vars
  <2> SUFFICES ASSUME IInv, Next, queue # <<>>, NEW r \in leases' \ leases
               PROVE  \E i \in DOMAIN queue : queue[i] = r /\ IsFairChoice(i)
    BY DEF FairShareStep
  <2> USE DEF IInv
  <2>1. IsFairChoice(NextIndex)
    BY NextIndexIsFairChoice
  <2>2. CASE DrainAdmit
    <3>1. r = queue[NextIndex]
      BY <2>2 DEF DrainAdmit, Grant
    <3> QED
      BY <2>1, <3>1 DEF IsFairChoice
  <2>3. ASSUME NEW q \in Requests, RequestAdmitted(q) PROVE FALSE
    BY <2>3 DEF RequestAdmitted, HasFreeSlot
  <2>4. CASE leases' \subseteq leases
    BY <2>4
  <2> QED
    BY <2>2, <2>3, <2>4
    DEF Next, RequestQueued, Release, Abort, Cancel, WithdrawWorkspace, DrainEnd, Stop
<1> QED
  BY <1>1, InitIInv, StepIInv, PTL DEF Spec, FairShare

=============================================================================
