--------------------------- MODULE SpendBalances ---------------------------
(***************************************************************************)
(* Spend accounts (src/runtime/spend.ts): the live balances that runs in   *)
(* flight share.  A run opens a hold on the accounts it names; before each *)
(* model call check() reserves the call's worst case against every one of  *)
(* them, debit() replaces the reservation by what the call cost, and the   *)
(* last run to release an account discards its balance.                    *)
(*                                                                         *)
(* The three units are one arithmetic with different rates: a token unit   *)
(* counts its own side of the call at 1 and the other at 0, dollars count  *)
(* both at the run model's worst rates.  An account whose output rate is 0 *)
(* never limits output.  An output_tokens account below zero answers a     *)
(* negative allowance in the code and "does not fit" here: both refuse.    *)
(***************************************************************************)
EXTENDS Integers, FiniteSets

CONSTANTS
    NumRuns,    \* the runs at a time; a run's number is used again after its release
    Accounts,
    Names,      \* run -> the accounts it names (one entry per id)
    UnitOf,     \* account -> its unit, which every run naming it gives alike
    RateIn,     \* run -> worst dollars per input token of its model
    RateOut,    \* run -> worst dollars per output token
    Unpriced,   \* runs whose model has no known rates
    MaxTokens,  \* bound on a call's input and output tokens
    MaxCost,    \* bound on what one call costs an account
    MaxAmount,  \* bound on what a source issues
    MaxExcess   \* bound on what input beyond the projections costs an account

Runs == 1..NumRuns

ASSUME RunAssumption == NumRuns \in Nat
ASSUME NameAssumption == Names \in [Runs -> SUBSET Accounts]
ASSUME UnitAssumption == UnitOf \in [Accounts -> {"usd", "input_tokens", "output_tokens"}]
ASSUME RateAssumption == RateIn \in [Runs -> Nat] /\ RateOut \in [Runs -> Nat]
ASSUME BoundAssumption == MaxTokens \in Nat /\ MaxAmount \in Nat /\ MaxExcess \in Nat /\ MaxCost \in Nat

VARIABLES
    holders,      \* account -> open holds; a live entry exists while this is not 0
    balance,      \* account -> what is left, reservations not subtracted
    reserved,     \* account -> outstanding reservations of every call in flight
    hold,         \* run -> open or closed
    reservation,  \* run -> account -> its own outstanding reservation
    call,         \* run -> the tokens of its granted call, or NoCall
    excess        \* history: what input beyond its projection has cost, by account

vars == <<holders, balance, reserved, hold, reservation, call, excess>>

NoCall == [input |-> -1, output |-> -1]
Nothing == [a \in Accounts |-> 0]

-----------------------------------------------------------------------------
(* What a call costs *)

InputRate(r, a) ==
    CASE UnitOf[a] = "input_tokens" -> 1
      [] UnitOf[a] = "output_tokens" -> 0
      [] UnitOf[a] = "usd" -> RateIn[r]

OutputRate(r, a) ==
    CASE UnitOf[a] = "input_tokens" -> 0
      [] UnitOf[a] = "output_tokens" -> 1
      [] UnitOf[a] = "usd" -> RateOut[r]

(* projectedCost() *)
ProjectedCost(r, a, input, output) == input * InputRate(r, a) + output * OutputRate(r, a)

(* The sum of the runs' own reservations against an account. *)
Total(rv, a) ==
    LET sum[i \in 0..NumRuns] == IF i = 0 THEN 0 ELSE sum[i - 1] + rv[i][a]
    IN  sum[NumRuns]

(* unreserve(): the run's reservation leaves the account's total. *)
ReservedWithout(r, a) == reserved[a] - reservation[r][a]

AvailableUnreserved(r, a) == balance[a]

Available(r, a) == balance[a] - ReservedWithout(r, a)

(* outputAllowance(): whether the account admits the call's input at all... *)
InputFits(r, a, input) ==
    /\ UnitOf[a] = "usd" => r \notin Unpriced
    /\ input * InputRate(r, a) <= Available(r, a)

(* ... and the most output it pays for beside it, never more than asked for. *)
OutputAllowance(r, a, input, maxOutput) ==
    IF OutputRate(r, a) = 0
    THEN maxOutput
    ELSE (Available(r, a) - input * InputRate(r, a)) \div OutputRate(r, a)

(* check() grants the least of what was asked for and every allowance. *)
IsGrant(r, input, maxOutput, out) ==
    /\ \A a \in Names[r] : InputFits(r, a, input) /\ out <= OutputAllowance(r, a, input, maxOutput)
    /\ \/ out = maxOutput
       \/ out < maxOutput /\ \E a \in Names[r] : out = OutputAllowance(r, a, input, maxOutput)

-----------------------------------------------------------------------------

Init ==
    /\ holders = Nothing /\ balance = Nothing /\ reserved = Nothing /\ excess = Nothing
    /\ hold = [r \in Runs |-> "closed"]
    /\ reservation = [r \in Runs |-> Nothing]
    /\ call = [r \in Runs |-> NoCall]

(* open(): the first run to name an account sets its balance; `remaining' of a
   later one is not read. *)
Open(r, remaining) ==
    LET first(a) == a \in Names[r] /\ holders[a] = 0 IN
    /\ hold[r] # "open"
    /\ hold' = [hold EXCEPT ![r] = "open"]
    /\ balance' = [a \in Accounts |-> IF first(a) THEN remaining[a] ELSE balance[a]]
    /\ excess' = [a \in Accounts |-> IF first(a) THEN 0 ELSE excess[a]]
    /\ holders' = [a \in Accounts |-> IF a \in Names[r] THEN holders[a] + 1 ELSE holders[a]]
    /\ UNCHANGED <<reserved, reservation, call>>

KeepReserved(r) ==
    /\ reserved' = reserved
    /\ reservation' = [reservation EXCEPT ![r] = Nothing]

Unreserve(r) ==
    /\ reserved' = [a \in Accounts |-> ReservedWithout(r, a)]
    /\ reservation' = [reservation EXCEPT ![r] = Nothing]

(* check() that lets the call through.  A reservation the run still holds, of a
   call that never reached its debit, is replaced. *)
CheckGranted(r, input, maxOutput, minOutput, out) ==
    LET amount == [a \in Accounts |->
                      IF a \in Names[r] THEN ProjectedCost(r, a, input, out) ELSE 0]
        floor == IF minOutput <= maxOutput THEN minOutput ELSE maxOutput
    IN  /\ hold[r] = "open"
        /\ IsGrant(r, input, maxOutput, out)
        /\ out >= floor
        /\ reserved' = [a \in Accounts |-> ReservedWithout(r, a) + amount[a]]
        /\ reservation' = [reservation EXCEPT ![r] = amount]
        /\ call' = [call EXCEPT ![r] = [input |-> input, output |-> out]]
        /\ UNCHANGED <<holders, balance, hold, excess>>

(* check() that refuses, naming the account that cannot pay. *)
CheckRefused(r, input, maxOutput, minOutput) ==
    LET floor == IF minOutput <= maxOutput THEN minOutput ELSE maxOutput IN
    /\ hold[r] = "open"
    /\ \E a \in Names[r] :
          ~InputFits(r, a, input) \/ OutputAllowance(r, a, input, maxOutput) < floor
    /\ Unreserve(r)
    /\ call' = [call EXCEPT ![r] = NoCall]
    /\ UNCHANGED <<holders, balance, hold, excess>>

(* What the input tokens beyond the projection cost at most. *)
Beyond(r, a, input) ==
    IF a \in Names[r] /\ input > call[r].input
    THEN (input - call[r].input) * InputRate(r, a)
    ELSE 0

(* debit() with the usage the provider reported: its output is within the
   granted ceiling, its input need not be within the projection. *)
Debit(r, input, output, cost) ==
    /\ hold[r] = "open"
    /\ call[r] # NoCall /\ output <= call[r].output
    /\ \A a \in Accounts : excess[a] + Beyond(r, a, input) <= MaxExcess
    /\ Unreserve(r)
    /\ balance' = [a \in Accounts |-> balance[a] - cost[a]]
    /\ excess' = [a \in Accounts |-> excess[a] + Beyond(r, a, input)]
    /\ call' = [call EXCEPT ![r] = NoCall]
    /\ UNCHANGED <<holders, hold>>

ReleaseAgain(r) ==
    LET last(a) == a \in Names[r] /\ holders[a] = 1 IN
    /\ hold[r] \in {"open", "closed"}
    /\ hold' = [hold EXCEPT ![r] = "closed"]
    /\ holders' = [a \in Accounts |-> IF a \in Names[r] THEN holders[a] - 1 ELSE holders[a]]
    /\ reserved' = [a \in Accounts |-> ReservedWithout(r, a)]
    /\ reservation' = [reservation EXCEPT ![r] = Nothing]
    /\ balance' = [a \in Accounts |-> IF last(a) THEN 0 ELSE balance[a]]
    /\ excess' = [a \in Accounts |-> IF last(a) THEN 0 ELSE excess[a]]
    /\ call' = [call EXCEPT ![r] = NoCall]

(* release(), once: whatever is still reserved goes back, and an account nobody
   holds is gone. *)
Release(r) ==
    LET last(a) == a \in Names[r] /\ holders[a] = 1 IN
    /\ hold[r] = "open"
    /\ hold' = [hold EXCEPT ![r] = "closed"]
    /\ holders' = [a \in Accounts |-> IF a \in Names[r] THEN holders[a] - 1 ELSE holders[a]]
    /\ reserved' = [a \in Accounts |-> ReservedWithout(r, a)]
    /\ reservation' = [reservation EXCEPT ![r] = Nothing]
    /\ balance' = [a \in Accounts |-> IF last(a) THEN 0 ELSE balance[a]]
    /\ excess' = [a \in Accounts |-> IF last(a) THEN 0 ELSE excess[a]]
    /\ call' = [call EXCEPT ![r] = NoCall]

(* spendIn(): tokens cost what was used, dollars what the model's card says,
   which the worst rates bound. *)
Costs(r, input, output) ==
    {c \in [Accounts -> 0..MaxCost] : \A a \in Accounts :
        IF a \notin Names[r] THEN c[a] = 0
        ELSE IF UnitOf[a] = "usd" THEN c[a] <= ProjectedCost(r, a, input, output)
        ELSE c[a] = ProjectedCost(r, a, input, output)}

Tokens == 0..MaxTokens

Next ==
    \E r \in Runs :
        \/ \E remaining \in [Accounts -> 0..MaxAmount] : Open(r, remaining)
        \/ \E input, maxOutput, minOutput, out \in Tokens :
              CheckGranted(r, input, maxOutput, minOutput, out)
        \/ \E input, maxOutput, minOutput \in Tokens :
              CheckRefused(r, input, maxOutput, minOutput)
        \/ \E input, output \in Tokens : \E cost \in Costs(r, input, output) :
              Debit(r, input, output, cost)
        \/ Release(r)

Spec == Init /\ [][Next]_vars

-----------------------------------------------------------------------------

TypeOK ==
    /\ holders \in [Accounts -> Nat]
    /\ balance \in [Accounts -> Int]
    /\ reserved \in [Accounts -> Nat]
    /\ excess \in [Accounts -> Nat]
    /\ hold \in [Runs -> {"closed", "open"}]
    /\ reservation \in [Runs -> [Accounts -> Nat]]
    /\ call \in [Runs -> [input : Tokens \cup {-1}, output : Tokens \cup {-1}]]

(* What an account keeps about its holders is what the holders keep: the total
   reserved is the sum of the runs' own reservations, an entry has as many
   holders as open runs name it, and a run that is not in a call reserves
   nothing.  A reservation left behind would shrink the account for ever. *)
ReservationsAccounted ==
    \A a \in Accounts :
        /\ reserved[a] = Total(reservation, a)
        /\ holders[a] = Cardinality({r \in Runs : hold[r] = "open" /\ a \in Names[r]})
        /\ \A r \in Runs : reservation[r][a] > 0 => hold[r] = "open" /\ call[r] # NoCall

(* "Runs sharing an account cannot together exceed it": whatever the calls in
   flight come to cost within their grants, the balance pays for all of them,
   and it goes below zero by at most what input beyond the projection cost. *)
NotOverspent == \A a \in Accounts : reserved[a] <= balance[a] + excess[a]

=============================================================================
