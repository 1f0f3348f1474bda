-------------------------- MODULE MCSpendBalances --------------------------
(***************************************************************************)
(* Three runs.  The first two share a dollar account, the last two share   *)
(* an output account, and the third run's model has no known rates; its    *)
(* hold on the dollar account can only be opened, like a batch's anchor.   *)
(***************************************************************************)
EXTENDS SpendBalances, TLC

CONSTANTS usd, out

MCNames == 1 :> {usd} @@ 2 :> {usd, out} @@ 3 :> {usd, out}
MCUnitOf == usd :> "usd" @@ out :> "output_tokens"
MCRateIn == 1 :> 1 @@ 2 :> 1 @@ 3 :> 0
MCRateOut == 1 :> 2 @@ 2 :> 1 @@ 3 :> 0

=============================================================================
