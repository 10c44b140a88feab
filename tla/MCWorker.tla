------------------------------ MODULE MCWorker ------------------------------
(***************************************************************************)
(* A small instance of Worker for TLC: two payments for one campaign in    *)
(* different assets, of which the second goes to somebody else's account,  *)
(* one without a campaign in its memo, and one the account sent itself.    *)
(***************************************************************************)
EXTENDS Worker, TLC

CONSTANTS gift, stray, bare, own, c1, xlm, usdc, we, they

Payments == {gift, stray, bare, own}
Memo == gift :> c1 @@ stray :> c1 @@ bare :> None @@ own :> c1
AssetCode == gift :> xlm @@ stray :> usdc @@ bare :> xlm @@ own :> xlm
Worth == gift :> 1 @@ stray :> 2 @@ bare :> 1 @@ own :> 1
Sender == gift :> they @@ stray :> they @@ bare :> they @@ own :> we
Times == gift :> 2 @@ stray :> 1 @@ bare :> 1 @@ own :> 1
Receiver == gift :> we @@ stray :> they @@ bare :> we @@ own :> they

=============================================================================
