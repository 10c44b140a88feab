-------------------------- MODULE MCCampaignStorage --------------------------
(***************************************************************************)
(* A small instance of CampaignStorage for TLC: one token is listed twice, *)
(* and is what Native stands for.                                          *)
(***************************************************************************)
EXTENDS CampaignStorage, TLC

CONSTANTS t1, t2

Tokens == {t1, t2}

Listings == <<t1, t2, t1>>

TwoSteps == <<2, 4>>

Symmetry == Permutations(Donor)

=============================================================================
