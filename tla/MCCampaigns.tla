---------------------------- MODULE MCCampaigns ----------------------------
(* Instances of the external account and the campaign item for TLC.         *)
EXTENDS Campaigns, TLC

SlotSymmetry == Permutations(Slots)
=============================================================================
