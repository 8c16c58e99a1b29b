----------------------------- MODULE MCControl -----------------------------
(* Instances of the control plane for TLC.                                  *)
EXTENDS ControlPlane, TLC

\* Users and workspaces but the first are alike, and so are rows and slots.
RowSymmetry ==
    Permutations(Users \ {Founder}) \cup Permutations(Invites)
        \cup Permutations(Transfers) \cup Permutations(Slots)
=============================================================================
