----------------------------- MODULE MCGroupTalk -----------------------------
(***************************************************************************)
(* GroupTalkProperties for TLC, with symmetric devices: a device occurs in *)
(* the model only as an index of the device's own state, and none of them  *)
(* differs from the others in Init.  Only safety runs use the symmetry.    *)
(***************************************************************************)
EXTENDS GroupTalkProperties, TLC

DeviceSymmetry == Permutations(Devices)
=============================================================================
