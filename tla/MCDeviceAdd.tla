---------------------------- MODULE MCDeviceAdd ----------------------------
EXTENDS DeviceAdd, TLC

CONSTANTS bridge, a, b, c

(* a bridge with two devices of one class below it, and one below the first *)
Family == {bridge, a, b, c}
FamilyParent == bridge :> None @@ a :> bridge @@ b :> bridge @@ c :> a
=============================================================================
