-------------------------- MODULE MCDeferredProbe --------------------------
EXTENDS DeferredProbe, TLC

CONSTANTS a, b, c, ra, rb, rc, rx

(* b needs a; c needs b, and a driver that rejects c is tried first *)
ChainDevices == {a, b, c}
ChainDrivers == {ra, rb, rc, rx}
ChainDriversOf == a :> <<ra>> @@ b :> <<rb>> @@ c :> <<rx, rc>>
ChainNeeds == ra :> {} @@ rb :> {a} @@ rc :> {b} @@ rx :> {}

(* two drivers match b, and the first one waits for a *)
PairDevices == {a, b}
PairDrivers == {ra, rb, rx}
PairDriversOf == a :> <<ra>> @@ b :> <<rb, rx>>
PairNeeds == ra :> {} @@ rb :> {a} @@ rx :> {}
=============================================================================
