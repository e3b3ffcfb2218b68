-------------------------- MODULE MCModelCapacity --------------------------
(* An instance of ModelCapacity for TLC: m1 is the only model of provider  *)
(* p and takes two lanes; m2 takes one and is the only model of family g;  *)
(* m3 has no cap.  The second seat must be independent of m1, so m2 is its *)
(* only model, and two dispatchers meet there.                             *)
EXTENDS ModelCapacity, TLC

CONSTANTS m1, m2, m3

MCCap == (m1 :> 2) @@ (m2 :> 1) @@ (m3 :> Unlimited)
MCProvider == (m1 :> "p") @@ (m2 :> "q") @@ (m3 :> "q")
MCFamily == (m1 :> "f") @@ (m2 :> "g") @@ (m3 :> "f")
MCIndependentOf == <<{}, {m1}>>
=============================================================================
