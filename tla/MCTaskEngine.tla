---------------------------- MODULE MCTaskEngine -----------------------------
(* An instance of TaskEngine: two emissions of one step (they share the key) *)
(* and one fault of every kind.                                              *)
EXTENDS TaskEngine, TLC

CONSTANTS e1, e2, k1, w1, w2

MCEvents == {e1, e2}
MCKeys == {k1}
MCKeyOf == e1 :> k1 @@ e2 :> k1
MCWorkers == {w1, w2}

OneOfEach == [f \in FaultKinds |-> 1]
==============================================================================
