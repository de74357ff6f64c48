----------------------------- MODULE MCDataEntry -----------------------------
(* A contact, two invoices that share their number, an incomplete contact    *)
(* and a row of another kind.  alice is the client of two of them.           *)
EXTENDS DataEntry, TLC

CONSTANTS c1, c2, v1, v2, x1, w1, w2, alice, bob, n1, n2

MCRecords == {c1, c2, v1, v2, x1}
MCTarget == c1 :> "contact" @@ c2 :> "contact" @@ v1 :> "invoice"
              @@ v2 :> "invoice" @@ x1 :> "other"
MCEmail == c1 :> alice @@ c2 :> bob @@ v1 :> bob @@ v2 :> alice
              @@ x1 :> bob
MCNumber == v1 :> n1 @@ v2 :> n1 @@ [r \in MCRecords |-> n2]
MCComplete == MCRecords \ {c2}
MCWorkers == {w1, w2}
==============================================================================
