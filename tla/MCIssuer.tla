------------------------------ MODULE MCIssuer ------------------------------
(***************************************************************************)
(* Four vertices. v1 <- v2 <- v3 is a parent chain, so that dropping v1    *)
(* reaches v3 only through v2. v2 and v3 both depend on transition a: v2   *)
(* in epoch 0, where v1 issues it, v3 in epoch 1, where only v4 issues it. *)
(* v4 is from epoch 1, a future epoch until the chain advances.            *)
(***************************************************************************)
EXTENDS Issuer, TLC

CONSTANTS v1, v2, v3, v4, a, b, c, d

MCVtxs == {v1, v2, v3, v4}
MCTrs == {a, b, c, d}
MCParents == (v1 :> {} @@ v2 :> {v1} @@ v3 :> {v2} @@ v4 :> {})
MCTxTrs == (v1 :> {a} @@ v2 :> {b} @@ v3 :> {c} @@ v4 :> {a, d})
MCTrDeps == (v1 :> {} @@ v2 :> {a} @@ v3 :> {a} @@ v4 :> {})
MCVtxEpoch == (v1 :> 0 @@ v2 :> 0 @@ v3 :> 1 @@ v4 :> 1)

=============================================================================
