---------------------------- MODULE MCEpochRules ----------------------------
(***************************************************************************)
(* One managed asset created with a secp256k1fx state (fx 0) and an nftfx  *)
(* state (fx 1), in a VM that also registers propertyfx (fx 2).            *)
(***************************************************************************)
EXTENDS EpochRules

MCFxs == {0, 1, 2}
MCAssetFxs == [a \in Assets |-> {0, 1}]
=============================================================================
