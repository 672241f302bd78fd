---------------------------- MODULE MCSnowstorm ----------------------------
(***************************************************************************)
(* Part of the consensus tests' conflict graph, R - G - B (inputs X, XY,  *)
(* YZ), and Purple (input W, depends on Red's transition), with the       *)
(* parameters of AcceptingDependencyTest: beta virtuous 1, beta rogue 2.  *)
(***************************************************************************)
EXTENDS Snowstorm

CONSTANTS Red, Green, Blue, Purple,
          trRed, trGreen, trBlue, trPurple,
          X, Y, Z, W

MCTxs == {Red, Green, Blue, Purple}
MCTrs == {trRed, trGreen, trBlue, trPurple}
MCInputs == {X, Y, Z, W}
MCTrOf == (Red :> trRed) @@ (Green :> trGreen) @@ (Blue :> trBlue) @@ (Purple :> trPurple)
MCInputIDs == (trRed :> {X}) @@ (trGreen :> {X, Y}) @@ (trBlue :> {Y, Z}) @@ (trPurple :> {W})
MCDependencies == [r \in MCTrs |-> IF r = trPurple THEN {trRed} ELSE {}]
MCEpochOf == [t \in MCTxs |-> 0]
=============================================================================
