---------------------------- MODULE MCConflicts ----------------------------
(***************************************************************************)
(* The conflict graph of the snowstorm consensus tests (consensus_test.go  *)
(* Setup): Red, Green, Blue and Alpha with inputs X, XY, YZ and Z, plus    *)
(* Purple, which spends W and depends on Red's transition                  *)
(* (AcceptingDependencyTest).                                              *)
(***************************************************************************)
EXTENDS Conflicts

CONSTANTS Red, Green, Blue, Alpha, Purple,
          trRed, trGreen, trBlue, trAlpha, trPurple,
          X, Y, Z, W

MCTxs == {Red, Green, Blue, Alpha, Purple}
MCTrs == {trRed, trGreen, trBlue, trAlpha, trPurple}
MCInputs == {X, Y, Z, W}
MCTrOf == (Red :> trRed) @@ (Green :> trGreen) @@ (Blue :> trBlue)
          @@ (Alpha :> trAlpha) @@ (Purple :> trPurple)
MCInputIDs == (trRed :> {X}) @@ (trGreen :> {X, Y}) @@ (trBlue :> {Y, Z})
              @@ (trAlpha :> {Z}) @@ (trPurple :> {W})
MCDependencies == [r \in MCTrs |-> IF r = trPurple THEN {trRed} ELSE {}]
MCEpochOf == [t \in MCTxs |-> 0]
=============================================================================
