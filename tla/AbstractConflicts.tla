-------------------------- MODULE AbstractConflicts --------------------------
(***************************************************************************)
(* What the conflict manager promises its caller, with no blockers, no     *)
(* queues and no index: a tx is issued once and becomes processing, and   *)
(* a set of processing txs is decided at once. A tx is accepted only when  *)
(* every transition it depends on is accepted and no tx spending one of    *)
(* its inputs is accepted; it is rejected only because a conflicting tx is *)
(* accepted or a transition it depends on is rejected. A decided tx stays  *)
(* decided. Conflicts (conflicts.go) is shown to implement this module.    *)
(***************************************************************************)
EXTENDS FiniteSets

CONSTANTS Txs, Trs, Inputs, TrOf, InputIDs, Dependencies

VARIABLES
    processing,  \* txs issued and not yet decided
    accepted,    \* txs decided accepted
    rejected     \* txs decided rejected

avars == <<processing, accepted, rejected>>

Issued == processing \cup accepted \cup rejected

Conflicting(t, u) == t # u /\ InputIDs[TrOf[t]] \cap InputIDs[TrOf[u]] # {}

\* A transition is accepted with any tx presenting it, and rejected once
\* it was presented and every tx presenting it is rejected.
TrAccepted(r, acc) == \E t \in acc : TrOf[t] = r
TrRejected(r, rej) ==
    LET ts == {t \in Issued : TrOf[t] = r} IN ts # {} /\ ts \subseteq rej

\* A new tx: its dependencies are presented and not rejected, and none of
\* its inputs is spent by an accepted tx.
Issue(t) ==
    /\ t \notin Issued
    /\ \A d \in Dependencies[TrOf[t]] :
          \E u \in processing \cup accepted : TrOf[u] = d
    /\ \A u \in accepted : ~Conflicting(t, u)
    /\ processing' = processing \cup {t}
    /\ UNCHANGED <<accepted, rejected>>

(***************************************************************************)
(* Decide the processing txs A accepted and R rejected, in one step. The  *)
(* conditions are read in the state after the step, so that a tx may be    *)
(* accepted together with its dependency, or rejected together with the   *)
(* conflict that is accepted.                                              *)
(***************************************************************************)
Decide(A, R) ==
    LET acc == accepted \cup A
        rej == rejected \cup R
    IN  /\ A \cup R # {}
        /\ A \cap R = {}
        /\ \A t \in A :
              /\ \A d \in Dependencies[TrOf[t]] : TrAccepted(d, acc)
              /\ \A u \in acc : ~Conflicting(t, u)
        /\ \A t \in R :
              \/ \E u \in acc : Conflicting(t, u)
              \/ \E d \in Dependencies[TrOf[t]] : TrRejected(d, rej)
        /\ processing' = processing \ (A \cup R)
        /\ accepted' = acc
        /\ rejected' = rej

Init ==
    /\ processing = {}
    /\ accepted = {}
    /\ rejected = {}

Next ==
    \/ \E t \in Txs : Issue(t)
    \/ \E A, R \in SUBSET processing : Decide(A, R)

Spec == Init /\ [][Next]_avars

=============================================================================
