------------------------------ MODULE Snowstorm ------------------------------
(***************************************************************************)
(* The snowstorm graph driving the conflict manager: Add issues a tx into  *)
(* the graph and the manager; RecordPoll applies a poll's successful votes *)
(* to the per-tx snowball counters, conditionally accepts (Conflicts.      *)
(* Accept) every preferred tx whose confidence reached beta, and then      *)
(* calls Updateable until it returns nothing, accepting and rejecting what *)
(* it returns. Everything runs under the chain's context lock: no other    *)
(* call interleaves with the Updateable loop of a poll, which phase marks. *)
(***************************************************************************)
EXTENDS Conflicts

CONSTANTS
    BetaVirtuous,  \* consecutive successful polls to finalize a virtuous tx
    BetaRogue,     \* consecutive successful polls to finalize a rogue tx
    MaxPolls       \* bound on the number of polls in a behaviour

ASSUME BetaVirtuous \in Nat \ {0} /\ BetaRogue \in Nat /\ BetaVirtuous <= BetaRogue
ASSUME MaxPolls \in Nat

VARIABLES
    numSuccessfulPolls,  \* per tx, never decremented
    confidence,          \* per tx, consecutive successful polls
    rogue,               \* rogue[t]: t has had a processing conflict
    order,               \* txs in the order they were added (tie break)
    polls,               \* polls recorded so far
    phase,               \* "idle", or "sweep" while the Updateable loop runs
    turns                \* history: Updateable calls made by the current poll

sbVars == <<numSuccessfulPolls, confidence, rogue, order, polls>>
allVars == <<vars, sbVars, phase, turns>>

\* Position of t in the insertion order.
AddedAt(t) == CHOOSE i \in 1..Len(order) : order[i] = t

\* Processing txs that share an input with t.
ProcessingConflicts(t) == ConflictsOf(utxos, t) \ {t}

(***************************************************************************)
(* t is preferred under the counts n when it has more successful polls     *)
(* than each processing conflict, a tie going to the earlier-added tx.     *)
(***************************************************************************)
PreferredUnder(n, t) ==
    \A c \in ProcessingConflicts(t) :
        \/ n[t] > n[c]
        \/ n[t] = n[c] /\ AddedAt(t) < AddedAt(c)

Beta(t) == IF rogue[t] THEN BetaRogue ELSE BetaVirtuous

(***************************************************************************)
(* Graph.Add: the manager's Add, plus the graph's bookkeeping: t is rogue  *)
(* unless the manager finds it virtuous, and each of its processing        *)
(* conflicts becomes rogue.                                                *)
(***************************************************************************)
GraphAdd(t) ==
    /\ phase = "idle"
    /\ ValidToAdd(t)
    /\ Add(t)
    /\ status' = [status EXCEPT ![t] = "Processing"]
    /\ rogue' = [u \in Txs |->
                    IF u = t THEN ~IsVirtuous(t)
                    ELSE rogue[u] \/ u \in ProcessingConflicts(t)]
    /\ order' = Append(order, t)
    /\ UNCHANGED <<numSuccessfulPolls, confidence, polls, phase, turns>>

\* Txs whose snowball instance still takes votes: processing, not finalized.
Votable == {t \in txs : pendingAccept[t].state = "none"}

(***************************************************************************)
(* Graph.RecordPoll(votes): votes is the set of txs that got at least      *)
(* alpha votes. Each gets a successful poll; every other tx's confidence   *)
(* lapses. The txs that are now preferred with confidence >= beta are      *)
(* conditionally accepted, then the Updateable loop starts.                *)
(***************************************************************************)
RecordPoll(votes) ==
    LET n == [t \in Txs |-> IF t \in votes THEN numSuccessfulPolls[t] + 1
                                           ELSE numSuccessfulPolls[t]]
        c == [t \in Txs |-> IF t \in votes THEN confidence[t] + 1 ELSE 0]
        finalized == {t \in votes : PreferredUnder(n, t) /\ c[t] >= Beta(t)}
    IN  /\ phase = "idle"
        /\ polls < MaxPolls
        /\ votes \subseteq Votable
        /\ numSuccessfulPolls' = n
        /\ confidence' = c
        /\ SetCM(FoldSet(LAMBDA t, s : AcceptS(s, t), CMState, finalized))
        /\ polls' = polls + 1
        /\ phase' = "sweep"
        /\ turns' = 0
        /\ UNCHANGED <<status, rogue, order>>

(***************************************************************************)
(* One turn of the loop `for acc, rej := Updateable(); ...`: accept and    *)
(* reject what it returned; when it returned nothing the poll is done.     *)
(***************************************************************************)
SweepStep ==
    /\ phase = "sweep"
    /\ \E u \in {Updateable(CMState)} :
        /\ SetCM(u.state)
        /\ ApplyDecisions(u.accepted, u.rejected)
        /\ phase' = IF u.accepted = <<>> /\ u.rejected = <<>> THEN "idle" ELSE "sweep"
        /\ turns' = turns + 1
        /\ UNCHANGED sbVars

GraphInit ==
    /\ Init
    /\ numSuccessfulPolls = [t \in Txs |-> 0]
    /\ confidence = [t \in Txs |-> 0]
    /\ rogue = [t \in Txs |-> FALSE]
    /\ order = <<>>
    /\ polls = 0
    /\ phase = "idle"
    /\ turns = 0

GraphNext ==
    \/ \E t \in Txs : GraphAdd(t)
    \/ \E votes \in SUBSET Votable : RecordPoll(votes)
    \/ SweepStep

\* Adds and polls come from the network; nothing in the graph forces them.
GraphSpec == GraphInit /\ [][GraphNext]_allVars

-----------------------------------------------------------------------------
(***************************************************************************)
(* Conflict resolution (snowstorm invariant 2): when a poll has returned,  *)
(* every issued tx that shares an input with an accepted tx is rejected.   *)
(***************************************************************************)
ConflictsOfAcceptedRejected ==
    phase = "idle" =>
        \A t, u \in Txs :
            (t # u /\ status[t] = "Accepted" /\ status[u] # "Unknown"
                   /\ TxInputs(t) \cap TxInputs(u) # {})
                => status[u] = "Rejected"

(***************************************************************************)
(* RecordPoll returns: its `for` loop over Updateable stops. Every turn    *)
(* but the last hands back at least one tx that is then decided for good,  *)
(* so a poll makes at most one Updateable call per tx plus the final empty *)
(* one. A queue that is not cleared when it is taken breaks this.          *)
(***************************************************************************)
PollReturns == turns <= Cardinality(Txs) + 1

=============================================================================
