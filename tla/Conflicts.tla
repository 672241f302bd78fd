------------------------------ MODULE Conflicts ------------------------------
(***************************************************************************)
(* The snowstorm conflict manager (conflicts.Conflicts): the set of        *)
(* processing transactions, the input -> spenders index, the two event     *)
(* blockers pendingAccept / pendingReject and the acceptable / rejectable  *)
(* queues that Updateable drains.                                          *)
(*                                                                         *)
(* The caller of this module is the snowstorm graph; here it is any caller *)
(* that honours the preconditions written in the comments of Add, Accept   *)
(* and Updateable, and that applies every returned decision to the        *)
(* transaction (tx.Accept() / tx.Reject()) before its next call.           *)
(***************************************************************************)
EXTENDS Naturals, FiniteSets, Sequences, SequencesExt, FiniteSetsExt

CONSTANTS
    Txs,           \* transaction ids (Tx.ID())
    Trs,           \* transition ids (Transition.ID())
    Inputs,        \* UTXO input ids
    TrOf,          \* TrOf[t]: the transition that tx t presents
    InputIDs,      \* InputIDs[r]: the inputs transition r consumes
    Dependencies,  \* Dependencies[r]: the transitions r depends on
    EpochOf        \* EpochOf[t]: the epoch tx t is issued in

ASSUME TrOf \in [Txs -> Trs]
ASSUME InputIDs \in [Trs -> SUBSET Inputs] /\ \A r \in Trs : InputIDs[r] # {}
ASSUME Dependencies \in [Trs -> SUBSET Trs]
ASSUME EpochOf \in [Txs -> Nat]
\* A tx id is the hash of the tx bytes, a transition id the hash of the
\* transition bytes: the two id spaces do not meet.
ASSUME Txs \cap Trs = {}

TxInputs(t) == InputIDs[TrOf[t]]
TxDeps(t)   == Dependencies[TrOf[t]]

VARIABLES
    txs,            \* processing txs (c.txs)
    utxos,          \* utxos[i]: processing txs spending input i (c.utxos)
    pendingAccept,  \* pendingAccept[t]: the acceptor registered for t
    pendingReject,  \* pendingReject[t]: the rejector registered for t
    acceptable,     \* c.acceptable
    rejectable,     \* c.rejectable
    status          \* status[t]: the Decidable status of tx t

cmVars == <<txs, utxos, pendingAccept, pendingReject, acceptable, rejectable>>
vars == <<cmVars, status>>

Statuses == {"Unknown", "Processing", "Accepted", "Rejected"}

(***************************************************************************)
(* A blocker entry (acceptor or rejector): the ids it still waits on and   *)
(* whether it is waiting, has fired its callback, or was abandoned.        *)
(***************************************************************************)
EntryStates == {"none", "waiting", "fired", "abandoned"}
Entry == [deps : SUBSET (Txs \cup Trs), state : EntryStates]
NoEntry == [deps |-> {}, state |-> "none"]

(***************************************************************************)
(* The status of a transition, as the Transition collaborator reports it:  *)
(* accepted once a tx presenting it is accepted, processing while one is,  *)
(* rejected once every issued tx presenting it is rejected.                *)
(***************************************************************************)
TrStatus(r) ==
    LET ss == {status[t] : t \in {u \in Txs : TrOf[u] = r}}
    IN  IF "Accepted" \in ss THEN "Accepted"
        ELSE IF "Processing" \in ss THEN "Processing"
        ELSE IF "Rejected" \in ss THEN "Rejected"
        ELSE "Unknown"

\* Dependencies of t that are not accepted (Add and Accept register on them).
UnacceptedDeps(t) == {d \in TxDeps(t) : TrStatus(d) # "Accepted"}

\* Fault variant of Add: the rejector is registered on the inputs instead of
\* on the tx and its dependencies.
AddRejectOnInputs(t) ==
    /\ txs' = txs \cup {t}
    /\ utxos' = [i \in Inputs |-> IF i \in TxInputs(t) THEN utxos[i] \cup {t}
                                                       ELSE utxos[i]]
    /\ pendingReject' = [pendingReject EXCEPT ![t] =
                            [deps |-> TxInputs(t), state |-> "waiting"]]
    /\ UNCHANGED <<pendingAccept, acceptable, rejectable>>

(***************************************************************************)
(* Conflicts.Add (conflicts.go:49-81): record t as processing, index it    *)
(* under each of its inputs, and register its rejector on t itself and on  *)
(* every unaccepted dependency.                                            *)
(***************************************************************************)
Add(t) ==
    /\ txs' = txs \cup {t}
    /\ utxos' = [i \in Inputs |-> IF i \in TxInputs(t) THEN utxos[i] \cup {t}
                                                       ELSE utxos[i]]
    /\ pendingReject' = [pendingReject EXCEPT ![t] =
                            [deps |-> {t} \cup UnacceptedDeps(t), state |-> "waiting"]]
    /\ UNCHANGED <<pendingAccept, acceptable, rejectable>>

(***************************************************************************)
(* Conflicts.IsVirtuous (conflicts.go:85-97): no input of t has a key in   *)
(* c.utxos. Updateable deletes a key whose spender set becomes empty, so a *)
(* key exists exactly when some processing tx spends the input.            *)
(***************************************************************************)
IsVirtuous(t) == \A i \in TxInputs(t) : utxos[i] = {}

(***************************************************************************)
(* conflicts(tx) (conflicts.go:110-116): the union of the spender sets of  *)
(* the inputs of t, t itself included when it is still indexed.            *)
(***************************************************************************)
ConflictsOf(u, t) == UNION {u[i] : i \in TxInputs(t)}

(***************************************************************************)
(* Conflicts.Accept (conflicts.go:123-139): register an acceptor for t on  *)
(* its unaccepted dependencies; Blocker.Register calls Update, so an       *)
(* acceptor with nothing to wait on fires at once and queues t.            *)
(***************************************************************************)
\* Fault variant of Accept: the dependency loop is dropped.
AcceptIgnoringDeps(s, t) ==
    [s EXCEPT !.pa = [s.pa EXCEPT ![t] = [deps |-> {}, state |-> "fired"]],
              !.acceptable = Append(s.acceptable, t)]

AcceptS(s, t) ==
    LET deps == UnacceptedDeps(t)
    IN  [s EXCEPT
            !.pa = [s.pa EXCEPT ![t] =
                        [deps |-> deps, state |-> IF deps = {} THEN "fired" ELSE "waiting"]],
            !.acceptable = IF deps = {} THEN Append(s.acceptable, t) ELSE s.acceptable]

(***************************************************************************)
(* The blockers. Fulfill(id) and Abandon(id) notify every entry still      *)
(* waiting on id (Blocker deletes the key, so each entry hears of an id    *)
(* once). An acceptor fires once it waits on nothing; a rejector fires on  *)
(* the first fulfilled id (its tx or one of its dependencies was           *)
(* rejected). Abandoned entries never fire. The state s is a record of the *)
(* manager's fields, threaded through the loops of Updateable.             *)
(***************************************************************************)
\* The txs of a set as a sequence, in a fixed order (Go map iteration order
\* does not matter here: the queued decisions commute).
RECURSIVE AsSeq(_)
AsSeq(S) == IF S = {} THEN <<>>
            ELSE LET t == CHOOSE x \in S : TRUE IN <<t>> \o AsSeq(S \ {t})

Waiting(bl, id) == {t \in Txs : bl[t].state = "waiting" /\ id \in bl[t].deps}

FulfillAccept(s, id) ==
    LET hit  == Waiting(s.pa, id)
        fire == {t \in hit : s.pa[t].deps = {id}}
    IN  [s EXCEPT
            !.pa = [t \in Txs |-> IF t \in hit
                        THEN [deps |-> s.pa[t].deps \ {id},
                              state |-> IF t \in fire THEN "fired" ELSE "waiting"]
                        ELSE s.pa[t]],
            !.acceptable = s.acceptable \o AsSeq(fire)]

AbandonAccept(s, id) ==
    LET hit == Waiting(s.pa, id)
    IN  [s EXCEPT !.pa = [t \in Txs |-> IF t \in hit
                            THEN [s.pa[t] EXCEPT !.state = "abandoned"]
                            ELSE s.pa[t]]]

FulfillReject(s, id) ==
    LET hit == Waiting(s.pr, id)
    IN  [s EXCEPT
            !.pr = [t \in Txs |-> IF t \in hit
                        THEN [deps |-> s.pr[t].deps \ {id}, state |-> "fired"]
                        ELSE s.pr[t]],
            !.rejectable = s.rejectable \o AsSeq(hit)]

AbandonReject(s, id) ==
    LET hit == Waiting(s.pr, id)
    IN  [s EXCEPT !.pr = [t \in Txs |-> IF t \in hit
                            THEN [s.pr[t] EXCEPT !.state = "abandoned"]
                            ELSE s.pr[t]]]

\* Remove t from the processing set and from the spender set of each input.
RemoveSpender(s, t) ==
    [s EXCEPT !.txs = s.txs \ {t},
              !.utxos = [i \in Inputs |-> IF i \in TxInputs(t) THEN s.utxos[i] \ {t}
                                                               ELSE s.utxos[i]]]

\* Fault variant: the conflicts of the accepted tx are not notified.
AcceptOneSkipConflicts(s, t) ==
    AbandonReject(FulfillAccept(RemoveSpender(s, t), t), t)

\* Notify the rejectors waiting on each of the ids.
RECURSIVE FulfillRejectAll(_, _)
FulfillRejectAll(s, ids) ==
    IF ids = {} THEN s
    ELSE LET id == CHOOSE x \in ids : TRUE
         IN  FulfillRejectAll(FulfillReject(s, id), ids \ {id})

\* Fault variant: the accepted tx's own rejector is fulfilled, not abandoned.
AcceptOneFulfillOwn(s, t) ==
    LET s1 == FulfillReject(FulfillAccept(RemoveSpender(s, t), t), t)
    IN  FulfillRejectAll(s1, ConflictsOf(s1.utxos, t))

\* One iteration of the acceptable loop of Updateable (conflicts.go:144-167).
AcceptOne(s, t) ==
    LET s1 == AbandonReject(FulfillAccept(RemoveSpender(s, t), t), t)
    IN  FulfillRejectAll(s1, ConflictsOf(s1.utxos, t))

\* Fault variant: a rejected tx is dropped from txs but left in utxos.
RejectOneKeepSpender(s, t) ==
    FulfillReject(AbandonAccept([s EXCEPT !.txs = s.txs \ {t}], t), t)

\* One iteration of the rejectable loop of Updateable (conflicts.go:171-190).
RejectOne(s, t) ==
    FulfillReject(AbandonAccept(RemoveSpender(s, t), t), t)

CMState == [txs |-> txs, utxos |-> utxos, pa |-> pendingAccept,
            pr |-> pendingReject, acceptable |-> acceptable, rejectable |-> rejectable]

RECURSIVE AcceptLoop(_, _)
AcceptLoop(s, l) == IF l = <<>> THEN s ELSE AcceptLoop(AcceptOne(s, Head(l)), Tail(l))

RECURSIVE RejectLoop(_, _)
RejectLoop(s, l) == IF l = <<>> THEN s ELSE RejectLoop(RejectOne(s, Head(l)), Tail(l))

\* Fault variant: c.rejectable is not reset after it is taken.
UpdateableKeepRejectable(s) ==
    LET a == AcceptLoop([s EXCEPT !.acceptable = <<>>], s.acceptable)
        r == RejectLoop(a, a.rejectable)
    IN  [state |-> r, accepted |-> s.acceptable, rejected |-> a.rejectable]

\* Fault variant: c.acceptable is not reset after it is taken.
UpdateableKeepAcceptable(s) ==
    LET a == AcceptLoop(s, s.acceptable)
        r == RejectLoop([a EXCEPT !.rejectable = <<>>], a.rejectable)
    IN  [state |-> r, accepted |-> s.acceptable, rejected |-> a.rejectable]

(***************************************************************************)
(* Conflicts.Updateable (conflicts.go:141-193) on state s: take and clear  *)
(* acceptable, run its loop, then take and clear rejectable (which now     *)
(* holds what the first loop queued) and run that loop. Returns the new    *)
(* state and the two lists it hands back to the caller.                    *)
(***************************************************************************)
Updateable(s) ==
    LET a == AcceptLoop([s EXCEPT !.acceptable = <<>>], s.acceptable)
        r == RejectLoop([a EXCEPT !.rejectable = <<>>], a.rejectable)
    IN  [state |-> r, accepted |-> s.acceptable, rejected |-> a.rejectable]

\* Make s the manager's next state (bound once, so that it is evaluated once).
SetCM(s) ==
    \E r \in {s} :
        /\ txs' = r.txs
        /\ utxos' = r.utxos
        /\ pendingAccept' = r.pa
        /\ pendingReject' = r.pr
        /\ acceptable' = r.acceptable
        /\ rejectable' = r.rejectable

Accept(t) == SetCM(AcceptS(CMState, t))

(***************************************************************************)
(* The caller applies what Updateable returned, in order: tx.Accept() for  *)
(* each acceptable tx, then tx.Reject() for each rejectable one.           *)
(***************************************************************************)
ApplyDecisions(acc, rej) ==
    status' = [t \in Txs |-> IF t \in ToSet(rej) THEN "Rejected"
                             ELSE IF t \in ToSet(acc) THEN "Accepted"
                             ELSE status[t]]

-----------------------------------------------------------------------------
(***************************************************************************)
(* The caller. It adds a tx that is valid (its dependencies are issued and *)
(* not rejected, none of its inputs is consumed by an accepted tx) and not *)
(* yet processing; it conditionally accepts a processing tx at most once,  *)
(* never one it was told to reject, and never two that conflict; it calls  *)
(* Updateable and applies the result.                                      *)
(***************************************************************************)
(***************************************************************************)
(* The epoch a transition was accepted in: that of its accepted tx.        *)
(***************************************************************************)
AcceptedEpoch(r) ==
    LET acc == {t \in Txs : TrOf[t] = r /\ status[t] = "Accepted"}
    IN  IF acc = {} THEN 0 ELSE EpochOf[CHOOSE t \in acc : TRUE]

\* Tx verification: a dependency accepted in a later epoch makes the UTXO
\* unusable in the tx's epoch (getUTXO, errInvalidUTXOEpoch).
ValidToAdd(t) ==
    /\ status[t] = "Unknown"
    /\ \A d \in TxDeps(t) : TrStatus(d) \in {"Processing", "Accepted"}
    /\ \A d \in TxDeps(t) : TrStatus(d) = "Accepted" => AcceptedEpoch(d) <= EpochOf[t]
    /\ \A u \in Txs : status[u] = "Accepted" => TxInputs(u) \cap TxInputs(t) = {}

IssueTx(t) ==
    /\ ValidToAdd(t)
    /\ Add(t)
    /\ status' = [status EXCEPT ![t] = "Processing"]

ConditionallyAccept(t) ==
    /\ t \in txs
    /\ pendingAccept[t].state = "none"
    /\ t \notin ToSet(rejectable)
    /\ \A c \in ConflictsOf(utxos, t) \ {t} : pendingAccept[c].state = "none"
    /\ Accept(t)
    /\ UNCHANGED status

Sweep ==
    /\ acceptable # <<>> \/ rejectable # <<>>
    /\ \E u \in {Updateable(CMState)} :
        /\ SetCM(u.state)
        /\ ApplyDecisions(u.accepted, u.rejected)

Init ==
    /\ txs = {}
    /\ utxos = [i \in Inputs |-> {}]
    /\ pendingAccept = [t \in Txs |-> NoEntry]
    /\ pendingReject = [t \in Txs |-> NoEntry]
    /\ acceptable = <<>>
    /\ rejectable = <<>>
    /\ status = [t \in Txs |-> "Unknown"]

Next ==
    \/ \E t \in Txs : IssueTx(t)
    \/ \E t \in Txs : ConditionallyAccept(t)
    \/ Sweep

Spec == Init /\ [][Next]_vars

-----------------------------------------------------------------------------
TypeOK ==
    /\ txs \subseteq Txs
    /\ utxos \in [Inputs -> SUBSET Txs]
    /\ pendingAccept \in [Txs -> Entry]
    /\ pendingReject \in [Txs -> Entry]
    /\ acceptable \in Seq(Txs)
    /\ rejectable \in Seq(Txs)
    /\ status \in [Txs -> Statuses]

(***************************************************************************)
(* Unique spender acceptance: no input is consumed by two accepted txs.    *)
(* It rests on Updateable rejecting every conflict of an accepted tx       *)
(* (the pendingReject.Fulfill loop) before a later sweep can accept it.    *)
(***************************************************************************)
UniqueSpenderAcceptance ==
    \A t, u \in Txs :
        (t # u /\ status[t] = "Accepted" /\ status[u] = "Accepted")
            => TxInputs(t) \cap TxInputs(u) = {}

(***************************************************************************)
(* Symmetric removal: the manager's processing set is exactly the txs the  *)
(* caller still sees processing, and the spender index holds exactly the   *)
(* processing txs under each of their inputs: a tx Updateable drained is   *)
(* gone from txs and from every bucket of utxos.                           *)
(***************************************************************************)
IndexConsistent ==
    /\ txs = {t \in Txs : status[t] = "Processing"}
    /\ \A i \in Inputs : utxos[i] = {t \in txs : i \in TxInputs(t)}

(***************************************************************************)
(* Each tx is queued for a decision at most once, only while it is still   *)
(* processing, and never for both acceptance and rejection: the acceptor   *)
(* and rejector callbacks fire once and the Abandon calls of Updateable    *)
(* switch off the opposite entry.                                          *)
(***************************************************************************)
DecisionQueuedOnce ==
    /\ IsInjective(acceptable \o rejectable)
    /\ ToSet(acceptable \o rejectable) \subseteq txs

(***************************************************************************)
(* No orphan acceptance: an accepted tx has every dependency accepted.     *)
(***************************************************************************)
NoOrphanAcceptance ==
    \A t \in Txs : status[t] = "Accepted" =>
        \A d \in TxDeps(t) : TrStatus(d) = "Accepted"

(***************************************************************************)
(* Dependency decisions propagate (spec scenarios 4 and 5): once every     *)
(* transition an acceptor waits on is accepted, the acceptor has fired     *)
(* (AcceptingDependencyTest: Purple is accepted once Red is); and a        *)
(* processing tx with a rejected dependency has had its rejector fire      *)
(* (RejectingDependencyTest: Purple is rejected when Red and Blue are).    *)
(* Accept and Add register both blockers on the ids of the dependency      *)
(* transitions; Updateable fulfils them with the ids of the decided txs.   *)
(***************************************************************************)
DependencyDecisionsPropagate ==
    /\ \A t \in Txs : pendingAccept[t].state = "waiting" =>
          \E d \in pendingAccept[t].deps : TrStatus(d) # "Accepted"
    /\ \A t \in Txs :
          (status[t] = "Processing" /\ \E d \in TxDeps(t) : TrStatus(d) = "Rejected")
              => pendingReject[t].state = "fired"

-----------------------------------------------------------------------------
(***************************************************************************)
(* The refinement mapping: the abstract processing set is the manager's    *)
(* own c.txs, and the decided sets are read from the txs' statuses.        *)
(***************************************************************************)
Abstract == INSTANCE AbstractConflicts
                WITH processing <- txs,
                     accepted <- {t \in Txs : status[t] = "Accepted"},
                     rejected <- {t \in Txs : status[t] = "Rejected"}

(***************************************************************************)
(* Conflicts implements AbstractConflicts: every Add is an abstract Issue, *)
(* every Updateable whose decisions the caller applies is one abstract     *)
(* Decide, and Accept only changes the blockers. So a tx leaves c.txs     *)
(* exactly when it is decided, never returns, is accepted only after its   *)
(* dependencies with no accepted conflict, and is rejected only for an    *)
(* accepted conflict or a rejected dependency: no spurious rejection.      *)
(***************************************************************************)
RefinesAbstract == Abstract!Spec

=============================================================================
