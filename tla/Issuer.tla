------------------------------- MODULE Issuer -------------------------------
(***************************************************************************)
(* The avalanche vertex issuer (snow/engine/avalanche/issuer.go) inside    *)
(* the transitive engine. A received vertex gets an issuer that waits, via *)
(* the engine's vtxBlocked blocker, for its parent vertices and, via       *)
(* trBlocked, for the transitions it depends on to be issued into its      *)
(* epoch. Update then verifies the vertex's txs, re-batches what it can,   *)
(* drops the vertex or adds it to consensus, and notifies the waiters.     *)
(*                                                                         *)
(* Every call runs under the chain's context lock. Blocker callbacks run   *)
(* synchronously inside the call that fires them; the model queues the     *)
(* issuers whose Update a callback calls in toUpdate and lets no other     *)
(* call start until the queue is empty.                                    *)
(***************************************************************************)
EXTENDS Naturals, FiniteSets

CONSTANTS
    Vtxs,       \* vertex ids
    Trs,        \* transition ids (one tx per transition in a vertex)
    Parents,    \* Parents[v]: the parent vertices of v
    TxTrs,      \* TxTrs[v]: the transitions of the txs of v
    TrDeps,     \* TrDeps[v]: the transitions the txs of v depend on
    VtxEpoch,   \* VtxEpoch[v]: the epoch v was built in
    MaxEpoch    \* the last epoch the chain reaches

Epochs == 0..MaxEpoch
NotAccepted == MaxEpoch + 1

ASSUME /\ Parents \in [Vtxs -> SUBSET Vtxs]
       /\ TxTrs \in [Vtxs -> SUBSET Trs]
       /\ TrDeps \in [Vtxs -> SUBSET Trs]
       /\ VtxEpoch \in [Vtxs -> Epochs]

VARIABLES
    received,      \* vertices the engine has made an issuer for
    pending,       \* t.pending: vertices waiting to be issued
    vtxDeps,       \* vtxDeps[v]: parents v still waits on (vtxBlocked)
    unfulfilled,   \* unfulfilledDeps[v]: transitions not yet in v's epoch
    trWait,        \* trDeps of v still registered in trBlocked
    updatedEpoch,  \* updatedEpoch[v]
    issued,        \* issuers whose Update got past its guard
    abandoned,     \* issuers that were abandoned
    consensus,     \* vertices added to consensus
    trIssued,      \* <<tr, e>>: markIssued(tr, e) has been called
    accepted,      \* accepted[tr]: epoch tr was accepted in, or NotAccepted
    currentEpoch,  \* Ctx.Epoch()
    errored,       \* t.errs.Errored()
    abandonedVertices, \* t.abandonedVertices
    batches,       \* calls of t.batch, as records
    requestID,     \* t.RequestID
    queries,       \* <<requestID, vtx>> of every PushQuery sent
    missing,       \* missing[e]: t.missingTransitions[e]
    toUpdate       \* issuers whose Update a blocker callback has called

vars == <<received, pending, vtxDeps, unfulfilled, trWait, updatedEpoch, issued,
          abandoned, consensus, trIssued, accepted, currentEpoch, errored,
          abandonedVertices, batches, requestID, queries, missing, toUpdate>>

-----------------------------------------------------------------------------
\* Consensus.TransitionProcessing: in a vertex of consensus and not decided.
TransitionProcessing(tr) ==
    /\ \E u \in consensus : tr \in TxTrs[u]
    /\ accepted[tr] = NotAccepted

\* Issuers still registered in vtxBlocked under id: the ones waiting on it.
Waiters(ids) == {w \in received \ abandoned : vtxDeps[w] \cap ids # {}}

(***************************************************************************)
(* The issuers an abandonment reaches: issuer.Abandon calls                *)
(* vtxBlocked.Abandon on its own id, whose waiters are abandoned in turn.  *)
(***************************************************************************)
RECURSIVE AbandonClosure(_)
AbandonClosure(S) ==
    IF Waiters(S) \subseteq S THEN S ELSE AbandonClosure(S \cup Waiters(S))

\* Fault variant: only the direct waiters of id are abandoned.
VtxBlockedAbandonDirect(id) == Waiters({id})

\* vtxBlocked.Abandon(id): every issuer waiting on id, transitively.
VtxBlockedAbandon(id) == AbandonClosure(Waiters({id}))

\* The issuers issuer.Abandon (issuer.go:57-64) of v marks abandoned.
Abandon(v) == IF v \in abandoned THEN {} ELSE {v} \cup VtxBlockedAbandon(v)

\* Fault variant: Update does not wait for the parent vertices.
CanIssueIgnoringParents(v) ==
    /\ v \notin abandoned
    /\ v \notin issued
    /\ unfulfilled[v] = {}
    /\ v \notin consensus
    /\ ~errored

\* Fault variant: Update waits on every transition registered in trBlocked.
CanIssueAllTrDeps(v) ==
    /\ v \notin abandoned
    /\ v \notin issued
    /\ vtxDeps[v] = {}
    /\ trWait[v] = {}
    /\ v \notin consensus
    /\ ~errored

\* The guard of Update (issuer.go:68).
CanIssue(v) ==
    /\ v \notin abandoned
    /\ v \notin issued
    /\ vtxDeps[v] = {}
    /\ unfulfilled[v] = {}
    /\ v \notin consensus
    /\ ~errored

Quiet == toUpdate = {}

\* A call of t.batch(epoch, transitions, restrictions, force, ...).
Batch(e, trs, restr, force) ==
    [epoch |-> e, at |-> currentEpoch, trs |-> trs, restrictions |-> restr,
     force |-> force]

\* The transitions of v's txs not processing in consensus (issuer.go:100).
Unissued(v) == {tr \in TxTrs[v] : ~TransitionProcessing(tr)}

\* Whether Update re-batches v's unissued transitions (issuer.go:144).
NeedsReissue(v) == VtxEpoch[v] # currentEpoch /\ Unissued(v) # {}

\* The forced re-batch into the current epoch, when it is needed and done.
Reissue(v) ==
    batches' = IF NeedsReissue(v)
               THEN batches \cup {Batch(currentEpoch, Unissued(v), {}, TRUE)}
               ELSE batches

(***************************************************************************)
(* Update entered with its guard false returns at once (issuer.go:68-70).  *)
(***************************************************************************)
UpdateSkip(v) ==
    /\ v \in toUpdate
    /\ ~CanIssue(v)
    /\ toUpdate' = toUpdate \ {v}
    /\ UNCHANGED <<received, pending, vtxDeps, unfulfilled, trWait, updatedEpoch,
                   issued, abandoned, consensus, trIssued, accepted, currentEpoch,
                   errored, abandonedVertices, batches, requestID, queries, missing>>

(***************************************************************************)
(* Update past its guard: issued is set and the vertex leaves pending      *)
(* (issuer.go:72-75) before anything can fail.                             *)
(***************************************************************************)
Begin(v) ==
    /\ v \in toUpdate
    /\ CanIssue(v)
    /\ issued' = issued \cup {v}

(***************************************************************************)
(* vtx.Txs() or vtx.Epoch() fails (issuer.go:78-82, 105-109): the error is *)
(* recorded and Update returns; the vertex's waiters are never told.       *)
(***************************************************************************)
UpdateError(v) ==
    /\ Begin(v)
    /\ pending' = pending \ {v}
    /\ errored' = TRUE
    /\ toUpdate' = toUpdate \ {v}
    /\ UNCHANGED <<received, vtxDeps, unfulfilled, trWait, updatedEpoch, abandoned,
                   consensus, trIssued, accepted, currentEpoch, abandonedVertices,
                   batches, requestID, queries, missing>>

(***************************************************************************)
(* Some txs fail Verify (issuer.go:89-97, 113-137): the valid transitions  *)
(* are batched in the vertex's epoch, with the invalid ones as restriction *)
(* if updatedEpoch, and the vertex's waiters are abandoned. A failing      *)
(* batch only records its error.                                           *)
(***************************************************************************)
UpdateInvalid(v, invalid, batchOK) ==
    LET restr == IF updatedEpoch[v] THEN invalid ELSE {}
        dropped == VtxBlockedAbandon(v)
    IN  /\ Begin(v)
        /\ invalid # {}
        /\ batches' = IF batchOK
                      THEN batches \cup {Batch(VtxEpoch[v], TxTrs[v] \ invalid, restr, FALSE)}
                      ELSE batches
        /\ errored' = (errored \/ ~batchOK)
        /\ abandonedVertices' = TRUE
        /\ abandoned' = abandoned \cup dropped
        /\ pending' = pending \ ({v} \cup dropped)
        /\ toUpdate' = toUpdate \ {v}
        /\ UNCHANGED <<received, vtxDeps, unfulfilled, trWait, updatedEpoch, consensus,
                       trIssued, accepted, currentEpoch, requestID, queries, missing>>

(***************************************************************************)
(* All txs verify, the vertex is not of the current epoch and the forced   *)
(* re-batch of its unissued transitions fails (issuer.go:144-156).         *)
(***************************************************************************)
UpdateReissueError(v) ==
    /\ Begin(v)
    /\ NeedsReissue(v)
    /\ pending' = pending \ {v}
    /\ errored' = TRUE
    /\ toUpdate' = toUpdate \ {v}
    /\ UNCHANGED <<received, vtxDeps, unfulfilled, trWait, updatedEpoch, abandoned,
                   consensus, trIssued, accepted, currentEpoch, abandonedVertices,
                   batches, requestID, queries, missing>>

(***************************************************************************)
(* A vertex from a future epoch is dropped after the re-batch              *)
(* (issuer.go:158-163): its waiters are abandoned.                         *)
(***************************************************************************)
UpdateDrop(v) ==
    LET dropped == VtxBlockedAbandon(v)
    IN  /\ Begin(v)
        /\ VtxEpoch[v] > currentEpoch
        /\ Reissue(v)
        /\ abandonedVertices' = TRUE
        /\ abandoned' = abandoned \cup dropped
        /\ pending' = pending \ ({v} \cup dropped)
        /\ toUpdate' = toUpdate \ {v}
        /\ UNCHANGED <<received, vtxDeps, unfulfilled, trWait, updatedEpoch, consensus,
                       trIssued, accepted, currentEpoch, errored, requestID, queries,
                       missing>>

\* Consensus.Add fails after the re-batch (issuer.go:168-171).
UpdateAddError(v) ==
    /\ Begin(v)
    /\ VtxEpoch[v] <= currentEpoch
    /\ Reissue(v)
    /\ pending' = pending \ {v}
    /\ errored' = TRUE
    /\ toUpdate' = toUpdate \ {v}
    /\ UNCHANGED <<received, vtxDeps, unfulfilled, trWait, updatedEpoch, abandoned,
                   consensus, trIssued, accepted, currentEpoch, abandonedVertices,
                   requestID, queries, missing>>

\* Fault variant: the query goes out under the RequestID of the last one.
SentQueriesStaleID(v, sampleOK) ==
    IF sampleOK THEN queries \cup {<<requestID, v>>} ELSE queries

\* RequestID++ and, if sampling worked, PushQuery under it (issuer.go:185-187).
SentQueries(v, sampleOK) ==
    IF sampleOK THEN queries \cup {<<requestID + 1, v>>} ELSE queries

\* issuer.FulfillVtx (issuer.go:45-48) for each issuer in ws: the vertex id
\* is no longer waited on; the Update that follows is theirs in toUpdate.
FulfillVtx(ws, id) ==
    [w \in Vtxs |-> IF w \in ws THEN vtxDeps[w] \ {id} ELSE vtxDeps[w]]

\* issuer.FulfillTr (issuer.go:51-54) for each issuer in ws and id in ids.
FulfillTr(ws, ids) ==
    [w \in Vtxs |-> IF w \in ws THEN unfulfilled[w] \ ids ELSE unfulfilled[w]]

(***************************************************************************)
(* The vertex goes into consensus (issuer.go:165-205): RequestID is bumped *)
(* and, if sampling worked, a push query sent; vtxBlocked.Fulfill(vtx)     *)
(* notifies the vertices waiting on it; each transition is removed from    *)
(* missingTransitions[epoch] and marked issued in epoch, which notifies    *)
(* the issuers of that epoch waiting on it in trBlocked.                   *)
(***************************************************************************)
UpdateIssue(v, sampleOK) ==
    LET e == VtxEpoch[v]
        vtxWaiters == Waiters({v})
        trWaiters == {w \in received : VtxEpoch[w] = e /\ trWait[w] \cap TxTrs[v] # {}}
    IN  /\ Begin(v)
        /\ e <= currentEpoch
        /\ Reissue(v)
        /\ pending' = pending \ {v}
        /\ consensus' = consensus \cup {v}
        /\ requestID' = requestID + 1
        /\ queries' = SentQueries(v, sampleOK)
        /\ vtxDeps' = FulfillVtx(vtxWaiters, v)
        /\ trIssued' = trIssued \cup {<<tr, e>> : tr \in TxTrs[v]}
        /\ trWait' = [w \in Vtxs |-> IF w \in trWaiters THEN trWait[w] \ TxTrs[v]
                                                        ELSE trWait[w]]
        /\ unfulfilled' = FulfillTr(trWaiters, TxTrs[v])
        /\ missing' = [missing EXCEPT ![e] = @ \ TxTrs[v]]
        /\ toUpdate' = (toUpdate \ {v}) \cup vtxWaiters \cup trWaiters
        /\ UNCHANGED <<received, updatedEpoch, abandoned, accepted, currentEpoch,
                       errored, abandonedVertices>>

-----------------------------------------------------------------------------
(***************************************************************************)
(* The engine. It makes an issuer for a vertex whose parents it has not    *)
(* dropped and that depends on no transition accepted after its epoch     *)
(* (such a vertex fails verification before it gets an issuer): the       *)
(* issuer waits on the parents not in consensus and on the    *)
(* transitions not yet issued into, or accepted by, the vertex's epoch,    *)
(* which become missing; it registers in trBlocked on all of trDeps, and   *)
(* calls Update.                                                           *)
(***************************************************************************)
Receive(v) ==
    LET e == VtxEpoch[v]
        unmet == {tr \in TrDeps[v] : <<tr, e>> \notin trIssued /\ accepted[tr] > e}
    IN  /\ Quiet
        /\ v \notin received
        /\ \A p \in Parents[v] : p \notin abandoned \cup (issued \ consensus)
        /\ \A tr \in TrDeps[v] : accepted[tr] = NotAccepted \/ accepted[tr] <= e
        /\ received' = received \cup {v}
        /\ pending' = pending \cup {v}
        /\ vtxDeps' = [vtxDeps EXCEPT ![v] = Parents[v] \ consensus]
        /\ unfulfilled' = [unfulfilled EXCEPT ![v] = unmet]
        /\ trWait' = [trWait EXCEPT ![v] = TrDeps[v]]
        /\ \E ue \in BOOLEAN : updatedEpoch' = [updatedEpoch EXCEPT ![v] = ue]
        /\ missing' = [missing EXCEPT ![e] = @ \cup unmet]
        /\ toUpdate' = {v}
        /\ UNCHANGED <<issued, abandoned, consensus, trIssued, accepted, currentEpoch,
                       errored, abandonedVertices, batches, requestID, queries>>

(***************************************************************************)
(* Consensus accepts a processing transition in the current epoch. The     *)
(* issuers registered on it in trBlocked are told: one of the same or a    *)
(* later epoch has it fulfilled (FulfillTr, issuer.go:51-54), one of an    *)
(* earlier epoch is abandoned (trIssuer.Abandon, issuer.go:219).           *)
(***************************************************************************)
AcceptTransition(tr) ==
    LET told == {w \in received : tr \in trWait[w]}
        late == {w \in told : VtxEpoch[w] < currentEpoch}
        fulfilled == told \ late
        dropped == UNION {Abandon(w) : w \in late}
    IN  /\ Quiet
        /\ TransitionProcessing(tr)
        /\ accepted' = [accepted EXCEPT ![tr] = currentEpoch]
        /\ trWait' = [w \in Vtxs |-> IF w \in told THEN trWait[w] \ {tr} ELSE trWait[w]]
        /\ unfulfilled' = FulfillTr(fulfilled, {tr})
        /\ abandoned' = abandoned \cup dropped
        /\ pending' = pending \ dropped
        /\ toUpdate' = fulfilled
        /\ UNCHANGED <<received, vtxDeps, updatedEpoch, issued, consensus, trIssued,
                       currentEpoch, errored, abandonedVertices, batches, requestID,
                       queries, missing>>

\* The chain moves to its next epoch.
AdvanceEpoch ==
    /\ Quiet
    /\ currentEpoch < MaxEpoch
    /\ currentEpoch' = currentEpoch + 1
    /\ UNCHANGED <<received, pending, vtxDeps, unfulfilled, trWait, updatedEpoch,
                   issued, abandoned, consensus, trIssued, accepted, errored,
                   abandonedVertices, batches, requestID, queries, missing, toUpdate>>

Init ==
    /\ received = {}
    /\ pending = {}
    /\ vtxDeps = [v \in Vtxs |-> {}]
    /\ unfulfilled = [v \in Vtxs |-> {}]
    /\ trWait = [v \in Vtxs |-> {}]
    /\ updatedEpoch = [v \in Vtxs |-> FALSE]
    /\ issued = {}
    /\ abandoned = {}
    /\ consensus = {}
    /\ trIssued = {}
    /\ accepted = [tr \in Trs |-> NotAccepted]
    /\ currentEpoch = 0
    /\ errored = FALSE
    /\ abandonedVertices = FALSE
    /\ batches = {}
    /\ requestID = 0
    /\ queries = {}
    /\ missing = [e \in Epochs |-> {}]
    /\ toUpdate = {}

\* One Update call that a blocker callback made, whichever branch it takes.
UpdateStep(v) ==
    \/ UpdateSkip(v)
    \/ UpdateError(v)
    \/ \E invalid \in SUBSET TxTrs[v], ok \in BOOLEAN : UpdateInvalid(v, invalid, ok)
    \/ UpdateReissueError(v)
    \/ UpdateDrop(v)
    \/ UpdateAddError(v)
    \/ \E ok \in BOOLEAN : UpdateIssue(v, ok)

Next ==
    \/ \E v \in Vtxs : Receive(v)
    \/ \E tr \in Trs : AcceptTransition(tr)
    \/ AdvanceEpoch
    \/ \E v \in Vtxs : UpdateStep(v)

Spec == Init /\ [][Next]_vars

(***************************************************************************)
(* The Update calls a callback makes run inside the engine handler that    *)
(* fired it, under the context lock, before the handler returns: they are  *)
(* weakly fair. Vertex arrival, acceptance and epochs are the network's    *)
(* and consensus's doing, and get no fairness.                             *)
(***************************************************************************)
FairSpec == Spec /\ WF_vars(\E v \in Vtxs : UpdateStep(v))

-----------------------------------------------------------------------------
TypeOK ==
    /\ received \subseteq Vtxs /\ pending \subseteq received
    /\ vtxDeps \in [Vtxs -> SUBSET Vtxs]
    /\ unfulfilled \in [Vtxs -> SUBSET Trs]
    /\ trWait \in [Vtxs -> SUBSET Trs]
    /\ updatedEpoch \in [Vtxs -> BOOLEAN]
    /\ issued \subseteq received /\ abandoned \subseteq received
    /\ consensus \subseteq issued
    /\ trIssued \subseteq Trs \X Epochs
    /\ accepted \in [Trs -> Epochs \cup {NotAccepted}]
    /\ currentEpoch \in Epochs
    /\ errored \in BOOLEAN /\ abandonedVertices \in BOOLEAN
    /\ requestID \in Nat /\ queries \subseteq (1..requestID) \X Vtxs
    /\ missing \in [Epochs -> SUBSET Trs]
    /\ toUpdate \subseteq received

(***************************************************************************)
(* Admission to consensus: a vertex Update adds to consensus has all its   *)
(* parents in consensus, is not from a future epoch, and every transition  *)
(* its txs depend on was issued into its epoch or accepted in an epoch no  *)
(* later than it. The guard of Update and the blockers' notifications,     *)
(* abandonments included, together have to keep this.                     *)
(***************************************************************************)
ConsensusAdmission ==
    \A v \in consensus :
        /\ Parents[v] \subseteq consensus
        /\ VtxEpoch[v] <= currentEpoch
        /\ \A tr \in TrDeps[v] : <<tr, VtxEpoch[v]>> \in trIssued \/ accepted[tr] <= VtxEpoch[v]

(***************************************************************************)
(* No stranded issuer: once the callbacks of a call have run, and unless   *)
(* the engine has errored, pending holds exactly the live issuers, each of *)
(* them waits on something, and everything it waits on can still happen:  *)
(* each parent is pending or not yet received, each transition is neither *)
(* issued into its epoch nor accepted. An issuer waiting on a parent that  *)
(* was dropped is never issued nor abandoned, and stays pending forever.   *)
(***************************************************************************)
NoStrandedIssuer ==
    Quiet /\ ~errored =>
        /\ pending = received \ (issued \cup abandoned)
        /\ \A v \in pending :
            /\ vtxDeps[v] \cup unfulfilled[v] # {}
            /\ \A p \in vtxDeps[v] : p \in pending \/ p \notin received
            /\ \A tr \in unfulfilled[v] :
                   <<tr, VtxEpoch[v]>> \notin trIssued /\ accepted[tr] = NotAccepted

(***************************************************************************)
(* Re-batching into the current epoch (spec 4.4, Update step 2): when txs  *)
(* of a vertex fail verification, the valid ones are re-batched into the   *)
(* current epoch. Every batch Update makes is for the epoch current when   *)
(* it is made.                                                             *)
(***************************************************************************)
BatchIntoCurrentEpoch == \A b \in batches : b.epoch = b.at


(***************************************************************************)
(* No lost wakeup: a pending issuer with no parent and no transition left  *)
(* to wait on is eventually issued or abandoned, unless the engine has     *)
(* errored. It rests on the last FulfillVtx or FulfillTr that empties its  *)
(* dependencies also calling its Update, and on Update's guard reading the *)
(* same sets the callbacks empty.                                          *)
(***************************************************************************)
ReadyIssuerUpdated ==
    \A v \in Vtxs :
        (v \in pending /\ vtxDeps[v] = {} /\ unfulfilled[v] = {})
            ~> (v \notin pending \/ errored)
=============================================================================
