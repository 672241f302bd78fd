----------------------------- MODULE EpochRules -----------------------------
(***************************************************************************)
(* Managed-asset status rules of the avm VM (src/unnamed/part_001). The   *)
(* state keeps, per managed asset, (lastUpdatedEpoch, status, oldStatus).  *)
(* verifyTransferOfUTXO uses oldStatus for a tx whose epoch is at most     *)
(* lastUpdatedEpoch+1; verifyOperation refuses an UpdateManagedAsset       *)
(* operation in those epochs. Epochs are uint32 and the sum is computed in *)
(* uint32. TLC's integers are 32-bit signed, so the width is the constant  *)
(* Width: the wrap at 2^Width behaves as the one at 2^32.                  *)
(*                                                                         *)
(* Alongside the code's state the model keeps the history of updates in   *)
(* true (unwrapped) epochs, from which the status meant to be in effect in *)
(* an epoch is computed.                                                   *)
(*                                                                         *)
(* Both verifyTransferOfUTXO and verifyOperation first ask verifyFxUsage   *)
(* whether the asset supports the fx of the credential or operation. Its  *)
(* answer is cached per asset in the VM's LRU cache, which is kept here    *)
(* with the answers it gave.                                               *)
(***************************************************************************)
EXTENDS Naturals, Sequences, FiniteSetsExt, Functions, TLC

CONSTANTS
    Assets,      \* managed assets
    Managers,    \* addresses that can manage an asset
    Owner,       \* the owner of the UTXOs being transferred
    Width,       \* bits of an epoch
    MaxEpoch,    \* last true epoch of a behaviour
    MaxUpdates,  \* status updates per asset in a behaviour
    Fxs,         \* fx indices registered with the VM
    AssetFxs,    \* AssetFxs[a]: the fx ids of the states of a's CreateAssetTx
    SecpFx       \* the index of secp256k1fx, whose operation updates a status

Mod == 2^Width
Wrap(n) == n % Mod
Signers == Managers \cup {Owner}
Status == [frozen : BOOLEAN, manager : Managers]
NoStatus == [frozen |-> FALSE, manager |-> Owner]

VARIABLES
    now,      \* the engine's current epoch, unwrapped
    managed,  \* managed[a]: the stored (last, status, old) of asset a
    log,      \* history: log[a][i] = [at, status] of the i-th status of a
    fxCache,  \* assetToFxCache: a partial function from assets to fx id sets
    fxAnswers \* history: the <<asset, fx, answer>> triples verifyFxUsage gave

vars == <<now, managed, log, fxCache, fxAnswers>>

\* Fault variant: the previous status is taken as stored, even for the first put.
PutNoPrevious(m, e, s) == [last |-> e, status |-> s, old |-> m.status]

(***************************************************************************)
(* state.PutManagedAssetStatus(asset, epoch, status): the new status is   *)
(* stored with its epoch and the status it replaces becomes the old one;  *)
(* the first put of an asset has no predecessor and keeps s as both.      *)
(***************************************************************************)
PutManagedAssetStatus(m, e, s) ==
    [last |-> e, status |-> s, old |-> IF m.status = NoStatus THEN s ELSE m.status]

Unset == [last |-> 0, status |-> NoStatus, old |-> NoStatus]

\* Fault variant: the new status is taken to apply from lastUpdatedEpoch+1.
InEffectOffByOne(m, e) == IF e < Wrap(m.last + 1) THEN m.old ELSE m.status

(***************************************************************************)
(* The status verifyTransferOfUTXO uses for a tx of epoch e (part_001:    *)
(* 913-919): the old one while e <= lastUpdatedEpoch+1, in uint32.        *)
(***************************************************************************)
InEffect(m, e) == IF e <= Wrap(m.last + 1) THEN m.old ELSE m.status

(***************************************************************************)
(* verifyTransferOfUTXO for a managed asset (part_001:878-937), after the *)
(* fx checks succeed: a frozen asset refuses, otherwise the UTXO's owner  *)
(* or the asset's manager may sign.                                        *)
(***************************************************************************)
VerifyTransferOfUTXO(m, e, signer) ==
    LET st == InEffect(m, e)
    IN  ~st.frozen /\ (signer = Owner \/ signer = st.manager)

\* Fault variant: the fx is put in the cached set whatever the asset's states.
VerifyFxUsageAddAlways(c, f, a) ==
    IF a \in DOMAIN c THEN [ok |-> f \in c[a], cache |-> c]
    ELSE [ok |-> TRUE, cache |-> (a :> {f}) @@ c]

(***************************************************************************)
(* verifyFxUsage (part_001:844-876) with the cache c: a cached entry is    *)
(* answered from; otherwise the fx ids of the asset's CreateAssetTx states *)
(* equal to f are collected, put under the asset and answered from. The   *)
(* assets here are genesis CreateAssetTxs, so the "not fetched" and "not   *)
(* an asset creation" returns are not reached.                             *)
(***************************************************************************)
VerifyFxUsage(c, f, a) ==
    IF a \in DOMAIN c THEN [ok |-> f \in c[a], cache |-> c]
    ELSE LET ids == {f} \cap AssetFxs[a]
         IN  [ok |-> f \in ids, cache |-> (a :> ids) @@ c]

\* verifyOperation's epoch check for an UpdateManagedAssetOperation
\* (part_001:972-990): refused while epoch <= epochLastUpdated+1.
UpdateAllowed(m, e) == ~(e <= Wrap(m.last + 1))

(***************************************************************************)
(* Genesis (part_001:739-747): every managed-asset output of the genesis  *)
(* CreateAssetTx puts its status with epoch 0.                            *)
(***************************************************************************)
Init ==
    /\ now = 0
    /\ \E g \in [Assets -> Status] :
        /\ managed = [a \in Assets |-> PutManagedAssetStatus(Unset, 0, g[a])]
        /\ log = [a \in Assets |-> <<[at |-> 0, status |-> g[a]]>>]
    /\ fxCache = <<>>
    /\ fxAnswers = {}

\* The engine moves to the next epoch.
AdvanceEpoch ==
    /\ now < MaxEpoch
    /\ now' = now + 1
    /\ UNCHANGED <<managed, log, fxCache, fxAnswers>>

(***************************************************************************)
(* A tx of the current epoch with an UpdateManagedAssetOperation for a    *)
(* is verified (verifyOperation, part_001:947-996): verifyFxUsage for     *)
(* secp256k1fx, whose cache write stays whatever follows, then the epoch  *)
(* check. If both pass the tx is accepted and s is put with its epoch.    *)
(***************************************************************************)
UpdateStatus(a, s) ==
    LET u == VerifyFxUsage(fxCache, SecpFx, a)
    IN  /\ Len(log[a]) <= MaxUpdates
        /\ fxCache' = u.cache
        /\ fxAnswers' = fxAnswers \cup {<<a, SecpFx, u.ok>>}
        /\ IF u.ok /\ UpdateAllowed(managed[a], Wrap(now))
           THEN /\ managed' = [managed EXCEPT ![a] = PutManagedAssetStatus(@, Wrap(now), s)]
                /\ log' = [log EXCEPT ![a] = Append(@, [at |-> now, status |-> s])]
           ELSE UNCHANGED <<managed, log>>
        /\ UNCHANGED now

(***************************************************************************)
(* verifyTransferOfUTXO (part_001:878-937) of a UTXO of asset a with a    *)
(* credential of fx f: getFx, then verifyFxUsage, which may fill the      *)
(* cache. The checks after it read the state and change nothing; their   *)
(* outcome is VerifyTransferOfUTXO above.                                  *)
(***************************************************************************)
VerifyTransfer(a, f) ==
    LET u == VerifyFxUsage(fxCache, f, a)
    IN  /\ fxCache' = u.cache
        /\ fxAnswers' = fxAnswers \cup {<<a, f, u.ok>>}
        /\ UNCHANGED <<now, managed, log>>

\* The LRU cache drops an asset's entry when other assets fill it.
EvictFx(a) ==
    /\ a \in DOMAIN fxCache
    /\ fxCache' = Restrict(fxCache, DOMAIN fxCache \ {a})
    /\ UNCHANGED <<now, managed, log, fxAnswers>>

Next ==
    \/ AdvanceEpoch
    \/ \E a \in Assets, s \in Status : UpdateStatus(a, s)
    \/ \E a \in Assets, f \in Fxs : VerifyTransfer(a, f)
    \/ \E a \in Assets : EvictFx(a)

Spec == Init /\ [][Next]_vars

-----------------------------------------------------------------------------
TypeOK ==
    /\ now \in 0..MaxEpoch
    /\ managed \in [Assets -> [last : 0..Mod - 1, status : Status, old : Status]]
    /\ log \in [Assets -> Seq([at : 0..MaxEpoch, status : Status])]
    /\ DOMAIN fxCache \subseteq Assets
    /\ \A a \in DOMAIN fxCache : fxCache[a] \subseteq Fxs
    /\ fxAnswers \subseteq Assets \X Fxs \X BOOLEAN

(***************************************************************************)
(* The status meant to be in effect in true epoch e (spec section 4.3): a *)
(* status set in epoch u takes effect from epoch u+2; genesis applies     *)
(* from the start.                                                         *)
(***************************************************************************)
Settled(a, e) ==
    LET is == {i \in DOMAIN log[a] : i = 1 \/ log[a][i].at + 2 <= e}
    IN  log[a][Max(is)].status

Authorized(a, e, signer) ==
    /\ ~Settled(a, e).frozen
    /\ signer = Owner \/ signer = Settled(a, e).manager

(***************************************************************************)
(* Two-epoch delay: a transfer of a managed asset in any epoch from the   *)
(* asset's last update up to now is accepted by verifyTransferOfUTXO      *)
(* exactly when the status meant for that epoch allows it. The code keeps *)
(* only two statuses, so this rests on verifyOperation spacing updates    *)
(* two epochs apart, and on the uint32 comparisons not wrapping.          *)
(***************************************************************************)
TransferUsesSettledStatus ==
    \A a \in Assets, s \in Signers :
        \A e \in log[a][Len(log[a])].at..now :
            VerifyTransferOfUTXO(managed[a], Wrap(e), s) = Authorized(a, e, s)


(***************************************************************************)
(* verifyFxUsage never admits an fx the asset was not created with: a     *)
(* cached entry, filled by whichever call came first and kept across      *)
(* evictions of other assets, only ever holds fx ids of the asset's       *)
(* states, so no credential or operation of another fx passes the check.  *)
(***************************************************************************)
FxUsageSound == \A <<a, f, ok>> \in fxAnswers : ok => f \in AssetFxs[a]

(***************************************************************************)
(* verifyFxUsage answers whether the asset supports the fx (the comments  *)
(* at part_001:845 and 869): an fx of one of the asset's states is        *)
(* admitted whatever was asked of the asset before.                       *)
(***************************************************************************)
FxUsageComplete == \A <<a, f, ok>> \in fxAnswers : f \in AssetFxs[a] => ok
=============================================================================
