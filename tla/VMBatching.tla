----------------------------- MODULE VMBatching -----------------------------
(***************************************************************************)
(* Transaction batching of the avm VM (src/unnamed/part_001): issueTx      *)
(* buffers txs in vm.txs and arms the batch timer on the first one;        *)
(* FlushTxs, called when the buffer reaches batchSize or by the timer's    *)
(* callback, offers a PendingTxs message to the engine's channel without   *)
(* blocking and re-arms the timer when the channel is full; the engine     *)
(* takes the message and, under the context lock, calls Pending, which     *)
(* cancels the timer and hands over the whole buffer.                      *)
(*                                                                         *)
(* Three goroutines: API handlers (IssueTx), the timer's dispatch loop and *)
(* the engine. Every VM call runs under the context lock and is one step;  *)
(* the timer expiring and its callback taking the lock are two steps, and  *)
(* so are the engine taking the message and handling it.                   *)
(***************************************************************************)
EXTENDS Naturals

CONSTANTS
    BatchSize,  \* batchSize
    ChanCap,    \* capacity of the toEngine channel
    MaxTxs      \* txs issued in a behaviour

ASSUME BatchSize \in Nat \ {0} /\ ChanCap \in Nat \ {0} /\ MaxTxs \in Nat

VARIABLES
    bootstrapped,  \* vm.bootstrapped
    txs,           \* len(vm.txs)
    armed,         \* the timer has a timeout set
    firing,        \* the timer's callback runs, waiting for the context lock
    chan,          \* PendingTxs messages in toEngine
    handling,      \* the engine took a message and has not handled it yet
    issued,        \* history: txs issued so far
    delivered      \* history: txs Pending has handed to the engine

vars == <<bootstrapped, txs, armed, firing, chan, handling, issued, delivered>>

(***************************************************************************)
(* FlushTxs (part_001:657-668) with n txs buffered: cancel the timer, and  *)
(* if there are txs offer one PendingTxs message; on a full channel set    *)
(* the timer again.                                                        *)
(***************************************************************************)
FlushTxs(n) ==
    /\ armed' = (n # 0 /\ chan = ChanCap)
    /\ chan' = IF n # 0 /\ chan < ChanCap THEN chan + 1 ELSE chan

\* Bootstrapped (part_001:320-330): API calls are served from now on.
Bootstrapped ==
    /\ ~bootstrapped
    /\ bootstrapped' = TRUE
    /\ UNCHANGED <<txs, armed, firing, chan, handling, issued, delivered>>

\* Fault variant: the length is tested before the append (old length 1).
ArmBeforeAppend(n) == armed' = (armed \/ n - 1 = 1)

\* issueTx's `case len(vm.txs) == 1`: arm the timer for the first tx.
ArmOnFirst(n) == armed' = (armed \/ n = 1)

(***************************************************************************)
(* IssueTx (part_001:423-436) of a tx that parses and verifies, then       *)
(* issueTx (792-800): append; flush on reaching batchSize, arm the timer   *)
(* on the first tx. A tx that fails or comes before bootstrapping returns  *)
(* an error and changes nothing.                                           *)
(***************************************************************************)
IssueTx ==
    /\ bootstrapped
    /\ issued < MaxTxs
    /\ txs' = txs + 1
    /\ issued' = issued + 1
    /\ IF txs + 1 = BatchSize
       THEN FlushTxs(txs + 1)
       ELSE /\ ArmOnFirst(txs + 1)
            /\ UNCHANGED chan
    /\ UNCHANGED <<bootstrapped, firing, handling, delivered>>

\* The timeout elapses; the dispatch loop starts the callback.
TimerExpires ==
    /\ armed
    /\ ~firing
    /\ armed' = FALSE
    /\ firing' = TRUE
    /\ UNCHANGED <<bootstrapped, txs, chan, handling, issued, delivered>>

\* The callback (part_001:289-294) takes the context lock and flushes.
TimerCallback ==
    /\ firing
    /\ firing' = FALSE
    /\ FlushTxs(txs)
    /\ UNCHANGED <<bootstrapped, txs, handling, issued, delivered>>

\* The engine's loop receives a message from toEngine.
EngineReceive ==
    /\ chan > 0
    /\ ~handling
    /\ chan' = chan - 1
    /\ handling' = TRUE
    /\ UNCHANGED <<bootstrapped, txs, armed, firing, issued, delivered>>

\* The engine handles PendingTxs under the lock: Pending (part_001:387-396)
\* cancels the timer and returns the buffer, which the engine batches.
Pending ==
    /\ handling
    /\ handling' = FALSE
    /\ armed' = FALSE
    /\ txs' = 0
    /\ delivered' = delivered + txs
    /\ UNCHANGED <<bootstrapped, firing, chan, issued>>

Init ==
    /\ bootstrapped = FALSE
    /\ txs = 0
    /\ armed = FALSE
    /\ firing = FALSE
    /\ chan = 0
    /\ handling = FALSE
    /\ issued = 0
    /\ delivered = 0

Next ==
    \/ Bootstrapped
    \/ IssueTx
    \/ TimerExpires
    \/ TimerCallback
    \/ EngineReceive
    \/ Pending

(***************************************************************************)
(* The timer's dispatch goroutine and the engine's message loop run for    *)
(* as long as the chain does; API calls and bootstrapping are external.    *)
(***************************************************************************)
Fairness ==
    /\ WF_vars(TimerExpires)
    /\ WF_vars(TimerCallback)
    /\ WF_vars(EngineReceive)
    /\ WF_vars(Pending)

Spec == Init /\ [][Next]_vars /\ Fairness

-----------------------------------------------------------------------------
(***************************************************************************)
(* Every issued tx reaches the engine: a tx buffered by issueTx is handed  *)
(* over by a later Pending, whether the batch fills, the timer fires, or   *)
(* the channel was full and the flush was deferred.                        *)
(***************************************************************************)
TxsDelivered == \A k \in 1..MaxTxs : issued >= k ~> delivered >= k

=============================================================================
