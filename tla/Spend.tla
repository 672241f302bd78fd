-------------------------------- MODULE Spend --------------------------------
(***************************************************************************)
(* Input selection of the avm VM's wallet calls (src/unnamed/part_001):    *)
(* Spend walks the user's UTXOs in order and takes each one it can spend   *)
(* until the amount wanted of its asset is reached, summing with           *)
(* safemath.Add64, and fails if some amount is not reached; SpendAll takes *)
(* every UTXO it can spend. Mint, SpendNFT and MintNFT build one operation *)
(* per UTXO they use. amounts are uint64; TLC's integers are 32-bit        *)
(* signed, so the width is the constant Width and Add64 reports overflow   *)
(* at 2^Width as it does at 2^64.                                          *)
(*                                                                         *)
(* A UTXO is [asset, out]: out.kind is the output's type (secp256k1fx      *)
(* Transfer or Mint output, nftfx Transfer or Mint output), or "locked"    *)
(* when the keychain cannot spend it at this time (kc.Spend or kc.Match    *)
(* fails); every call skips a locked UTXO whatever its type. The order in  *)
(* An operation is named by the UTXO it consumes, and its signers by the  *)
(* same index (the keys kc.Spend or kc.Match returned for that UTXO).      *)
(* Asset ids are numbers, so that the byte order of operations exists.    *)
(***************************************************************************)
EXTENDS Naturals, SequencesExt

CONSTANTS
    Assets,     \* asset ids (numbers: their order is the order of the id bytes)
    NumUTXOs,   \* UTXOs of the user
    Amounts,    \* amounts a UTXO may hold
    Wanted,     \* amounts a caller may ask for
    Width,      \* bits of a uint64 amount
    Groups,     \* NFT group ids
    NFTAsset,   \* the asset SpendNFT and MintNFT are asked for
    GroupID     \* the group SpendNFT is asked for

Mod == 2^Width
Out == [kind : {"transfer"}, amount : Amounts, group : {GroupID}]
       \cup [kind : {"mint", "nftMint", "locked"}, amount : {0}, group : {GroupID}]
       \cup [kind : {"nftTransfer"}, amount : {0}, group : Groups]
UTXO == [asset : Assets, out : Out]
Idx == 1..NumUTXOs
\* The result before the call is made.
NotCalled == [sums |-> [a \in Assets |-> 0], ins |-> {}, err |-> "notcalled"]
\* The result of an operation-building call before it is made.
NoOps == [ops |-> <<>>, keys |-> <<>>, left |-> [a \in Assets |-> 0], err |-> "notcalled"]

VARIABLES
    utxos,     \* the UTXOs passed in, in order
    amounts,   \* amounts[a]: what Spend is asked to spend of a (0: absent)
    spent,     \* Spend's result, NotCalled before the call
    spentAll,  \* SpendAll's result, NotCalled before the call
    minted,    \* Mint's result, NoOps before the call
    nftSpent,  \* SpendNFT's result, NoOps before the call
    nftMinted  \* MintNFT's result, NoOps before the call

vars == <<utxos, amounts, spent, spentAll, minted, nftSpent, nftMinted>>

\* Fault variant: the sum wraps instead of reporting overflow.
Add64Wrapping(a, b) == [sum |-> (a + b) % Mod, ok |-> TRUE]

\* safemath.Add64: the sum, and whether it fits in a uint64.
Add64(a, b) == [sum |-> (a + b) % Mod, ok |-> a + b < Mod]

\* The state of the loops: amountsSpent, the indices taken, an error.
Start == [sums |-> [a \in Assets |-> 0], ins |-> {}, err |-> "none"]

(***************************************************************************)
(* Take UTXO i (part_001:1066-1080): add its amount with Add64, returning  *)
(* errSpendOverflow on overflow, else record the sum and the input.        *)
(***************************************************************************)
Take(s, i) ==
    LET a == utxos[i].asset
        n == Add64(s.sums[a], utxos[i].out.amount)
    IN  IF ~n.ok THEN [s EXCEPT !.err = "overflow"]
        ELSE [s EXCEPT !.sums[a] = n.sum, !.ins = @ \cup {i}]

\* kc.Spend succeeds and gives an avax.TransferableIn (part_001:1056-1065):
\* an unlocked secp256k1fx transfer output.
Transferable(i) == utxos[i].out.kind = "transfer"

\* Fault variant: a UTXO is still taken when the amount is exactly reached.
EnoughStrict(s, i) == s.sums[utxos[i].asset] > amounts[utxos[i].asset]

\* `if amountSpent >= amount { continue }` (part_001:1051-1054).
Enough(s, i) == s.sums[utxos[i].asset] >= amounts[utxos[i].asset]

(***************************************************************************)
(* Spend's loop over the UTXOs (part_001:1046-1081): skip what is not     *)
(* needed or not spendable, take the rest, stop at the first error.        *)
(***************************************************************************)
RECURSIVE SpendLoop(_, _)
SpendLoop(s, i) ==
    IF i > NumUTXOs \/ s.err # "none" THEN s
    ELSE IF Enough(s, i) \/ ~Transferable(i) THEN SpendLoop(s, i + 1)
    ELSE SpendLoop(Take(s, i), i + 1)

(***************************************************************************)
(* Spend (part_001:1031-1095): the loop, then an error for any asset whose *)
(* amount was not reached.                                                 *)
(***************************************************************************)
SpendUTXOs ==
    LET s == SpendLoop(Start, 1)
    IN  IF s.err = "none" /\ \E a \in Assets : s.sums[a] < amounts[a]
        THEN [s EXCEPT !.err = "insufficient"]
        ELSE s

\* SpendAll's loop (part_001:1264-1292): every spendable UTXO is taken.
RECURSIVE SpendAllLoop(_, _)
SpendAllLoop(s, i) ==
    IF i > NumUTXOs \/ s.err # "none" THEN s
    ELSE IF ~Transferable(i) THEN SpendAllLoop(s, i + 1)
    ELSE SpendAllLoop(Take(s, i), i + 1)

(***************************************************************************)
(* innerSortOperationsWithSigners.Less (part_002:90-103): the codec bytes   *)
(* of the two operations compared. An operation's bytes begin with its     *)
(* asset id and then its UTXO id, so the order is that of the pair. The   *)
(* marshal cannot fail for the operations these calls build.               *)
(***************************************************************************)
OpLess(i, j) ==
    \/ utxos[i].asset < utxos[j].asset
    \/ utxos[i].asset = utxos[j].asset /\ i < j

\* Fault variant: Swap exchanges the operations but not their signers.
SwapOpsOnly(r, i, j) == [r EXCEPT !.ops = [@ EXCEPT ![i] = r.ops[j], ![j] = r.ops[i]]]

\* innerSortOperationsWithSigners.Swap (part_002:105-108): both slices.
Swap(r, i, j) ==
    [r EXCEPT !.ops = [@ EXCEPT ![i] = r.ops[j], ![j] = r.ops[i]],
              !.keys = [@ EXCEPT ![i] = r.keys[j], ![j] = r.keys[i]]]

(***************************************************************************)
(* sortOperationsWithSigners (part_002:110-122) hands Less and Swap to     *)
(* sort.Sort, which sorts fewer than 12 elements by insertion: element i   *)
(* is swapped down while it is Less than the one before it.                *)
(***************************************************************************)
RECURSIVE SiftDown(_, _)
SiftDown(r, j) ==
    IF j > 1 /\ OpLess(r.ops[j], r.ops[j - 1]) THEN SiftDown(Swap(r, j, j - 1), j - 1)
    ELSE r

RECURSIVE InsertionSort(_, _)
InsertionSort(r, i) ==
    IF i > Len(r.ops) THEN r ELSE InsertionSort(SiftDown(r, i), i + 1)

SortOperationsWithSigners(r) == InsertionSort(r, 2)

\* isSortedAndUniqueOperations (part_002:74-80), the order a tx's syntactic
\* check demands of its operations: Less holds of each adjacent pair.
IsSortedAndUniqueOperations(ops) == IsSorted(ops, OpLess)

\* Fault variant: a minted asset is not deleted from the amounts map.
MintOneKeepAmount(r, i) ==
    [r EXCEPT !.ops = Append(@, i), !.keys = Append(@, i)]

(***************************************************************************)
(* One iteration of Mint's loop that uses UTXO i (part_001:1339-1360): the *)
(* mint operation and its signers are appended and the asset is deleted   *)
(* from the caller's amounts map (a deleted key reads as 0).               *)
(***************************************************************************)
MintOne(r, i) ==
    [r EXCEPT !.ops = Append(@, i), !.keys = Append(@, i), !.left[utxos[i].asset] = 0]

(***************************************************************************)
(* Mint's loop (part_001:1315-1361): skip a UTXO whose asset has no amount *)
(* left to mint, that is not a secp256k1fx mint output, or that the keys   *)
(* cannot spend; use the others.                                           *)
(***************************************************************************)
RECURSIVE MintLoop(_, _)
MintLoop(r, i) ==
    IF i > NumUTXOs THEN r
    ELSE IF r.left[utxos[i].asset] = 0 \/ utxos[i].out.kind # "mint"
         THEN MintLoop(r, i + 1)
         ELSE MintLoop(MintOne(r, i), i + 1)

(***************************************************************************)
(* Mint (part_001:1300-1371): the loop, then errAddressesCantMintAsset if  *)
(* some amount is still in the map, else the operations sorted with their  *)
(* signers. The caller's map keeps the deletions of the loop either way.   *)
(***************************************************************************)
MintOps ==
    LET r == MintLoop([NoOps EXCEPT !.left = amounts, !.err = "none"], 1)
    IN  IF \E a \in Assets : r.left[a] > 0
        THEN [r EXCEPT !.ops = <<>>, !.keys = <<>>, !.err = "cantMint"]
        ELSE SortOperationsWithSigners(r)

\* Fault variant: the group id of the NFT output is not compared.
IsNFTTransferAnyGroup(i) ==
    utxos[i].asset = NFTAsset /\ utxos[i].out.kind = "nftTransfer"

\* SpendNFT's checks on a UTXO (part_001:1200-1217): the asset, an nftfx
\* transfer output, the group, and keys that match its owners.
IsNFTTransfer(i) ==
    /\ utxos[i].asset = NFTAsset
    /\ utxos[i].out.kind = "nftTransfer"
    /\ utxos[i].out.group = GroupID

\* MintNFT's checks on a UTXO (part_001:1451-1465).
IsNFTMint(i) == utxos[i].asset = NFTAsset /\ utxos[i].out.kind = "nftMint"

(***************************************************************************)
(* The loops of SpendNFT (part_001:1191-1243) and MintNFT (1442-1491)      *)
(* break once an operation is built: the first UTXO that passes the checks *)
(* is used, and with none the call fails with err.                         *)
(***************************************************************************)
FirstOp(S, err) ==
    IF S = {} THEN [NoOps EXCEPT !.err = err]
    ELSE SortOperationsWithSigners(
             [NoOps EXCEPT !.ops = <<Min(S)>>, !.keys = <<Min(S)>>, !.err = "none"])

Init ==
    /\ utxos \in [Idx -> UTXO]
    /\ amounts \in [Assets -> Wanted]
    /\ spent = NotCalled
    /\ spentAll = NotCalled
    /\ minted = NoOps
    /\ nftSpent = NoOps
    /\ nftMinted = NoOps

\* A wallet call of Spend on the user's UTXOs.
CallSpend ==
    /\ spent = NotCalled
    /\ spent' = SpendUTXOs
    /\ UNCHANGED <<utxos, amounts, spentAll, minted, nftSpent, nftMinted>>

\* A wallet call of SpendAll on the same UTXOs.
CallSpendAll ==
    /\ spentAll = NotCalled
    /\ spentAll' = SpendAllLoop(Start, 1)
    /\ UNCHANGED <<utxos, amounts, spent, minted, nftSpent, nftMinted>>

\* A wallet call of Mint with the same amounts map.
CallMint ==
    /\ minted = NoOps
    /\ minted' = MintOps
    /\ UNCHANGED <<utxos, amounts, spent, spentAll, nftSpent, nftMinted>>

\* A wallet call of SpendNFT for NFTAsset and GroupID.
CallSpendNFT ==
    /\ nftSpent = NoOps
    /\ nftSpent' = FirstOp({i \in Idx : IsNFTTransfer(i)}, "insufficient")
    /\ UNCHANGED <<utxos, amounts, spent, spentAll, minted, nftMinted>>

\* A wallet call of MintNFT for NFTAsset.
CallMintNFT ==
    /\ nftMinted = NoOps
    /\ nftMinted' = FirstOp({i \in Idx : IsNFTMint(i)}, "cantMint")
    /\ UNCHANGED <<utxos, amounts, spent, spentAll, minted, nftSpent>>

Next == CallSpend \/ CallSpendAll \/ CallMint \/ CallSpendNFT \/ CallMintNFT

Spec == Init /\ [][Next]_vars

-----------------------------------------------------------------------------
RECURSIVE SumOf(_)
\* The true (unbounded) total of the UTXOs with indices in S.
SumOf(S) == IF S = {} THEN 0
            ELSE LET i == CHOOSE j \in S : TRUE IN utxos[i].out.amount + SumOf(S \ {i})

OfAsset(S, a) == {i \in S : utxos[i].asset = a}

(***************************************************************************)
(* A successful Spend or SpendAll reports, for every asset, exactly the    *)
(* true total of the inputs it returns: the uint64 sums never wrap         *)
(* silently. A successful Spend covers every amount asked for, and only a  *)
(* shortfall of what the keys can spend makes it fail as insufficient.     *)
(***************************************************************************)
SpendAccountsExactly ==
    /\ \A r \in {spent, spentAll} :
          r.err = "none" => \A a \in Assets : r.sums[a] = SumOf(OfAsset(r.ins, a))
    /\ spent.err = "none" =>
          \A a \in Assets : spent.sums[a] >= amounts[a]
    /\ spent.err = "insufficient" =>
          \E a \in Assets :
              SumOf(OfAsset({i \in Idx : Transferable(i)}, a)) < amounts[a]

(***************************************************************************)
(* Spend takes no UTXO it does not need: when it takes a UTXO of asset a,  *)
(* the inputs of a taken before it do not yet reach the amount of a.       *)
(***************************************************************************)
SpendTakesOnlyNeeded ==
    spent.err = "none" =>
        \A i \in spent.ins :
            SumOf({j \in OfAsset(spent.ins, utxos[i].asset) : j < i})
                < amounts[utxos[i].asset]


\* The UTXOs Mint may use for asset a: unlocked secp256k1fx mint outputs.
MintableOf(a) == {i \in Idx : utxos[i].asset = a /\ utxos[i].out.kind = "mint"}

(***************************************************************************)
(* Mint builds exactly one mint operation for each asset it is asked to   *)
(* mint, from a mint output of that asset, and none for any other asset;   *)
(* it fails only when some asset asked for has no usable mint output.      *)
(* This rests on the loop deleting each minted asset from the map: a      *)
(* second mint output of the asset is then skipped, and the final check    *)
(* sees only the assets left unminted.                                     *)
(***************************************************************************)
MintMatchesRequest ==
    /\ minted.err = "none" =>
          \A a \in Assets :
              Cardinality({i \in ToSet(minted.ops) : utxos[i].asset = a})
                  = IF amounts[a] > 0 THEN 1 ELSE 0
    /\ ToSet(minted.ops) \subseteq UNION {MintableOf(a) : a \in Assets}
    /\ minted.err = "cantMint" =>
          \E a \in Assets : amounts[a] > 0 /\ MintableOf(a) = {}

(***************************************************************************)
(* SpendNFT and MintNFT use exactly one UTXO, of the asset (and, for      *)
(* SpendNFT, of the group) asked for and of the right nftfx output type,   *)
(* and fail only when the user holds no such UTXO: an NFT of another group *)
(* is never transferred in place of the one asked for.                     *)
(***************************************************************************)
NFTOpsMatchRequest ==
    /\ \A r \in {nftSpent, nftMinted} : r.err = "none" => Len(r.ops) = 1
    /\ \A i \in ToSet(nftSpent.ops) :
          utxos[i].asset = NFTAsset /\ utxos[i].out.kind = "nftTransfer"
          /\ utxos[i].out.group = GroupID
    /\ \A i \in ToSet(nftMinted.ops) :
          utxos[i].asset = NFTAsset /\ utxos[i].out.kind = "nftMint"
    /\ nftSpent.err = "insufficient" =>
          ~\E i \in Idx : utxos[i].asset = NFTAsset /\ utxos[i].out.kind = "nftTransfer"
                         /\ utxos[i].out.group = GroupID
    /\ nftMinted.err = "cantMint" =>
          ~\E i \in Idx : utxos[i].asset = NFTAsset /\ utxos[i].out.kind = "nftMint"


(***************************************************************************)
(* The operations Mint, SpendNFT and MintNFT return are in the byte order  *)
(* the tx's syntactic check demands, each distinct, and the signers at    *)
(* each position are those of the operation at that position: the sort's  *)
(* Swap moves an operation and its keys together, so every credential     *)
(* signs the operation it belongs to.                                      *)
(***************************************************************************)
SignersFollowOps ==
    \A r \in {minted, nftSpent, nftMinted} :
        /\ Len(r.keys) = Len(r.ops)
        /\ \A k \in 1..Len(r.ops) : r.keys[k] = r.ops[k]
        /\ IsSortedAndUniqueOperations(r.ops)
=============================================================================
