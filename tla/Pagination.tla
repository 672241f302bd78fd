----------------------------- MODULE Pagination -----------------------------
(***************************************************************************)
(* UTXO fetching of the avm VM (src/unnamed/part_001): GetUTXOs clamps the *)
(* limit and, when paginating, getPaginatedUTXOs walks the sorted address  *)
(* list from the cursor (startAddr, startUTXOID), reads each address's     *)
(* funds index and collects UTXOs not yet in this page until the limit is *)
(* reached; it returns the page and the cursor of the last UTXO searched.  *)
(* Without pagination, getAllUTXOs reads every address's funds in chunks.  *)
(*                                                                         *)
(* Addresses and UTXO ids are numbers, ordered as their bytes compare; 0   *)
(* is ids.ShortEmpty and ids.Empty. A client pages through its addresses,  *)
(* passing back the returned cursor, until a page comes back short.        *)
(***************************************************************************)
EXTENDS Naturals, Sequences, SequencesExt, Functions

CONSTANTS
    NumAddrs,   \* addresses 1..NumAddrs
    NumUTXOs,   \* UTXO ids 1..NumUTXOs
    MaxFetch,   \* maxUTXOsToFetch
    MaxPages    \* pages a client fetches at most

Addrs == 1..NumAddrs
UTXOs == 1..NumUTXOs
Empty == 0

VARIABLES
    owners,   \* owners[u]: the addresses u is indexed under (the F prefix)
    limit,    \* the limit the client passes
    cursor,   \* <<startAddr, startUTXOID>> of the next call
    got,      \* the UTXO ids the client has received, in order
    pages,    \* calls made
    largest,  \* history: the longest page returned so far
    done      \* the last page was short

vars == <<owners, limit, cursor, got, pages, largest, done>>

MinOf(a, b) == IF a < b THEN a ELSE b

(***************************************************************************)
(* state.Funds(addr, start, n): the first n UTXO ids indexed under addr    *)
(* that are greater than start, in ascending order.                        *)
(***************************************************************************)
Funds(addr, start, n) ==
    LET s == SetToSortSeq({u \in UTXOs : addr \in owners[u] /\ u > start}, <)
    IN  SubSeq(s, 1, MinOf(n, Len(s)))

\* Fault variant: only a non-positive limit is replaced.
ClampNonPositive(l) == IF l <= 0 THEN MaxFetch ELSE l

\* The limit GetUTXOs uses (part_001:513-515).
ClampLimit(l) == IF l <= 0 \/ l > MaxFetch THEN MaxFetch ELSE l

\* A page under construction: the loop variables of getPaginatedUTXOs.
NewPage(l) == [utxos |-> <<>>, seen |-> {}, left |-> l, lastAddr |-> Empty,
               lastIndex |-> Empty, full |-> FALSE]

(***************************************************************************)
(* The inner loop over the ids of one address (part_001:553-572): every id *)
(* searched becomes the cursor, an id already in the page is skipped, a    *)
(* new one is added, and the call returns once limit ids are in.           *)
(***************************************************************************)
RECURSIVE ScanIDs(_, _, _)
ScanIDs(p, addr, ids) ==
    IF ids = <<>> \/ p.full THEN p
    ELSE LET id == Head(ids)
             q == [p EXCEPT !.lastIndex = id, !.lastAddr = addr]
         IN  IF id \in p.seen THEN ScanIDs(q, addr, Tail(ids))
             ELSE ScanIDs([q EXCEPT !.utxos = Append(p.utxos, id),
                                    !.seen = p.seen \cup {id},
                                    !.left = p.left - 1,
                                    !.full = p.left - 1 <= 0], addr, Tail(ids))

\* Fault variant: the cursor's own address is skipped too.
SkippedFrom(addr, startAddr) == addr <= startAddr

\* Addresses before the cursor's address are skipped (part_001:541-542).
Skipped(addr, startAddr) == addr < startAddr

\* Fault variant: every address is read from its first id.
ResumeFromStart(addr, startAddr, startUTXO) == Empty

\* The cursor's own address resumes after startUTXOID (part_001:540-545).
ResumeFrom(addr, startAddr, startUTXO) == IF addr = startAddr THEN startUTXO ELSE Empty

(***************************************************************************)
(* The outer loop over the sorted addresses (part_001:539-573): the        *)
(* cursor's address resumes after startUTXOID, later ones from the start,  *)
(* each reading at most searchSize ids.                                    *)
(***************************************************************************)
RECURSIVE ScanAddrs(_, _, _, _, _)
ScanAddrs(p, addrs, startAddr, startUTXO, searchSize) ==
    IF addrs = <<>> \/ p.full THEN p
    ELSE LET addr == Head(addrs)
             start == ResumeFrom(addr, startAddr, startUTXO)
         IN  IF Skipped(addr, startAddr)
             THEN ScanAddrs(p, Tail(addrs), startAddr, startUTXO, searchSize)
             ELSE ScanAddrs(ScanIDs(p, addr, Funds(addr, start, searchSize)),
                            Tail(addrs), startAddr, startUTXO, searchSize)

\* getPaginatedUTXOs (part_001:523-575).
GetPaginatedUTXOs(addrs, startAddr, startUTXO, l) ==
    ScanAddrs(NewPage(l), SetToSortSeq(addrs, <), startAddr, startUTXO, l)

(***************************************************************************)
(* getAllUniqueAddressUTXOs (part_001:602-632): read addr's funds in       *)
(* chunks of maxUTXOsToFetch, resuming after the last id read, until a     *)
(* chunk is empty; ids already collected are skipped.                      *)
(***************************************************************************)
RECURSIVE AllOfAddr(_, _, _, _)
AllOfAddr(acc, seen, addr, from) ==
    LET ids == Funds(addr, from, MaxFetch)
        new == SelectSeq(ids, LAMBDA u : u \notin seen)
    IN  IF ids = <<>> THEN acc
        ELSE AllOfAddr(acc \o new, seen \cup ToSet(ids), addr, ids[Len(ids)])

\* Fault variant: each address starts with an empty seen set.
RECURSIVE AllOfAddrsFresh(_, _)
AllOfAddrsFresh(acc, addrs) ==
    IF addrs = <<>> THEN acc
    ELSE AllOfAddrsFresh(AllOfAddr(acc, {}, Head(addrs), Empty), Tail(addrs))

\* getAllUTXOs (part_001:577-600): every address in sorted order.
RECURSIVE AllOfAddrs(_, _)
AllOfAddrs(acc, addrs) ==
    IF addrs = <<>> THEN acc
    ELSE AllOfAddrs(AllOfAddr(acc, ToSet(acc), Head(addrs), Empty), Tail(addrs))

GetAllUTXOs(addrs) == AllOfAddrs(<<>>, SetToSortSeq(addrs, <))

\* The cursor getPaginatedUTXOs returns with the page (part_001:570, 574).
NextCursor(p) == <<p.lastAddr, p.lastIndex>>

-----------------------------------------------------------------------------
\* The UTXOs the client's addresses index.
Matching == {u \in UTXOs : owners[u] # {}}

Init ==
    /\ owners \in [UTXOs -> SUBSET Addrs]
    /\ limit \in 0..MaxFetch + 1
    /\ cursor = <<Empty, Empty>>
    /\ got = <<>>
    /\ pages = 0
    /\ largest = 0
    /\ done = FALSE

(***************************************************************************)
(* One call of GetUTXOs with paginate set (part_001:506-521): the page is  *)
(* appended and its cursor kept; a page shorter than the limit ends it.    *)
(***************************************************************************)
FetchPage ==
    LET l == ClampLimit(limit)
        p == GetPaginatedUTXOs(Addrs, cursor[1], cursor[2], l)
    IN  /\ ~done
        /\ pages < MaxPages
        /\ got' = got \o p.utxos
        /\ cursor' = NextCursor(p)
        /\ done' = (Len(p.utxos) < l)
        /\ pages' = pages + 1
        /\ largest' = IF Len(p.utxos) > largest THEN Len(p.utxos) ELSE largest
        /\ UNCHANGED <<owners, limit>>

Next == FetchPage

Spec == Init /\ [][Next]_vars

-----------------------------------------------------------------------------
(***************************************************************************)
(* Pagination completeness: a client that follows the returned cursors     *)
(* until a short page has received every UTXO its addresses index. The     *)
(* cursor is the last id searched, duplicates included, and each address   *)
(* is read with the full limit, so that skipped duplicates drop nothing.   *)
(***************************************************************************)
PaginationComplete == done => Matching \subseteq ToSet(got)

(***************************************************************************)
(* A page never holds more than maxUTXOsToFetch UTXOs, whatever limit the  *)
(* caller passes (GetUTXOs' clamp and the page loop's countdown).          *)
(***************************************************************************)
PageWithinMax == largest <= MaxFetch

(***************************************************************************)
(* Pagination exactly once (spec section 8): following the cursors visits *)
(* every matching UTXO exactly once.                                       *)
(***************************************************************************)
PaginationExactlyOnce == done => IsInjective(got)

(***************************************************************************)
(* Without pagination, GetUTXOs returns each UTXO of the addresses once.   *)
(***************************************************************************)
AllUTXOsExactlyOnce ==
    LET all == GetAllUTXOs(Addrs)
    IN  IsInjective(all) /\ ToSet(all) = Matching


\* The (address, UTXO id) order in which getPaginatedUTXOs searches.
SearchOrderLess(c, d) == c[1] < d[1] \/ (c[1] = d[1] /\ c[2] < d[2])

(***************************************************************************)
(* A client that follows cursors stops: every page that comes back full,  *)
(* so that the client calls again, returns a cursor strictly later in the *)
(* search order than the one it was called with. The cursor is the last   *)
(* id searched (part_001:570, 574), skipped duplicates included.          *)
(***************************************************************************)
CursorAdvances == [][FetchPage /\ ~done' => SearchOrderLess(cursor, cursor')]_vars
=============================================================================
