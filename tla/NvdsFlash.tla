------------------------------ MODULE NvdsFlash ------------------------------
(***************************************************************************)
(* The NVDS key/value store on NOR flash (nvds_flash.c): a log of entries  *)
(* in pages, each page with a header, a table of entry states and entries. *)
(* SMALL and MIDDLE elements of the default namespace.  Every flash write  *)
(* or sector erase is a step; power may be lost before any of them, and    *)
(* nvds_flash_env_init rebuilds the RAM state from what is then in flash.  *)
(* Calls are serialised by nvds_mutex, so one operation runs at a time.    *)
(***************************************************************************)
EXTENDS Integers, Sequences, FiniteSets

CONSTANTS
    Keys,        \* key names
    Values,      \* values that are put
    DataLen,     \* data entries of a value: 0 is ELEMENT_SMALL, else MIDDLE
    JunkLen,     \* data entries a value claims when its data is read as a header
    P,           \* pages (sectors) of the NVDS area
    N,           \* ENTRY_COUNT_PER_PAGE
    MaxSeq,      \* bound: no put starts once a page has this sequence number
    MaxCrashes   \* bound: power losses in a behaviour

ASSUME SizeAssumption == P \in Nat /\ P >= 2 /\ N \in Nat /\ N >= 1
ASSUME LenAssumption ==
    /\ DataLen \in [Values -> Nat]
    /\ JunkLen \in [Values -> Nat]
    /\ \A v \in Values : DataLen[v] < N
    /\ \A v \in Values : N + JunkLen[v] <= 256   \* entry_idx is a uint8_t
ASSUME BoundAssumption == MaxSeq \in Nat /\ MaxCrashes \in Nat

NoVal  == "absent"
NoKey  == "nokey"
NoPage == P
ASSUME NamesAssumption == NoVal \notin Values /\ NoKey \notin Keys

VARIABLES
    flash,     \* the pages
    used,      \* nvds_page_used
    free,      \* nvds_page_free
    nextFree,  \* next_free_idx of each page
    cntUsed,   \* entry_cnt_used of each page
    pc,        \* the next flash access of the call in progress
    op,        \* the call in progress, or the last one power loss cut short
    pg,        \* the page being written or altered
    vic,       \* erase_page of new_page_request
    rng,       \* entries whose state is altered, or the entry being copied
    res,       \* result of the last call that returned
    kv,        \* what nvds_data_get returned for each key when nothing ran last
    crashes,
    recopied   \* history: a page was reclaimed that was CANDIDATE before

vars == <<flash, used, free, nextFree, cntUsed, pc, op, pg, vic, rng, res, kv,
          crashes, recopied>>

-----------------------------------------------------------------------------
(* Flash contents                                                          *)

Pages == 0..(P - 1)
Idx   == 0..(N - 1)

Erased     == [t |-> "erased"]
Hdr(k, v)  == [t |-> "hdr", k |-> k, v |-> v]
Data(v, n) == [t |-> "data", v |-> v, n |-> n]
Junk(s)    == [t |-> "junk", skip |-> s]   \* overwritten: no CRC matches

Entries ==
    {Erased} \cup [t : {"hdr"}, k : Keys, v : Values]
             \cup [t : {"data"}, v : Values, n : 1..N]
             \cup [t : {"junk"}, skip : Nat]

EntryStates == {"FREE", "USED", "UPDATED"}
PageStates  == {"UNINIT", "ACTIVE", "FULL", "CANDIDATE", "ERROR"}
PageRec == [st : PageStates, seq : Nat, es : [Idx -> EntryStates],
            ent : [Idx -> Entries]]

Blank == [st |-> "UNINIT", seq |-> 0, es |-> [i \in Idx |-> "FREE"],
          ent |-> [i \in Idx |-> Erased]]
Broken == [Blank EXCEPT !.st = "ERROR"]

\* Data entries that follow an entry read as a header.
Skip(e) ==
    CASE e.t = "hdr"  -> DataLen[e.v]
      [] e.t = "data" -> JunkLen[e.v]
      [] e.t = "junk" -> e.skip
      [] e.t = "erased" -> 0

\* Programming NOR flash clears bits: writing over an entry that is not erased
\* leaves the AND of both.  ELEMENT_SMALL is type 0, so a SMALL header stays
\* one; otherwise any length below both may come out.
Nor(old, new) ==
    IF old = Erased \/ old = new THEN {new}
    ELSE LET reach(e) == IF e.t = "data" THEN N ELSE Skip(e)
         IN  {Junk(s) : s \in {s \in 0..N : s <= reach(old) /\ s <= reach(new)}}

NorState(old, new) ==
    IF "UPDATED" \in {old, new} THEN "UPDATED" ELSE new

-----------------------------------------------------------------------------
(* Walking a page                                                          *)

Least(S) == CHOOSE x \in S : \A y \in S : x <= y

\* The entries a walk from entry 0 reads when it goes from i to step[i] > i:
\* those that some set of entries S leads to.
Walk(step) ==
    {i \in Idx : \E S \in SUBSET (0..(i - 1)) :
        0 \in S \cup {i} /\ \A j \in S : step[j] \in S \cup {i}}

\* The walk of element_find: it ends at a FREE entry, and skips the data of
\* every header it reads, whether USED or UPDATED.
Visited(p) ==
    Walk([i \in Idx |-> IF flash[p].es[i] = "FREE" THEN N
                        ELSE i + 1 + Skip(flash[p].ent[i])])

\* The walk of pages_load: it skips the data of USED headers only.
LoadVisited(p) ==
    Walk([i \in Idx |-> CASE flash[p].es[i] = "FREE"    -> N
                          [] flash[p].es[i] = "UPDATED" -> i + 1
                          [] flash[p].es[i] = "USED"    ->
                                 i + 1 + Skip(flash[p].ent[i])])

\* element_find
Matches(p, k) ==
    {i \in Visited(p) : /\ flash[p].es[i] = "USED"
                        /\ flash[p].ent[i].t = "hdr"
                        /\ flash[p].ent[i].k = k}

\* Mutant: pages being reclaimed are searched too.
SearchedAll == DOMAIN used

Searched == {n \in DOMAIN used : flash[used[n]].st \in {"ACTIVE", "FULL"}}
MatchingPages(k) == {n \in Searched : Matches(used[n], k) # {}}
Found(k) == MatchingPages(k) # {}

\* Where element_find stops: the first match in the order of the used list.
Find(k) ==
    LET p == used[Least(MatchingPages(k))]
        i == Least(Matches(p, k))
    IN  [page |-> p, idx |-> i, val |-> flash[p].ent[i].v]

\* The data entries behind a header found are those of v.
DataIs(f, v) ==
    \A n \in 1..DataLen[v] :
        /\ f.idx + n \in Idx
        /\ flash[f.page].ent[f.idx + n] = Data(v, n)

\* data_element_get: the value, or NoVal for NVDS_E_NOT_FOUND.
DataElementGet(k) ==
    IF ~Found(k) THEN NoVal
    ELSE LET f == Find(k) IN IF DataIs(f, f.val) THEN f.val ELSE NoVal

\* element_compare: it does not look at the data CRC in the header.
ElementCompare(k, v) ==
    /\ Found(k)
    /\ LET f == Find(k) IN
         /\ DataLen[f.val] = DataLen[v]
         /\ IF DataLen[v] = 0 THEN f.val = v ELSE DataIs(f, v)

Contents == [k \in Keys |-> DataElementGet(k)]

-----------------------------------------------------------------------------
(* The calls                                                               *)

NoOp  == [kind |-> "none", key |-> NoKey, val |-> NoVal]
NoRng == [lo |-> 0, at |-> 0, hi |-> 0]

Cur == used[Len(used)]
Room(p, v) == N - nextFree[p] >= 1 + DataLen[v]

\* The end of a call: nvds_mutex is released.
Return(r) ==
    /\ pc' = "idle"
    /\ op' = NoOp
    /\ pg' = 0
    /\ vic' = NoPage
    /\ rng' = NoRng
    /\ res' = r
    /\ kv' = Contents'
    /\ UNCHANGED <<crashes, recopied>>

ram   == <<used, free, nextFree, cntUsed>>
other == <<res, kv, crashes, recopied>>

\* nvds_data_put of the value already stored: nothing is written.
PutSame(k, v) ==
    /\ pc = "idle"
    /\ ElementCompare(k, v)
    /\ UNCHANGED <<flash, ram>>
    /\ Return("OK")

\* Mutant: the end of the range is one entry too far.
ElementRangeLong(f) ==
    [lo |-> f.idx, at |-> f.idx, hi |-> f.idx + DataLen[f.val] + 1]

\* The entries of an element found, header first.
ElementRange(f) ==
    [lo |-> f.idx, at |-> f.idx, hi |-> f.idx + DataLen[f.val]]

\* Mutant: the header is not counted.
RangeSizeData(r) == r.hi - r.lo

RangeSize(r) == r.hi - r.lo + 1

\* data_element_del of an element that is there.  entry_state_range_alter
\* would refuse a range that leaves the page; TypeOK says there is none.
DeleteStart(k) ==
    LET f == Find(k) IN
        /\ pc' = "delete"
        /\ pg' = f.page
        /\ rng' = ElementRange(f)

\* nvds_data_put begins by deleting the old element, if there is one.
PutStart(k, v) ==
    /\ pc = "idle"
    /\ flash[Cur].seq < MaxSeq
    /\ ~ElementCompare(k, v)
    /\ op' = [kind |-> "put", key |-> k, val |-> v]
    /\ IF Found(k) THEN DeleteStart(k) ELSE pc' = "room" /\ UNCHANGED <<pg, rng>>
    /\ UNCHANGED <<flash, ram, vic, other>>

DelStart(k) ==
    /\ pc = "idle"
    /\ Found(k)
    /\ op' = [kind |-> "del", key |-> k, val |-> NoVal]
    /\ DeleteStart(k)
    /\ UNCHANGED <<flash, ram, vic, other>>

DelMissing(k) ==
    /\ pc = "idle"
    /\ ~Found(k)
    /\ UNCHANGED <<flash, ram>>
    /\ Return("NOT_FOUND")

SetState(p, i, s) ==
    flash' = [flash EXCEPT ![p].es[i] = NorState(flash[p].es[i], s)]

\* data_element_del marks the entries UPDATED one by one; the count of used
\* entries follows once all are marked.
MarkUpdated ==
    /\ pc = "delete"
    /\ rng.at < rng.hi
    /\ SetState(pg, rng.at, "UPDATED")
    /\ rng' = [rng EXCEPT !.at = @ + 1]
    /\ UNCHANGED <<ram, pc, op, pg, vic, other>>

Deleted ==
    /\ pc = "delete"
    /\ rng.at = rng.hi
    /\ SetState(pg, rng.at, "UPDATED")
    /\ cntUsed' = [cntUsed EXCEPT ![pg] = @ - RangeSize(rng)]
    /\ UNCHANGED <<used, free, nextFree>>
    /\ IF op.kind = "del"
         THEN Return("OK")
         ELSE /\ pc' = "room"
              /\ pg' = 0
              /\ rng' = NoRng
              /\ UNCHANGED <<op, vic, other>>

\* data_element_put refuses to write to a page that is not ACTIVE or FULL.
SanityFail ==
    /\ pc = "room"
    /\ flash[Cur].st \notin {"UNINIT", "ACTIVE", "FULL"}
    /\ UNCHANGED <<flash, ram>>
    /\ Return("FAIL")

HasRoom ==
    /\ pc = "room"
    /\ flash[Cur].st \in {"UNINIT", "ACTIVE", "FULL"}
    /\ Room(Cur, op.val)
    /\ pc' = "write"
    /\ pg' = Cur
    /\ UNCHANGED <<flash, ram, op, vic, rng, other>>

MarkFull ==
    /\ pc = "room"
    /\ flash[Cur].st \in {"UNINIT", "ACTIVE", "FULL"}
    /\ ~Room(Cur, op.val)
    /\ flash' = [flash EXCEPT ![Cur].st = "FULL"]
    /\ pc' = "request"
    /\ UNCHANGED <<ram, op, pg, vic, rng, other>>

-----------------------------------------------------------------------------
(* new_page_request                                                        *)

\* The first used page with the fewest used entries, if it has one to spare.
Reclaimable == {n \in DOMAIN used : cntUsed[used[n]] < N}

\* Mutant: the fullest page is chosen.
MostUsed ==
    {n \in Reclaimable : \A m \in Reclaimable : cntUsed[used[n]] >= cntUsed[used[m]]}

FewestUsed ==
    {n \in Reclaimable : \A m \in Reclaimable : cntUsed[used[n]] <= cntUsed[used[m]]}
ErasePage ==
    IF Len(free) = 1 /\ FewestUsed # {} THEN used[Least(FewestUsed)] ELSE NoPage

NoPageToGive == Len(free) = 0 \/ (Len(free) = 1 /\ ErasePage = NoPage)

RequestFails ==
    /\ pc = "request"
    /\ NoPageToGive
    /\ UNCHANGED <<flash, ram>>
    /\ Return("NO_SPACE")

RequestPage ==
    /\ pc = "request"
    /\ ~NoPageToGive
    /\ vic' = ErasePage
    /\ pg' = Head(free)
    /\ pc' = IF flash[Head(free)].st = "UNINIT" THEN "header" ELSE "erase"
    /\ recopied' = \/ recopied
                   \/ ErasePage # NoPage /\ flash[ErasePage].st = "CANDIDATE"
    /\ UNCHANGED <<flash, ram, op, rng, res, kv, crashes>>

EraseFree ==
    /\ pc = "erase"
    /\ flash' = [flash EXCEPT ![pg] = Blank]
    /\ pc' = "header"
    /\ UNCHANGED <<ram, op, pg, vic, rng, other>>

\* The header of the new page is written and the page joins the used list.
\* While other free pages are left it is ready; pages_load asks for the first
\* page of an empty area this way too.
WriteHeader ==
    /\ pc = "header"
    /\ flash' = [flash EXCEPT ![pg].st = "ACTIVE",
                              ![pg].seq = IF used = <<>> THEN 0
                                          ELSE flash[Cur].seq + 1]
    /\ nextFree' = [nextFree EXCEPT ![pg] = 0]
    /\ cntUsed'  = [cntUsed EXCEPT ![pg] = 0]
    /\ free' = Tail(free)
    /\ used' = Append(used, pg)
    /\ CASE op.kind # "put" -> Return("OK")
         [] op.kind = "put" ->
              /\ pc' = IF free' = <<>> THEN "candidate" ELSE "recheck"
              /\ UNCHANGED <<op, pg, vic, rng, other>>

\* list_extract
Extract(s, p) ==
    LET n == Least({m \in DOMAIN s : s[m] = p})
    IN  SubSeq(s, 1, n - 1) \o SubSeq(s, n + 1, Len(s))

\* The last free page is gone: the victim leaves the used list to replace it.
MarkCandidate ==
    /\ pc = "candidate"
    /\ used' = Extract(used, vic)
    /\ free' = Append(free, vic)
    /\ flash' = [flash EXCEPT ![vic].st = "CANDIDATE"]
    /\ pc' = "copy"
    /\ UNCHANGED <<nextFree, cntUsed, op, pg, vic, rng, other>>

\* Mutant: the walk starts one entry late.
ToCopyLate == {i \in (rng.at + 1)..(N - 1) : flash[vic].es[i] = "USED"}

ToCopy == {i \in rng.at..(N - 1) : flash[vic].es[i] = "USED"}

\* Each USED entry of the victim is written to the new page, and only then
\* marked USED there.
CopyEntry ==
    /\ pc = "copy"
    /\ ToCopy # {}
    /\ \E e \in Nor(flash[pg].ent[nextFree[pg]], flash[vic].ent[Least(ToCopy)]) :
         flash' = [flash EXCEPT ![pg].ent[nextFree[pg]] = e]
    /\ nextFree' = [nextFree EXCEPT ![pg] = @ + 1]
    /\ cntUsed'  = [cntUsed EXCEPT ![pg] = @ + 1]
    /\ rng' = [rng EXCEPT !.at = Least(ToCopy) + 1]
    /\ pc' = "copied"
    /\ UNCHANGED <<used, free, op, pg, vic, other>>

CopyMark ==
    /\ pc = "copied"
    /\ SetState(pg, nextFree[pg] - 1, "USED")
    /\ pc' = "copy"
    /\ UNCHANGED <<ram, op, pg, vic, rng, other>>

EraseVictim ==
    /\ pc = "copy"
    /\ ToCopy = {}
    /\ flash' = [flash EXCEPT ![vic] = Blank]
    /\ nextFree' = [nextFree EXCEPT ![vic] = 0]
    /\ cntUsed'  = [cntUsed EXCEPT ![vic] = 0]
    /\ vic' = NoPage
    /\ rng' = NoRng
    /\ pc' = "recheck"
    /\ UNCHANGED <<used, free, op, pg, other>>

\* Back in data_element_put: is there room in the new page?
StillNoRoom ==
    /\ pc = "recheck"
    /\ ~Room(pg, op.val)
    /\ UNCHANGED <<flash, ram>>
    /\ Return("NO_SPACE")

RoomNow ==
    /\ pc = "recheck"
    /\ Room(pg, op.val)
    /\ pc' = "write"
    /\ UNCHANGED <<flash, ram, op, pg, vic, rng, other>>

-----------------------------------------------------------------------------
(* Writing the new element                                                 *)

WriteEntry ==
    /\ pc = "write"
    /\ LET i == nextFree[pg] IN
         /\ \E e \in Nor(flash[pg].ent[i], Hdr(op.key, op.val)) :
              flash' = [flash EXCEPT ![pg].ent[i] = e]
         /\ rng' = [lo |-> i, at |-> i, hi |-> i + DataLen[op.val]]
    /\ nextFree' = [nextFree EXCEPT ![pg] = @ + 1]
    /\ cntUsed'  = [cntUsed EXCEPT ![pg] = @ + 1]
    /\ pc' = IF DataLen[op.val] = 0 THEN "mark" ELSE "data"
    /\ UNCHANGED <<used, free, op, pg, vic, other>>

\* entry_data_write: one write for all data entries.
WriteData ==
    /\ pc = "data"
    /\ \E e \in [rng.lo + 1 .. rng.hi ->
                   UNION {Nor(flash[pg].ent[i], Data(op.val, i - rng.lo)) :
                             i \in rng.lo + 1 .. rng.hi}] :
         /\ \A i \in DOMAIN e :
              e[i] \in Nor(flash[pg].ent[i], Data(op.val, i - rng.lo))
         /\ flash' = [flash EXCEPT ![pg].ent =
                        [i \in Idx |-> IF i \in DOMAIN e THEN e[i] ELSE @[i]]]
    /\ nextFree' = [nextFree EXCEPT ![pg] = @ + DataLen[op.val]]
    /\ cntUsed'  = [cntUsed EXCEPT ![pg] = @ + DataLen[op.val]]
    /\ pc' = "mark"
    /\ UNCHANGED <<used, free, op, pg, vic, rng, other>>

\* The states of the new entries become USED one by one, header first.
MarkUsed ==
    /\ pc = "mark"
    /\ rng.at < rng.hi
    /\ SetState(pg, rng.at, "USED")
    /\ rng' = [rng EXCEPT !.at = @ + 1]
    /\ UNCHANGED <<ram, pc, op, pg, vic, other>>

Stored ==
    /\ pc = "mark"
    /\ rng.at = rng.hi
    /\ SetState(pg, rng.at, "USED")
    /\ UNCHANGED ram
    /\ Return("OK")

-----------------------------------------------------------------------------
(* nvds_clean, loading and power loss                                      *)

NoRam ==
    /\ used' = <<>>
    /\ free' = <<>>
    /\ nextFree' = [p \in Pages |-> 0]
    /\ cntUsed' = [p \in Pages |-> 0]

CleanStart ==
    /\ pc = "idle"
    /\ op' = [NoOp EXCEPT !.kind = "clean"]
    /\ pg' = 0
    /\ pc' = "clean"
    /\ UNCHANGED <<flash, ram, vic, rng, other>>

\* Mutant: the sector address is not advanced.
CleanPageStuck ==
    /\ pc = "clean"
    /\ flash' = [flash EXCEPT ![pg] = Blank]
    /\ UNCHANGED <<ram, pc, op, pg, vic, rng, other>>

\* raw_flash_erase goes from sector to sector; the environment is then
\* cleared and loaded again.
CleanPage ==
    /\ pc = "clean"
    /\ flash' = [flash EXCEPT ![pg] = Blank]
    /\ IF pg = P - 1
         THEN pg' = 0 /\ pc' = "down" /\ NoRam /\ recopied' = FALSE
         ELSE pg' = pg + 1 /\ UNCHANGED <<pc, ram, recopied>>
    /\ UNCHANGED <<op, vic, rng, res, kv, crashes>>

\* Mutant: only the page being filled is loaded.
LoadedActive(p) == flash[p].st = "ACTIVE"

Loaded(p) == flash[p].st \in {"ACTIVE", "FULL", "CANDIDATE"}

\* USED entries whose header CRC is wrong: pages_load marks them UPDATED.
BadEntries ==
    {x \in Pages \X Idx :
        /\ Loaded(x[1])
        /\ x[2] \in LoadVisited(x[1])
        /\ flash[x[1]].es[x[2]] = "USED"
        /\ flash[x[1]].ent[x[2]].t # "hdr"}

MarkedUpdated(bad) ==
    [p \in Pages |-> [flash[p] EXCEPT !.es =
        [i \in Idx |-> IF <<p, i>> \in bad THEN "UPDATED" ELSE @[i]]]]

\* next_free_idx and entry_cnt_used as the walk leaves them.
LoadNextFree(p) ==
    LET f == {i \in LoadVisited(p) : flash[p].es[i] = "FREE"}
    IN  IF f = {} THEN N ELSE Least(f)
LoadCntUsed(p) ==
    Cardinality(UNION {i .. i + Skip(flash[p].ent[i]) :
        i \in {j \in LoadVisited(p) : flash[p].es[j] = "USED"}})

\* The lists: list_insert keeps used pages in the order of their sequence
\* numbers, free pages come in sector order.
InSectorOrder(S) ==
    {s \in [1..Cardinality(S) -> S] :
        \A m, n \in DOMAIN s : m < n => s[m] < s[n]}
InSeqOrder(S) ==
    {s \in [1..Cardinality(S) -> S] :
        \A m, n \in DOMAIN s : m < n => flash[s[m]].seq < flash[s[n]].seq}

LoadedPages == {p \in Pages : Loaded(p)}

PagesLoad ==
    /\ pc = "down"
    /\ flash' = MarkedUpdated(BadEntries)
    /\ used' \in InSeqOrder(LoadedPages)
    /\ free' \in InSectorOrder(Pages \ LoadedPages)
    /\ nextFree' = [p \in Pages |-> IF Loaded(p) THEN LoadNextFree(p) ELSE 0]
    /\ cntUsed'  = [p \in Pages |-> IF Loaded(p) THEN LoadCntUsed(p) ELSE 0]
    /\ IF used' # <<>>
         THEN Return("OK")
         ELSE /\ pg' = 0
              /\ pc' = IF flash[0].st = "UNINIT" THEN "header" ELSE "erase"
              /\ op' = [NoOp EXCEPT !.kind = IF op.kind = "clean" THEN "clean"
                                                                ELSE "load"]
              /\ vic' = NoPage
              /\ UNCHANGED <<rng, other>>

\* Power is lost again while pages_load marks bad entries, in page order.
LoadInterrupted ==
    /\ pc = "down"
    /\ crashes < MaxCrashes
    /\ \E c \in BadEntries :
         flash' = MarkedUpdated({x \in BadEntries :
                      x[1] < c[1] \/ (x[1] = c[1] /\ x[2] <= c[2])})
    /\ crashes' = crashes + 1
    /\ UNCHANGED <<ram, pc, op, pg, vic, rng, res, kv, recopied>>

PowerLoss ==
    /\ pc # "down"
    /\ crashes < MaxCrashes
    /\ crashes' = crashes + 1
    /\ pc' = "down"
    /\ NoRam
    /\ pg' = 0
    /\ rng' = NoRng
    /\ UNCHANGED <<op, vic, res, kv, recopied>>

\* Power loss between two flash accesses.
Crash ==
    /\ PowerLoss
    /\ UNCHANGED flash

\* Power loss inside a sector erase or the write of a page header: the page
\* is left without a valid header.
CrashTorn ==
    /\ pc \in {"erase", "header", "clean"} \/ (pc = "copy" /\ ToCopy = {})
    /\ PowerLoss
    /\ flash' = [flash EXCEPT ![IF pc = "copy" THEN vic ELSE pg] = Broken]

-----------------------------------------------------------------------------
Init ==
    /\ flash = [p \in Pages |-> Blank]
    /\ used = <<>>
    /\ free = <<>>
    /\ nextFree = [p \in Pages |-> 0]
    /\ cntUsed = [p \in Pages |-> 0]
    /\ pc = "down"
    /\ op = NoOp
    /\ pg = 0
    /\ vic = NoPage
    /\ rng = NoRng
    /\ res = "OK"
    /\ kv = [k \in Keys |-> NoVal]
    /\ crashes = 0
    /\ recopied = FALSE

\* The steps of a call, or of loading, once it has begun.
Step ==
    \/ MarkUpdated \/ Deleted
    \/ SanityFail \/ HasRoom \/ MarkFull
    \/ RequestFails \/ RequestPage \/ EraseFree \/ WriteHeader
    \/ MarkCandidate \/ CopyEntry \/ CopyMark \/ EraseVictim
    \/ StillNoRoom \/ RoomNow
    \/ WriteEntry \/ WriteData \/ MarkUsed \/ Stored
    \/ CleanPage \/ PagesLoad

Call ==
    \/ \E k \in Keys, v \in Values : PutSame(k, v) \/ PutStart(k, v)
    \/ \E k \in Keys : DelStart(k) \/ DelMissing(k)
    \/ CleanStart

Next == Step \/ Call \/ LoadInterrupted \/ Crash \/ CrashTorn

Spec == Init /\ [][Next]_vars

\* The task that made a call is scheduled until the call returns.
FairSpec == Spec /\ WF_vars(Step)
-----------------------------------------------------------------------------
(* Properties                                                              *)

RngRec == [lo : Idx, at : 0..N, hi : Idx]
OpRec  == [kind : {"none", "put", "del", "clean", "load"},
           key : Keys \cup {NoKey}, val : Values \cup {NoVal}]

TypeOK ==
    /\ flash \in [Pages -> PageRec]
    /\ used \in Seq(Pages)
    /\ free \in Seq(Pages)
    /\ nextFree \in [Pages -> 0..N]
    /\ cntUsed \in [Pages -> Int]
    /\ pc \in {"idle", "down", "delete", "room", "request", "erase", "header",
               "candidate", "copy", "copied", "recheck", "write", "data",
               "mark", "clean"}
    /\ op \in OpRec
    /\ pg \in Pages
    /\ vic \in Pages \cup {NoPage}
    /\ rng \in RngRec
    /\ res \in {"OK", "NO_SPACE", "FAIL", "NOT_FOUND"}
    /\ kv \in [Keys -> Values \cup {NoVal}]
    /\ crashes \in Nat
    /\ recopied \in BOOLEAN

\* With power on, put, get, del and clean of nvds_flash.h work on a map: page
\* changes and garbage collection never show.  The map is kv, what the flash held
\* when the last call returned (Return copies it), and changes at returns only.
KvStoreView == INSTANCE KvStore WITH kv <- kv, res <- res
ImplementsKvStore == KvStoreView!Spec

LiveCount(p) == Cardinality({i \in Idx : flash[p].es[i] = "USED"})

\* Between calls entry_cnt_used, which chooses the page to reclaim, is the
\* number of USED entries of the page.
CountsExact ==
    pc = "idle" => \A n \in DOMAIN used : cntUsed[used[n]] = LiveCount(used[n])

NoRoomFor(len) == \A n \in DOMAIN used : LiveCount(used[n]) + 1 + len > N

\* nvds_flash.h, on NVDS_E_NO_SPACE: "New element value can not fit in the
\* available space in the NVDS".  A put is refused only when no page would
\* hold the new element beside its live entries.
NoSpaceOnlyWhenFull ==
    [][pc # "idle" /\ pc' = "idle" /\ res' = "NO_SPACE" =>
          \A len \in {DataLen[op.val]} : NoRoomFor(len)']_vars

\* nvds_flash.h, on NVDS_OK of nvds_data_put: "New data element correctly
\* written to the nvds flash".
PutOkStored ==
    [][op.kind = "put" /\ pc # "idle" /\ pc # "down" /\ pc' = "idle" /\ res' = "OK" =>
          kv'[op.key] = op.val]_vars

\* Every call returns, garbage collection included, and so does loading.
EveryCallReturns == pc # "idle" ~> pc = "idle"

AllSmall == \A v \in Values : DataLen[v] = 0

\* element_find can reach at most one live copy of a key: a key that is deleted
\* or replaced never comes back.  Without power losses this holds for all
\* elements, and for SMALL ones with any number of losses, but for one case:
\* nvds_clean, cut short, made a free page again and the next reclaim copied the
\* page that an earlier, also cut short, reclaim had marked CANDIDATE.
LiveCopies(k) ==
    {x \in Pages \X Idx : /\ \E n \in Searched : used[n] = x[1]
                          /\ x[2] \in Matches(x[1], k)}
OneLiveCopy ==
    ~recopied /\ (AllSmall \/ crashes = 0) =>
        \A k \in Keys : Cardinality(LiveCopies(k)) <= 1

\* A call changes what is read for its own key only: always while power stays on
\* and, for SMALL elements, on the flash that power losses leave behind, with the
\* exception above.
OthersUndisturbed ==
    [][op.kind \in {"put", "del"} /\ pc \notin {"idle", "down"} /\ pc' = "idle" =>
          \/ recopied
          \/ ~AllSmall /\ crashes > 0
          \/ \A k \in Keys \ {op.key} : kv'[k] = kv[k]]_vars

\* A power loss costs at most the element being put or deleted and, once the page
\* to reclaim is marked CANDIDATE, elements of that page; nothing old comes back.
\* For SMALL elements this holds for every loss, with the exception above, and
\* with MIDDLE ones for the first.
LostWith(k) ==
    /\ vic # NoPage
    /\ flash[vic].st = "CANDIDATE"
    /\ \E i \in Idx : flash[vic].ent[i].t = "hdr" /\ flash[vic].ent[i].k = k
PowerLossContained ==
    [][pc = "down" /\ pc' # "down" /\ op.kind # "clean" =>
          \/ recopied
          \/ ~AllSmall /\ crashes > 1
          \/ \A k \in Keys : \/ Contents'[k] = kv[k]
                             \/ k = op.key /\ Contents'[k] \in {NoVal, op.val}
                             \/ Contents'[k] = NoVal /\ LostWith(k)]_vars
=============================================================================
