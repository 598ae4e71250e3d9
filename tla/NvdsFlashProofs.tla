--------------------------- MODULE NvdsFlashProofs ---------------------------
(***************************************************************************)
(* The NVDS store for every number of pages, page size, set of keys and set *)
(* of values.                                                               *)
(***************************************************************************)
EXTENDS NvdsFlash, FiniteSetTheorems, WellFoundedInduction, TLAPS

\* A header leaves room for its data in its page.
Fits(e, i) == e.t = "hdr" => i + DataLen[e.v] < N
GoodPage(r) == r \in PageRec /\ \A i \in Idx : Fits(r.ent[i], i)
HdrFits == \A p \in Pages : GoodPage(flash[p])

\* What reading the store takes from its state.
Readable == flash \in [Pages -> PageRec] /\ HdrFits /\ used \in Seq(Pages)

PutSteps == {"room", "request", "candidate", "copy", "copied", "recheck", "write",
             "data", "mark"}

\* What each flash access of a call may rely on: the lists have the pages that it
\* takes from them, and the entries that it writes or marks are in the page.
Prepared ==
    /\ op.kind = "put" => op.key \in Keys /\ op.val \in Values
    /\ pc \in PutSteps => op.kind = "put"
    /\ pc = "delete" => op.kind \in {"put", "del"}
    /\ pc \notin {"down", "erase", "header"} => used # <<>>
    /\ pc \in {"delete", "data", "mark"} => rng.at <= rng.hi
    /\ pc \in {"erase", "header"} =>
         /\ free # <<>>
         /\ op.kind = "put" => /\ used # <<>>
                               /\ Len(free) = 1 => \E n \in DOMAIN used : used[n] = vic
    /\ pc = "candidate" => Len(used) >= 2 /\ \E n \in DOMAIN used : used[n] = vic
    /\ pc \in {"candidate", "copy", "copied"} => vic \in Pages /\ nextFree[pg] <= rng.at
    /\ pc = "copied" => nextFree[pg] >= 1
    /\ pc = "write" => Room(pg, op.val)
    /\ pc = "data" => nextFree[pg] = rng.lo + 1 /\ rng.hi = rng.lo + DataLen[op.val]

TypeInv == TypeOK /\ HdrFits /\ Prepared

-----------------------------------------------------------------------------
(* Least elements and finite sets                                           *)

\* The library's least-number principle takes an operator; this one, for sets,
\* comes from the fact that inclusion is well founded on finite sets: of the sets
\* of smaller elements one is minimal.
LEMMA LeastNat ==
  ASSUME NEW S \in SUBSET Nat, S # {}
  PROVE  Least(S) \in S /\ \A y \in S : Least(S) <= y
<1> DEFINE Below(x) == {y \in S : y < x}
           F == {Below(x) : x \in S}
<1>. \A y \in S : y \in Nat
  OBVIOUS
<1>1. \A z \in S : Below(z) \in FiniteSubsetsOf(Nat)
  <2> TAKE z \in S
  <2> DEFINE B == Below(z)
  <2>1. B \subseteq Nat /\ z \in Nat
    OBVIOUS
  <2>2. \A y \in B : y <= z
    OBVIOUS
  <2>. HIDE DEF B
  <2>3. IsFiniteSet(B)
    BY <2>1, <2>2, FS_BoundedSetOfNaturals
  <2>. QED
    BY <2>1, <2>3 DEF FiniteSubsetsOf, B
<1>2. F \subseteq FiniteSubsetsOf(Nat) /\ F # {}
  BY <1>1
<1>. HIDE DEF F
<1>3. PICK m \in F : \A u \in F : ~(<<u, m>> \in StrictSubsetOrdering(Nat))
  BY <1>2, FS_StrictSubsetOrderingWellFounded, WFMin
<1>4. PICK x \in S : m = Below(x)
  BY <1>3 DEF F
<1>5. \A y \in S : x <= y
  <2> SUFFICES ASSUME NEW y \in S, y < x PROVE FALSE
    OBVIOUS
  <2>1. Below(y) \in F
    BY DEF F
  <2>2. \A z \in Below(y) : z \in Below(x)
    OBVIOUS
  <2>3. y \in Below(x) /\ y \notin Below(y)
    OBVIOUS
  <2>4. Below(y) \in SUBSET Nat /\ Below(x) \in SUBSET Nat
    OBVIOUS
  <2>. HIDE DEF Below
  <2>5. <<Below(y), Below(x)>> \in StrictSubsetOrdering(Nat)
    BY <2>2, <2>3, <2>4 DEF StrictSubsetOrdering
  <2>. QED
    BY <1>3, <1>4, <2>1, <2>5
<1>. QED
  BY <1>5 DEF Least

-----------------------------------------------------------------------------
(* Reading                                                                  *)

\* element_find returns the place of a header and its data.
LEMMA FindType ==
  ASSUME Readable, NEW k \in Keys, Found(k)
  PROVE  LET f == Find(k)
         IN  /\ f.page \in Pages /\ f.idx \in Idx /\ f.val \in Values
             /\ f.idx \in Matches(f.page, k) /\ f.val = flash[f.page].ent[f.idx].v
             /\ f.idx + DataLen[f.val] < N
             /\ \E n \in Searched : f.page = used[n]
<1> DEFINE n == Least(MatchingPages(k))
           p == used[n]
           i == Least(Matches(p, k))
<1>1. MatchingPages(k) \subseteq Nat
  BY DEF MatchingPages, Searched, Readable
<1>2. n \in MatchingPages(k)
  BY <1>1, LeastNat DEF Found
<1>. HIDE DEF n
<1>3. n \in DOMAIN used /\ n \in Searched /\ Matches(p, k) # {}
  BY <1>2 DEF MatchingPages, Searched
<1>4. p \in Pages
  BY <1>3 DEF Readable
<1>5. Matches(p, k) \subseteq Nat
  BY SizeAssumption DEF Matches, Visited, Walk, Idx
<1>6. i \in Matches(p, k)
  BY <1>3, <1>5, LeastNat
<1>. HIDE DEF i
<1>7. i \in Idx /\ flash[p].ent[i].t = "hdr"
  BY <1>6 DEF Matches, Visited, Walk
<1>8. GoodPage(flash[p])
  BY <1>4 DEF Readable, HdrFits
<1>9. flash[p].ent[i].v \in Values
  BY <1>7, <1>8 DEF GoodPage, PageRec, Entries, Erased
<1>10. i + DataLen[flash[p].ent[i].v] < N
  BY <1>7, <1>8 DEF GoodPage, Fits
<1>11. Find(k) = [page |-> p, idx |-> i, val |-> flash[p].ent[i].v]
  BY DEF Find, i, n
<1>. HIDE DEF p
<1>. QED
  BY <1>3, <1>4, <1>6, <1>7, <1>9, <1>10, <1>11 DEF p

LEMMA ContentsType == Readable => Contents \in [Keys -> Values \cup {NoVal}]
<1> SUFFICES ASSUME Readable, NEW k \in Keys
             PROVE  DataElementGet(k) \in Values \cup {NoVal}
  BY DEF Contents
<1>1. Found(k) => Find(k).val \in Values
  BY FindType
<1>. QED
  BY <1>1 DEF DataElementGet

LEMMA ReturnType ==
  ASSUME Readable', NEW r \in {"OK", "NO_SPACE", "FAIL", "NOT_FOUND"}, Return(r),
         crashes \in Nat, recopied \in BOOLEAN
  PROVE  /\ pc' = "idle" /\ op' = NoOp /\ pg' = 0 /\ vic' = NoPage /\ rng' = NoRng
         /\ res' = r /\ crashes' \in Nat /\ recopied' \in BOOLEAN
         /\ kv' \in [Keys -> Values \cup {NoVal}]
<1>1. Readable' => (Contents \in [Keys -> Values \cup {NoVal}])'
  BY ContentsType, PTL
<1>. QED
  BY <1>1 DEF Return

-----------------------------------------------------------------------------
(* Writing pages                                                            *)

LEMMA EntryTypes ==
  /\ Erased \in Entries /\ Erased.t = "erased"
  /\ \A k \in Keys, v \in Values :
       Hdr(k, v) \in Entries /\ Hdr(k, v).t = "hdr" /\ Hdr(k, v).v = v /\ Hdr(k, v).k = k
  /\ \A v \in Values, n \in 1..N : Data(v, n) \in Entries /\ Data(v, n).t = "data"
  /\ \A s \in Nat : Junk(s) \in Entries /\ Junk(s).t = "junk"
BY DEF Entries, Erased, Hdr, Data, Junk

\* Programming gives the new entry, or one without a valid CRC.
LEMMA NorType ==
  ASSUME NEW old, NEW new \in Entries, NEW e \in Nor(old, new)
  PROVE  e \in Entries /\ (e = new \/ e.t = "junk")
<1>1. e = new \/ \E s \in 0..N : e = Junk(s)
  BY DEF Nor
<1>. QED
  BY <1>1, EntryTypes

LEMMA StateType ==
  ASSUME NEW old, NEW s \in EntryStates
  PROVE  NorState(old, s) \in EntryStates
BY DEF NorState, EntryStates

LEMMA BlankGood == GoodPage(Blank) /\ GoodPage(Broken)
<1>1. /\ Blank \in PageRec /\ \A i \in Idx : Blank.ent[i] = Erased
  BY EntryTypes DEF Blank, PageRec, PageStates, EntryStates
<1>2. Broken \in PageRec /\ Broken.ent = Blank.ent
  BY <1>1 DEF Broken, PageRec, PageStates
<1>. QED
  BY <1>1, <1>2, EntryTypes DEF GoodPage, Fits

\* Changes of one field of a page.
LEMMA PageChange ==
  ASSUME NEW r, GoodPage(r)
  PROVE  /\ \A x \in PageStates : GoodPage([r EXCEPT !.st = x])
         /\ \A x \in PageStates, n \in Nat : GoodPage([r EXCEPT !.st = x, !.seq = n])
         /\ \A es \in [Idx -> EntryStates] : GoodPage([r EXCEPT !.es = es])
         /\ \A ent \in [Idx -> Entries] :
              (\A i \in Idx : Fits(ent[i], i)) => GoodPage([r EXCEPT !.ent = ent])
<1>1. ASSUME NEW x \in PageStates PROVE GoodPage([r EXCEPT !.st = x])
  BY DEF GoodPage, PageRec
<1>2. ASSUME NEW x \in PageStates, NEW n \in Nat
      PROVE  GoodPage([r EXCEPT !.st = x, !.seq = n])
  BY DEF GoodPage, PageRec
<1>3. ASSUME NEW es \in [Idx -> EntryStates] PROVE GoodPage([r EXCEPT !.es = es])
  BY DEF GoodPage, PageRec
<1>4. ASSUME NEW ent \in [Idx -> Entries], \A i \in Idx : Fits(ent[i], i)
      PROVE  GoodPage([r EXCEPT !.ent = ent])
  <2> DEFINE u == [r EXCEPT !.ent = ent]
  <2>1. u \in PageRec /\ u.ent = ent
    BY DEF GoodPage, PageRec
  <2>. HIDE DEF u
  <2>2. GoodPage(u)
    BY <1>4, <2>1 DEF GoodPage
  <2>. QED
    BY <2>2 DEF u
<1>. QED
  BY <1>1, <1>2, <1>3, <1>4

\* One page of the flash changes.
LEMMA FlashChange ==
  ASSUME flash \in [Pages -> PageRec], HdrFits, NEW p, NEW r,
         p \in Pages => GoodPage(r), flash' = [flash EXCEPT ![p] = r]
  PROVE  flash' \in [Pages -> PageRec] /\ HdrFits'
<1>1. \A q \in Pages : GoodPage(flash[q]) /\ flash[q] \in PageRec
  BY DEF HdrFits
<1>2. \A q \in Pages : flash'[q] = IF q = p THEN r ELSE flash[q]
  OBVIOUS
<1>3. \A q \in Pages : GoodPage(flash'[q])
  BY <1>1, <1>2
<1>4. flash' \in [Pages -> PageRec]
  BY <1>3 DEF GoodPage
<1>. QED
  BY <1>3, <1>4 DEF HdrFits

LEMMA FlashState ==
  ASSUME flash \in [Pages -> PageRec], HdrFits, NEW p, NEW x \in PageStates,
         flash' = [flash EXCEPT ![p].st = x]
  PROVE  flash' \in [Pages -> PageRec] /\ HdrFits'
<1>1. flash' = [flash EXCEPT ![p] = [flash[p] EXCEPT !.st = x]]
  OBVIOUS
<1>2. p \in Pages => GoodPage([flash[p] EXCEPT !.st = x])
  BY PageChange DEF HdrFits
<1>. QED
  BY <1>1, <1>2, FlashChange

LEMMA FlashMark ==
  ASSUME flash \in [Pages -> PageRec], HdrFits, NEW p, NEW i, NEW s \in EntryStates,
         SetState(p, i, s)
  PROVE  flash' \in [Pages -> PageRec] /\ HdrFits'
<1> DEFINE x == NorState(flash[p].es[i], s)
           es == [flash[p].es EXCEPT ![i] = x]
<1>1. x \in EntryStates
  BY StateType
<1>2. flash' = [flash EXCEPT ![p] = [flash[p] EXCEPT !.es = es]]
  BY DEF SetState
<1>. HIDE DEF x
<1>3. p \in Pages => es \in [Idx -> EntryStates] /\ GoodPage(flash[p])
  BY <1>1 DEF PageRec, HdrFits
<1>. HIDE DEF es
<1>4. p \in Pages => GoodPage([flash[p] EXCEPT !.es = es])
  BY <1>3, PageChange
<1>. QED
  BY <1>2, <1>4, FlashChange

LEMMA FlashWrite ==
  ASSUME flash \in [Pages -> PageRec], HdrFits, NEW p, NEW i, NEW e \in Entries,
         Fits(e, i), flash' = [flash EXCEPT ![p].ent[i] = e]
  PROVE  flash' \in [Pages -> PageRec] /\ HdrFits'
<1> DEFINE ent == [flash[p].ent EXCEPT ![i] = e]
<1>1. flash' = [flash EXCEPT ![p] = [flash[p] EXCEPT !.ent = ent]]
  OBVIOUS
<1>2. p \in Pages => GoodPage([flash[p] EXCEPT !.ent = ent])
  <2> HAVE p \in Pages
  <2>1. GoodPage(flash[p]) /\ flash[p].ent \in [Idx -> Entries]
    BY DEF HdrFits, PageRec
  <2>2. ent \in [Idx -> Entries] /\ \A j \in Idx : ent[j] = IF j = i THEN e ELSE flash[p].ent[j]
    BY <2>1
  <2>. HIDE DEF ent
  <2>3. \A j \in Idx : Fits(ent[j], j)
    BY <2>1, <2>2 DEF GoodPage
  <2>. QED
    BY <2>1, <2>2, <2>3, PageChange
<1>. HIDE DEF ent
<1>. QED
  BY <1>1, <1>2, FlashChange

LEMMA FlashUpdated ==
  ASSUME flash \in [Pages -> PageRec], HdrFits, NEW bad, flash' = MarkedUpdated(bad)
  PROVE  flash' \in [Pages -> PageRec] /\ HdrFits'
<1>1. ASSUME NEW p \in Pages PROVE GoodPage(flash'[p])
  <2> DEFINE es == [i \in Idx |-> IF <<p, i>> \in bad THEN "UPDATED" ELSE flash[p].es[i]]
  <2>1. flash'[p] = [flash[p] EXCEPT !.es = es]
    BY DEF MarkedUpdated
  <2>2. es \in [Idx -> EntryStates]
    BY DEF PageRec, EntryStates
  <2>. HIDE DEF es
  <2>3. GoodPage(flash[p])
    BY DEF HdrFits
  <2>4. GoodPage([flash[p] EXCEPT !.es = es])
    BY <2>2, <2>3, PageChange
  <2>. QED
    BY <2>1, <2>4, Zenon
<1>2. flash' \in [Pages -> PageRec]
  <2>1. flash' = [p \in Pages |-> flash'[p]]
    BY DEF MarkedUpdated
  <2>. QED
    BY <1>1, <2>1 DEF GoodPage
<1>. QED
  BY <1>1, <1>2 DEF HdrFits

-----------------------------------------------------------------------------
(* The actions keep the types                                               *)

LEMMA Idle ==
  /\ NoOp \in OpRec /\ NoOp.kind = "none" /\ NoRng \in RngRec /\ 0 \in Pages
  /\ NoRng.at = 0 /\ NoRng.lo = 0 /\ NoRng.hi = 0 /\ NoPage \notin Pages
  /\ 0 \in Idx /\ Idx \subseteq Nat /\ Pages \subseteq Nat
BY SizeAssumption DEF NoOp, OpRec, NoRng, RngRec, Idx, Pages, NoPage

\* The end of a call.
LEMMA ReturnInv ==
  ASSUME TypeInv, flash' \in [Pages -> PageRec], HdrFits', used' \in Seq(Pages),
         used' # <<>>, free' \in Seq(Pages), nextFree' \in [Pages -> 0..N],
         cntUsed' \in [Pages -> Int],
         NEW r \in {"OK", "NO_SPACE", "FAIL", "NOT_FOUND"}, Return(r)
  PROVE  TypeInv'
<1>1. Readable' /\ crashes \in Nat /\ recopied \in BOOLEAN
  BY DEF Readable, TypeInv, TypeOK
<1>2. /\ pc' = "idle" /\ op' = NoOp /\ pg' = 0 /\ vic' = NoPage /\ rng' = NoRng
      /\ res' = r /\ crashes' \in Nat /\ recopied' \in BOOLEAN
      /\ kv' \in [Keys -> Values \cup {NoVal}]
  BY <1>1, ReturnType
<1>3. TypeOK'
  BY <1>2, Idle DEF TypeOK
<1>4. Prepared'
  BY <1>2, Idle DEF Prepared, PutSteps
<1>. QED
  BY <1>3, <1>4 DEF TypeInv

LEMMA ElementInPage ==
  ASSUME Readable, NEW k \in Keys, Found(k), DeleteStart(k)
  PROVE  pc' = "delete" /\ pg' \in Pages /\ rng' \in RngRec /\ rng'.at <= rng'.hi
<1> DEFINE f == Find(k)
<1>1. f.page \in Pages /\ f.idx \in Idx /\ f.val \in Values /\ f.idx + DataLen[f.val] < N
  BY FindType
<1>2. pc' = "delete" /\ pg' = f.page /\ rng' = ElementRange(f)
  BY DEF DeleteStart
<1>. HIDE DEF f
<1>3. DataLen[f.val] \in Nat /\ f.idx \in Nat /\ N \in Nat
  BY <1>1, LenAssumption, SizeAssumption, Idle
<1>4. f.idx + DataLen[f.val] \in Idx /\ f.idx \in 0..N /\ f.idx <= f.idx + DataLen[f.val]
  BY <1>1, <1>3 DEF Idx
<1>. QED
  BY <1>1, <1>2, <1>4 DEF ElementRange, RngRec

\* The calls.
LEMMA CallType ==
  ASSUME TypeInv, Call
  PROVE  TypeInv'
<1>1. Readable
  BY DEF Readable, TypeInv, TypeOK
<1>2. CASE \E k \in Keys, v \in Values : PutSame(k, v)
  BY <1>2, ReturnInv DEF PutSame, TypeInv, TypeOK, HdrFits, ram, Prepared
<1>3. CASE \E k \in Keys : DelMissing(k)
  BY <1>3, ReturnInv DEF DelMissing, TypeInv, TypeOK, HdrFits, ram, Prepared
<1>4. CASE \E k \in Keys, v \in Values : PutStart(k, v)
  <2>1. PICK k \in Keys, v \in Values : PutStart(k, v)
    BY <1>4
  <2>2. op' \in OpRec /\ op'.kind = "put" /\ op'.val = v /\ op'.key = k
    BY <2>1 DEF PutStart, OpRec
  <2>3. pc = "idle" /\ UNCHANGED <<flash, used, free, nextFree, cntUsed, vic, res, kv, crashes, recopied>>
    BY <2>1 DEF PutStart, ram, other
  <2>4. CASE Found(k)
    <3>1. pc' = "delete" /\ pg' \in Pages /\ rng' \in RngRec /\ rng'.at <= rng'.hi
      BY <1>1, <2>1, <2>4, ElementInPage DEF PutStart
    <3>2. TypeOK' /\ HdrFits'
      BY <2>2, <2>3, <3>1 DEF TypeInv, TypeOK, HdrFits
    <3>3. Prepared'
      BY <2>2, <2>3, <3>1 DEF TypeInv, Prepared, PutSteps
    <3>. QED
      BY <3>2, <3>3 DEF TypeInv
  <2>5. CASE ~Found(k)
    <3>1. pc' = "room" /\ UNCHANGED <<pg, rng>>
      BY <2>1, <2>5 DEF PutStart
    <3>2. TypeOK' /\ HdrFits'
      BY <2>2, <2>3, <3>1 DEF TypeInv, TypeOK, HdrFits
    <3>3. Prepared'
      BY <2>2, <2>3, <3>1 DEF TypeInv, Prepared, PutSteps
    <3>. QED
      BY <3>2, <3>3 DEF TypeInv
  <2>. QED
    BY <2>4, <2>5
<1>5. CASE \E k \in Keys : DelStart(k)
  <2>1. PICK k \in Keys : DelStart(k)
    BY <1>5
  <2>2. op' \in OpRec /\ op'.kind = "del"
    BY <2>1 DEF DelStart, OpRec
  <2>3. pc = "idle" /\ UNCHANGED <<flash, used, free, nextFree, cntUsed, vic, res, kv, crashes, recopied>>
    BY <2>1 DEF DelStart, ram, other
  <2>4. pc' = "delete" /\ pg' \in Pages /\ rng' \in RngRec /\ rng'.at <= rng'.hi
    BY <1>1, <2>1, ElementInPage DEF DelStart
  <2>5. TypeOK' /\ HdrFits'
    BY <2>2, <2>3, <2>4 DEF TypeInv, TypeOK, HdrFits
  <2>6. Prepared'
    BY <2>2, <2>3, <2>4 DEF TypeInv, Prepared, PutSteps
  <2>. QED
    BY <2>5, <2>6 DEF TypeInv
<1>6. CASE CleanStart
  <2>1. /\ pc = "idle" /\ pc' = "clean" /\ pg' = 0
        /\ UNCHANGED <<flash, used, free, nextFree, cntUsed, vic, rng, res, kv, crashes, recopied>>
    BY <1>6 DEF CleanStart, ram, other
  <2>2. op' \in OpRec /\ op'.kind = "clean"
    BY <1>6 DEF CleanStart, NoOp, OpRec
  <2>3. TypeOK' /\ HdrFits'
    BY <2>1, <2>2, Idle DEF TypeInv, TypeOK, HdrFits
  <2>4. Prepared'
    BY <2>1, <2>2 DEF TypeInv, Prepared, PutSteps
  <2>. QED
    BY <2>3, <2>4 DEF TypeInv
<1>. QED
  BY <1>2, <1>3, <1>4, <1>5, <1>6 DEF Call

\* Deleting an element.
LEMMA DeleteType ==
  ASSUME TypeInv, MarkUpdated \/ Deleted
  PROVE  TypeInv'
<1>1. /\ pc = "delete" /\ used # <<>> /\ rng.at <= rng.hi /\ rng \in RngRec /\ pg \in Pages
      /\ SetState(pg, rng.at, "UPDATED")
  BY DEF MarkUpdated, Deleted, TypeInv, TypeOK, Prepared
<1>2. flash' \in [Pages -> PageRec] /\ HdrFits'
  BY <1>1, FlashMark DEF TypeInv, TypeOK, EntryStates
<1>3. CASE MarkUpdated
  <2>1. /\ rng.at < rng.hi /\ rng' = [rng EXCEPT !.at = rng.at + 1]
        /\ UNCHANGED <<used, free, nextFree, cntUsed, pc, op, pg, vic, res, kv, crashes, recopied>>
    BY <1>3 DEF MarkUpdated, ram, other
  <2>2. rng.at \in Nat /\ rng.hi \in Nat /\ rng.hi < N /\ N \in Nat /\ rng.at + 1 \in 0..N
    BY <1>1, <2>1, SizeAssumption DEF RngRec, Idx
  <2>3. rng' \in RngRec /\ rng'.at = rng.at + 1 /\ rng'.hi = rng.hi
    BY <1>1, <2>1, <2>2 DEF RngRec
  <2>4. rng'.at <= rng'.hi
    BY <2>1, <2>2, <2>3
  <2>5. TypeOK'
    BY <1>2, <2>1, <2>3 DEF TypeInv, TypeOK
  <2>6. Prepared'
    BY <1>1, <2>1, <2>4 DEF TypeInv, Prepared, PutSteps
  <2>. QED
    BY <1>2, <2>5, <2>6 DEF TypeInv
<1>4. CASE Deleted
  <2>1. UNCHANGED <<used, free, nextFree>>
    BY <1>4 DEF Deleted
  <2>2. cntUsed' \in [Pages -> Int]
    <3>1. cntUsed[pg] - RangeSize(rng) \in Int
      BY <1>1, SizeAssumption DEF TypeInv, TypeOK, RangeSize, RngRec, Idx
    <3>2. cntUsed' = [cntUsed EXCEPT ![pg] = cntUsed[pg] - RangeSize(rng)]
      BY <1>4 DEF Deleted
    <3>. QED
      BY <3>1, <3>2 DEF TypeInv, TypeOK
  <2>3. CASE op.kind = "del"
    BY <1>1, <1>2, <1>4, <2>1, <2>2, <2>3, ReturnInv DEF Deleted, TypeInv, TypeOK
  <2>4. CASE op.kind # "del"
    <3>1. pc' = "room" /\ pg' = 0 /\ rng' = NoRng /\ UNCHANGED <<op, vic, res, kv, crashes, recopied>>
      BY <1>4, <2>4 DEF Deleted, other
    <3>2. TypeOK'
      BY <1>2, <2>1, <2>2, <3>1, Idle DEF TypeInv, TypeOK
    <3>3. Prepared'
      BY <1>1, <2>1, <2>4, <3>1 DEF TypeInv, Prepared, PutSteps
    <3>. QED
      BY <1>2, <3>2, <3>3 DEF TypeInv
  <2>. QED
    BY <2>3, <2>4
<1>. QED
  BY <1>3, <1>4

\* The page that new_page_request gives up, when it takes the last free one, is
\* one of the used pages.
LEMMA VictimUsed ==
  ASSUME used \in Seq(Pages)
  PROVE  /\ ErasePage \in Pages \cup {NoPage}
         /\ ErasePage # NoPage => \E n \in DOMAIN used : used[n] = ErasePage
<1> DEFINE n == Least(FewestUsed)
<1>1. CASE FewestUsed # {}
  <2>1. FewestUsed \subseteq Nat /\ FewestUsed \subseteq DOMAIN used
    BY DEF FewestUsed, Reclaimable
  <2>2. n \in DOMAIN used
    BY <1>1, <2>1, LeastNat
  <2>. HIDE DEF n
  <2>3. used[n] \in Pages
    BY <2>2
  <2>4. ErasePage \in {used[n], NoPage}
    BY DEF ErasePage, n
  <2>. QED
    BY <2>2, <2>3, <2>4
<1>2. CASE FewestUsed = {}
  BY <1>2 DEF ErasePage
<1>. QED
  BY <1>1, <1>2

\* Looking for room, and a new page.
LEMMA RoomType ==
  ASSUME TypeInv, SanityFail \/ HasRoom \/ MarkFull \/ RequestFails \/ RequestPage \/ EraseFree
  PROVE  TypeInv'
<1>1. /\ flash \in [Pages -> PageRec] /\ HdrFits /\ used \in Seq(Pages) /\ free \in Seq(Pages)
      /\ UNCHANGED <<used, free, nextFree, cntUsed>>
  BY DEF SanityFail, HasRoom, MarkFull, RequestFails, RequestPage, EraseFree, TypeInv,
         TypeOK, ram
<1>2. CASE SanityFail
  BY <1>1, <1>2, ReturnInv DEF SanityFail, TypeInv, TypeOK, HdrFits, Prepared
<1>3. CASE RequestFails
  BY <1>1, <1>3, ReturnInv DEF RequestFails, TypeInv, TypeOK, HdrFits, Prepared
<1>4. CASE HasRoom
  <2>1. /\ pc = "room" /\ pc' = "write" /\ pg' = Cur /\ Room(Cur, op.val)
        /\ UNCHANGED <<flash, op, vic, rng, res, kv, crashes, recopied>>
    BY <1>4 DEF HasRoom, other
  <2>2. used # <<>> /\ op.kind = "put"
    BY <2>1 DEF TypeInv, Prepared, PutSteps
  <2>3. Cur \in Pages
    BY <1>1, <2>2 DEF Cur
  <2>4. TypeOK' /\ HdrFits'
    BY <1>1, <2>1, <2>3 DEF TypeInv, TypeOK, HdrFits
  <2>5. Room(pg, op.val)'
    BY <1>1, <2>1 DEF Room
  <2>6. Prepared'
    BY <1>1, <2>1, <2>2, <2>5 DEF TypeInv, Prepared, PutSteps
  <2>. QED
    BY <2>4, <2>6 DEF TypeInv
<1>5. CASE MarkFull
  <2>1. /\ pc = "room" /\ pc' = "request" /\ flash' = [flash EXCEPT ![Cur].st = "FULL"]
        /\ UNCHANGED <<op, pg, vic, rng, res, kv, crashes, recopied>>
    BY <1>5 DEF MarkFull, other
  <2>2. flash' \in [Pages -> PageRec] /\ HdrFits'
    BY <1>1, <2>1, FlashState DEF PageStates
  <2>3. TypeOK'
    BY <1>1, <2>1, <2>2 DEF TypeInv, TypeOK
  <2>4. Prepared'
    BY <1>1, <2>1 DEF TypeInv, Prepared, PutSteps
  <2>. QED
    BY <2>2, <2>3, <2>4 DEF TypeInv
<1>6. CASE RequestPage
  <2>1. /\ pc = "request" /\ ~NoPageToGive /\ vic' = ErasePage /\ pg' = Head(free)
        /\ pc' \in {"header", "erase"}
        /\ UNCHANGED <<flash, op, rng, res, kv, crashes>>
    BY <1>6 DEF RequestPage, other
  <2>0. recopied' \in BOOLEAN
    BY <1>6, Zenon DEF RequestPage
  <2>2. free # <<>> /\ (Len(free) = 1 => ErasePage # NoPage)
    BY <1>1, <2>1 DEF NoPageToGive
  <2>3. used # <<>> /\ op.kind = "put"
    BY <2>1 DEF TypeInv, Prepared, PutSteps
  <2>4. /\ vic' \in Pages \cup {NoPage}
        /\ Len(free) = 1 => \E n \in DOMAIN used : used[n] = vic'
    BY <1>1, <2>1, <2>2, VictimUsed
  <2>5. pg' \in Pages
    BY <1>1, <2>1, <2>2
  <2>6. TypeOK' /\ HdrFits'
    BY <1>1, <2>0, <2>1, <2>4, <2>5 DEF TypeInv, TypeOK, HdrFits
  <2>7. Prepared'
    BY <1>1, <2>1, <2>2, <2>3, <2>4 DEF TypeInv, Prepared, PutSteps
  <2>. QED
    BY <2>6, <2>7 DEF TypeInv
<1>7. CASE EraseFree
  <2>1. /\ pc = "erase" /\ pc' = "header" /\ flash' = [flash EXCEPT ![pg] = Blank]
        /\ UNCHANGED <<op, pg, vic, rng, res, kv, crashes, recopied>>
    BY <1>7 DEF EraseFree, other
  <2>2. flash' \in [Pages -> PageRec] /\ HdrFits'
    BY <1>1, <2>1, BlankGood, FlashChange
  <2>3. TypeOK'
    BY <1>1, <2>1, <2>2 DEF TypeInv, TypeOK
  <2>4. Prepared'
    BY <1>1, <2>1 DEF TypeInv, Prepared, PutSteps
  <2>. QED
    BY <2>2, <2>3, <2>4 DEF TypeInv
<1>. QED
  BY <1>2, <1>3, <1>4, <1>5, <1>6, <1>7

LEMMA HeaderType ==
  ASSUME TypeInv, WriteHeader
  PROVE  TypeInv'
<1>1. /\ flash \in [Pages -> PageRec] /\ HdrFits /\ used \in Seq(Pages) /\ free \in Seq(Pages)
      /\ pg \in Pages /\ nextFree \in [Pages -> 0..N] /\ cntUsed \in [Pages -> Int]
  BY DEF TypeInv, TypeOK
<1>2. pc = "header" /\ free # <<>>
  BY DEF WriteHeader, TypeInv, Prepared
<1> DEFINE n == IF used = <<>> THEN 0 ELSE flash[Cur].seq + 1
<1>3. n \in Nat
  <2>1. used # <<>> => Cur \in Pages
    BY <1>1 DEF Cur
  <2>2. used # <<>> => flash[Cur].seq \in Nat
    BY <1>1, <2>1 DEF PageRec
  <2>. QED
    BY <2>2
<1>4. flash' = [flash EXCEPT ![pg] = [flash[pg] EXCEPT !.st = "ACTIVE", !.seq = n]]
  <2>1. flash' = [flash EXCEPT ![pg].st = "ACTIVE", ![pg].seq = n]
    BY DEF WriteHeader
  <2>. HIDE DEF n
  <2>. QED
    BY <1>1, <2>1
<1>. HIDE DEF n
<1>5. flash' \in [Pages -> PageRec] /\ HdrFits'
  <2>1. GoodPage([flash[pg] EXCEPT !.st = "ACTIVE", !.seq = n])
    BY <1>1, <1>3, PageChange DEF HdrFits, PageStates
  <2>. QED
    BY <1>1, <1>4, <2>1, FlashChange
<1>6. /\ nextFree' \in [Pages -> 0..N] /\ nextFree'[pg] = 0 /\ cntUsed' \in [Pages -> Int]
  <2>1. nextFree' = [nextFree EXCEPT ![pg] = 0] /\ cntUsed' = [cntUsed EXCEPT ![pg] = 0]
    BY DEF WriteHeader
  <2>2. 0 \in 0..N /\ 0 \in Int
    BY SizeAssumption
  <2>. QED
    BY <1>1, <2>1, <2>2
<1>7. /\ free' = Tail(free) /\ free' \in Seq(Pages) /\ Len(free') = Len(free) - 1
      /\ Len(free) \in Nat /\ Len(free) > 0
      /\ used' = Append(used, pg)
      /\ used' \in Seq(Pages) /\ Len(used') = Len(used) + 1 /\ used' # <<>>
  <2>1. free' = Tail(free) /\ used' = Append(used, pg)
    BY DEF WriteHeader
  <2>2. Len(free) \in Nat /\ Len(free) > 0 /\ Tail(free) \in Seq(Pages)
    BY <1>1, <1>2
  <2>3. Len(Tail(free)) = Len(free) - 1
    BY <1>1, <1>2
  <2>4. Append(used, pg) \in Seq(Pages) /\ Len(Append(used, pg)) = Len(used) + 1
    BY <1>1
  <2>5. Append(used, pg) # <<>>
    <3>1. Len(used) \in Nat
      BY <1>1
    <3>2. Len(Append(used, pg)) # 0
      BY <2>4, <3>1
    <3>. QED
      BY <3>2
  <2>. QED
    BY <2>1, <2>2, <2>3, <2>4, <2>5
<1>10. /\ DOMAIN used = 1..Len(used) /\ Len(used) \in Nat
       /\ \A m \in DOMAIN used : m \in DOMAIN used' /\ used'[m] = used[m] /\ used[m] \in Pages
  <2> DEFINE q == Append(used, pg)
  <2>1. DOMAIN used = 1..Len(used) /\ Len(used) \in Nat
    BY <1>1
  <2>2. \A m \in DOMAIN used : used[m] \in Pages
    BY <1>1
  <2>3. DOMAIN q = 1..(Len(used) + 1)
    BY <1>1
  <2>4. \A m \in 1..Len(used) : q[m] = used[m]
    BY <1>1
  <2>. HIDE DEF q
  <2>5. used' = q
    BY <1>7 DEF q
  <2>. QED
    BY <2>1, <2>2, <2>3, <2>4, <2>5
<1>8. CASE op.kind # "put"
  <2>1. Return("OK")
    BY <1>8 DEF WriteHeader
  <2>. QED
    BY <1>5, <1>6, <1>7, <2>1, ReturnInv
<1>9. CASE op.kind = "put"
  <2>1. /\ pc' = IF free' = <<>> THEN "candidate" ELSE "recheck"
        /\ UNCHANGED <<op, pg, vic, rng, res, kv, crashes, recopied>>
    BY <1>9 DEF WriteHeader, other
  <2>2. TypeOK'
    BY <1>5, <1>6, <1>7, <2>1 DEF TypeInv, TypeOK
  <2>3. rng.at \in Nat
    BY SizeAssumption DEF TypeInv, TypeOK, RngRec
  <2>4. free' = <<>> => /\ Len(used') >= 2 /\ vic \in Pages
                        /\ \E m \in DOMAIN used' : used'[m] = vic
    <3> HAVE free' = <<>>
    <3>1. Len(free) = 1
      <4>1. Len(free') = 0
        OBVIOUS
      <4>. QED
        BY <1>7, <4>1
    <3>2. used # <<>> /\ \E m \in DOMAIN used : used[m] = vic
      BY <1>2, <1>9, <3>1 DEF TypeInv, Prepared
    <3>3. PICK m \in DOMAIN used : used[m] = vic
      BY <3>2
    <3>4. m \in DOMAIN used' /\ used'[m] = vic /\ vic \in Pages
      BY <1>10, <3>3
    <3>5. Len(used) >= 1
      BY <1>1, <1>10, <3>2
    <3>. QED
      BY <1>7, <1>10, <3>4, <3>5
  <2>5. nextFree'[pg'] <= rng'.at
    BY <1>6, <2>1, <2>3
  <2>6. op'.kind = "put" /\ op'.key \in Keys /\ op'.val \in Values /\ used' # <<>>
    BY <1>7, <1>9, <2>1 DEF TypeInv, Prepared
  <2>7. CASE free' = <<>>
    <3>1. pc' = "candidate"
      BY <2>1, <2>7
    <3>2. vic' = vic
      BY <2>1
    <3>. QED
      BY <1>5, <2>2, <2>4, <2>5, <2>6, <2>7, <3>1, <3>2 DEF TypeInv, Prepared, PutSteps
  <2>8. CASE free' # <<>>
    <3>1. pc' = "recheck"
      BY <2>1, <2>8
    <3>2. Prepared'
      BY <2>6, <3>1 DEF Prepared, PutSteps
    <3>. QED
      BY <1>5, <2>2, <3>2 DEF TypeInv
  <2>. QED
    BY <2>7, <2>8
<1>. QED
  BY <1>8, <1>9

-----------------------------------------------------------------------------
(* Reclaiming a page                                                        *)

\* A page that the list holds leaves it, and the list is one shorter.
LEMMA ExtractType ==
  ASSUME NEW S, NEW s \in Seq(S), NEW x, \E m \in DOMAIN s : s[m] = x
  PROVE  Extract(s, x) \in Seq(S) /\ Len(Extract(s, x)) = Len(s) - 1
<1> DEFINE M == {m \in DOMAIN s : s[m] = x}
           n == Least(M)
           a == SubSeq(s, 1, n - 1)
           b == SubSeq(s, n + 1, Len(s))
<1>1. M \subseteq Nat /\ M # {}
  OBVIOUS
<1>2. n \in M
  BY <1>1, LeastNat
<1>. HIDE DEF n
<1>3. n \in 1..Len(s) /\ Len(s) \in Nat
  BY <1>2
<1>4. a \in Seq(S) /\ Len(a) = n - 1
  BY <1>3
<1>5. b \in Seq(S) /\ Len(b) = Len(s) - n
  BY <1>3
<1>. HIDE DEF a, b
<1>6. a \o b \in Seq(S) /\ Len(a \o b) = Len(a) + Len(b)
  BY <1>4, <1>5
<1>7. Extract(s, x) = a \o b
  BY DEF Extract, a, b, n
<1>. QED
  BY <1>3, <1>4, <1>5, <1>6, <1>7

LEMMA CandidateType ==
  ASSUME TypeInv, MarkCandidate
  PROVE  TypeInv'
<1>1. /\ flash \in [Pages -> PageRec] /\ HdrFits /\ used \in Seq(Pages) /\ free \in Seq(Pages)
      /\ pc = "candidate" /\ pc' = "copy" /\ flash' = [flash EXCEPT ![vic].st = "CANDIDATE"]
      /\ used' = Extract(used, vic) /\ free' = Append(free, vic)
      /\ UNCHANGED <<nextFree, cntUsed, op, pg, vic, rng, res, kv, crashes, recopied>>
  BY DEF MarkCandidate, TypeInv, TypeOK, other
<1>2. /\ Len(used) >= 2 /\ \E n \in DOMAIN used : used[n] = vic
      /\ vic \in Pages /\ nextFree[pg] <= rng.at /\ op.kind = "put" /\ op.key \in Keys /\ op.val \in Values
  BY <1>1 DEF TypeInv, Prepared, PutSteps
<1>3. flash' \in [Pages -> PageRec] /\ HdrFits'
  BY <1>1, FlashState DEF PageStates
<1>4. used' \in Seq(Pages) /\ Len(used') = Len(used) - 1
  BY <1>1, <1>2, ExtractType
<1>5. used' # <<>>
  <2>1. Len(used) \in Nat
    BY <1>1
  <2>2. Len(used') # 0
    BY <1>2, <1>4, <2>1
  <2>. QED
    BY <2>2
<1>6. free' \in Seq(Pages)
  BY <1>1, <1>2
<1>7. TypeOK'
  BY <1>1, <1>3, <1>4, <1>6 DEF TypeInv, TypeOK
<1>8. Prepared'
  BY <1>1, <1>2, <1>5 DEF Prepared, PutSteps
<1>. QED
  BY <1>3, <1>7, <1>8 DEF TypeInv

\* The entry copied next: it moves to a place that is not behind its own, so a
\* header still has room for its data.
LEMMA CopyType ==
  ASSUME TypeInv, CopyEntry
  PROVE  TypeInv'
<1> DEFINE i == Least(ToCopy)
           x == flash[vic].ent[i]
           f == nextFree[pg]
<1>1. /\ flash \in [Pages -> PageRec] /\ HdrFits /\ used \in Seq(Pages) /\ free \in Seq(Pages)
      /\ pg \in Pages /\ nextFree \in [Pages -> 0..N] /\ cntUsed \in [Pages -> Int]
      /\ rng \in RngRec
  BY DEF TypeInv, TypeOK
<1>2. /\ pc = "copy" /\ pc' = "copied" /\ ToCopy # {}
      /\ UNCHANGED <<used, free, op, pg, vic, res, kv, crashes, recopied>>
  BY DEF CopyEntry, other
<1>3. /\ used # <<>> /\ vic \in Pages /\ nextFree[pg] <= rng.at /\ op.kind = "put"
      /\ op.key \in Keys /\ op.val \in Values
  BY <1>2 DEF TypeInv, Prepared, PutSteps
<1>4. ToCopy \subseteq Nat /\ \A j \in ToCopy : j >= rng.at /\ j \in Idx
  BY <1>1, SizeAssumption DEF ToCopy, RngRec, Idx
<1>5. i \in ToCopy
  BY <1>2, <1>4, LeastNat
<1>. HIDE DEF i
<1>6. i \in Idx /\ i \in Nat /\ f \in Nat /\ f <= i /\ i < N /\ N \in Nat /\ f \in Idx
  <2>1. i \in Idx /\ i \in Nat /\ i >= rng.at /\ i < N
    BY <1>4, <1>5, SizeAssumption DEF Idx
  <2>2. f \in Nat /\ rng.at \in Nat /\ N \in Nat
    BY <1>1, SizeAssumption DEF RngRec
  <2>. QED
    BY <1>3, <2>1, <2>2 DEF Idx
<1>7. PICK e \in Nor(flash[pg].ent[f], x) : flash' = [flash EXCEPT ![pg].ent[f] = e]
  BY DEF CopyEntry, i
<1>8. x \in Entries /\ Fits(x, i)
  BY <1>1, <1>3, <1>6 DEF HdrFits, GoodPage, PageRec
<1>9. Fits(x, f)
  <2>1. x.t = "hdr" => x.v \in Values
    BY <1>8 DEF Entries, Erased
  <2>2. x.t = "hdr" => DataLen[x.v] \in Nat
    BY <2>1, LenAssumption
  <2>. HIDE DEF x, f
  <2>. QED
    BY <1>6, <1>8, <2>2 DEF Fits
<1>10. e \in Entries /\ (e = x \/ e.t = "junk")
  BY <1>8, NorType
<1>11. Fits(e, f)
  BY <1>9, <1>10 DEF Fits
<1>12. flash' \in [Pages -> PageRec] /\ HdrFits'
  BY <1>1, <1>7, <1>10, <1>11, FlashWrite
<1>13. nextFree' = [nextFree EXCEPT ![pg] = f + 1] /\ cntUsed' = [cntUsed EXCEPT ![pg] = cntUsed[pg] + 1]
  BY DEF CopyEntry
<1>14. nextFree' \in [Pages -> 0..N] /\ cntUsed' \in [Pages -> Int] /\ nextFree'[pg] = f + 1
  <2>1. f + 1 \in 0..N /\ cntUsed[pg] + 1 \in Int
    BY <1>1, <1>6
  <2>. HIDE DEF f
  <2>. QED
    BY <1>1, <1>13, <2>1
<1>15. rng' = [rng EXCEPT !.at = i + 1]
  BY DEF CopyEntry, i
<1>16. rng' \in RngRec /\ rng'.at = i + 1
  <2>1. i + 1 \in 0..N
    BY <1>6
  <2>. QED
    BY <1>1, <1>15, <2>1 DEF RngRec
<1>17. nextFree'[pg] <= rng'.at /\ nextFree'[pg] >= 1
  <2>. HIDE DEF f
  <2>. QED
    BY <1>6, <1>14, <1>16
<1>18. TypeOK'
  BY <1>1, <1>2, <1>12, <1>14, <1>16 DEF TypeInv, TypeOK
<1>19. Prepared'
  <2>1. nextFree'[pg'] <= rng'.at /\ nextFree'[pg'] >= 1
    BY <1>2, <1>17
  <2>. QED
    BY <1>2, <1>3, <2>1 DEF Prepared, PutSteps
<1>. QED
  BY <1>12, <1>18, <1>19 DEF TypeInv

LEMMA ReclaimType ==
  ASSUME TypeInv, CopyMark \/ EraseVictim \/ StillNoRoom \/ RoomNow
  PROVE  TypeInv'
<1>1. /\ flash \in [Pages -> PageRec] /\ HdrFits /\ used \in Seq(Pages) /\ free \in Seq(Pages)
      /\ pg \in Pages /\ nextFree \in [Pages -> 0..N] /\ cntUsed \in [Pages -> Int]
      /\ UNCHANGED <<used, free>>
  BY DEF TypeInv, TypeOK, CopyMark, EraseVictim, StillNoRoom, RoomNow, ram
<1>2. used # <<>> /\ op.kind = "put" /\ op.key \in Keys /\ op.val \in Values
  BY DEF TypeInv, Prepared, PutSteps, CopyMark, EraseVictim, StillNoRoom, RoomNow
<1>3. CASE CopyMark
  <2>1. /\ pc = "copied" /\ pc' = "copy" /\ SetState(pg, nextFree[pg] - 1, "USED")
        /\ UNCHANGED <<nextFree, cntUsed, op, pg, vic, rng, res, kv, crashes, recopied>>
    BY <1>3 DEF CopyMark, ram, other
  <2>2. flash' \in [Pages -> PageRec] /\ HdrFits'
    BY <1>1, <2>1, FlashMark DEF EntryStates
  <2>3. TypeOK'
    BY <1>1, <2>1, <2>2 DEF TypeInv, TypeOK
  <2>4. vic \in Pages /\ nextFree[pg] <= rng.at
    BY <2>1 DEF TypeInv, Prepared
  <2>5. Prepared'
    BY <1>1, <1>2, <2>1, <2>4 DEF Prepared, PutSteps
  <2>. QED
    BY <2>2, <2>3, <2>5 DEF TypeInv
<1>4. CASE EraseVictim
  <2>1. /\ pc' = "recheck" /\ flash' = [flash EXCEPT ![vic] = Blank] /\ vic' = NoPage
        /\ rng' = NoRng /\ UNCHANGED <<op, pg, res, kv, crashes, recopied>>
    BY <1>4 DEF EraseVictim, other
  <2>2. flash' \in [Pages -> PageRec] /\ HdrFits'
    BY <1>1, <2>1, BlankGood, FlashChange
  <2>3. nextFree' \in [Pages -> 0..N] /\ cntUsed' \in [Pages -> Int]
    <3>1. nextFree' = [nextFree EXCEPT ![vic] = 0] /\ cntUsed' = [cntUsed EXCEPT ![vic] = 0]
      BY <1>4 DEF EraseVictim
    <3>2. 0 \in 0..N /\ 0 \in Int
      BY SizeAssumption
    <3>3. nextFree' \in [Pages -> 0..N]
      BY <1>1, <3>1, <3>2
    <3>4. cntUsed' \in [Pages -> Int]
      BY <1>1, <3>1, <3>2
    <3>. QED
      BY <3>3, <3>4
  <2>4. TypeOK'
    BY <1>1, <2>1, <2>2, <2>3, Idle DEF TypeInv, TypeOK
  <2>5. Prepared'
    BY <1>1, <1>2, <2>1 DEF Prepared, PutSteps
  <2>. QED
    BY <2>2, <2>4, <2>5 DEF TypeInv
<1>5. CASE StillNoRoom
  BY <1>1, <1>2, <1>5, ReturnInv DEF StillNoRoom, TypeInv, TypeOK, HdrFits, ram
<1>6. CASE RoomNow
  <2>1. /\ pc' = "write" /\ Room(pg, op.val)
        /\ UNCHANGED <<flash, nextFree, cntUsed, op, pg, vic, rng, res, kv, crashes, recopied>>
    BY <1>6 DEF RoomNow, ram, other
  <2>2. TypeOK' /\ HdrFits'
    BY <1>1, <2>1 DEF TypeInv, TypeOK, HdrFits
  <2>3. Room(pg, op.val)'
    BY <2>1 DEF Room
  <2>4. Prepared'
    BY <1>1, <1>2, <2>1, <2>3 DEF Prepared, PutSteps
  <2>. QED
    BY <2>2, <2>4 DEF TypeInv
<1>. QED
  BY <1>3, <1>4, <1>5, <1>6

-----------------------------------------------------------------------------
(* Writing an element                                                       *)

\* The header and its data fit, because there is room for both.
LEMMA EntryType ==
  ASSUME TypeInv, WriteEntry
  PROVE  TypeInv'
<1> DEFINE i == nextFree[pg]
           x == Hdr(op.key, op.val)
           d == DataLen[op.val]
<1>1. /\ flash \in [Pages -> PageRec] /\ HdrFits /\ used \in Seq(Pages) /\ free \in Seq(Pages)
      /\ pg \in Pages /\ nextFree \in [Pages -> 0..N] /\ cntUsed \in [Pages -> Int]
      /\ op \in OpRec
  BY DEF TypeInv, TypeOK
<1>2. /\ pc = "write" /\ UNCHANGED <<used, free, op, pg, vic, res, kv, crashes, recopied>>
      /\ pc' = IF d = 0 THEN "mark" ELSE "data"
  BY DEF WriteEntry, other
<1>3. used # <<>> /\ op.kind = "put" /\ op.key \in Keys /\ op.val \in Values /\ Room(pg, op.val)
  BY <1>2 DEF TypeInv, Prepared, PutSteps
<1>4. d \in Nat /\ i \in Nat /\ N \in Nat /\ i + d < N /\ i < N
  <2>1. d \in Nat /\ i \in Nat /\ N \in Nat
    BY <1>1, <1>3, LenAssumption, SizeAssumption
  <2>2. N - i >= 1 + d
    BY <1>3 DEF Room
  <2>. HIDE DEF i, d
  <2>. QED
    BY <2>1, <2>2
<1>5. PICK e \in Nor(flash[pg].ent[i], x) : flash' = [flash EXCEPT ![pg].ent[i] = e]
  BY DEF WriteEntry
<1>6. /\ rng' = [lo |-> i, at |-> i, hi |-> i + d]
      /\ nextFree' = [nextFree EXCEPT ![pg] = i + 1]
      /\ cntUsed' = [cntUsed EXCEPT ![pg] = cntUsed[pg] + 1]
  BY DEF WriteEntry
<1>8. x \in Entries /\ x.t = "hdr" /\ x.v = op.val
  BY <1>3, EntryTypes
<1>. HIDE DEF x
<1>9. e \in Entries /\ (e = x \/ e.t = "junk")
  BY <1>8, NorType
<1>10. Fits(e, i)
  BY <1>4, <1>8, <1>9 DEF Fits
<1>11. flash' \in [Pages -> PageRec] /\ HdrFits'
  BY <1>1, <1>5, <1>9, <1>10, FlashWrite
<1>. HIDE DEF i, d
<1>12. rng' \in RngRec /\ rng'.lo = i /\ rng'.at = i /\ rng'.hi = i + d
  <2>1. i \in Idx /\ i \in 0..N /\ i + d \in Idx
    BY <1>4 DEF Idx
  <2>. QED
    BY <1>6, <2>1 DEF RngRec
<1>13. nextFree' \in [Pages -> 0..N] /\ nextFree'[pg] = i + 1 /\ cntUsed' \in [Pages -> Int]
  <2>1. i + 1 \in 0..N /\ cntUsed[pg] + 1 \in Int
    BY <1>1, <1>4
  <2>. QED
    BY <1>1, <1>6, <2>1
<1>14. TypeOK'
  <2>1. pc' \in {"mark", "data"}
    BY <1>2
  <2>. QED
    BY <1>1, <1>2, <1>11, <1>12, <1>13, <2>1 DEF TypeInv, TypeOK
<1>15. Prepared'
  <2>1. rng'.at <= rng'.hi /\ nextFree'[pg'] = rng'.lo + 1 /\ rng'.hi = rng'.lo + DataLen[op'.val]
    <3>1. DataLen[op'.val] = d /\ nextFree'[pg'] = i + 1
      BY <1>2, <1>13 DEF d
    <3>. QED
      BY <1>4, <1>12, <3>1
  <2>2. pc' \in {"mark", "data"} /\ used' # <<>> /\ op'.kind = "put" /\ op'.key \in Keys /\ op'.val \in Values
    BY <1>2, <1>3
  <2>. QED
    BY <2>1, <2>2 DEF Prepared, PutSteps
<1>. QED
  BY <1>11, <1>14, <1>15 DEF TypeInv

LEMMA DataType ==
  ASSUME TypeInv, WriteData
  PROVE  TypeInv'
<1> DEFINE d == DataLen[op.val]
           new(j) == Data(op.val, j - rng.lo)
<1>1. /\ flash \in [Pages -> PageRec] /\ HdrFits /\ used \in Seq(Pages) /\ free \in Seq(Pages)
      /\ pg \in Pages /\ nextFree \in [Pages -> 0..N] /\ cntUsed \in [Pages -> Int]
      /\ rng \in RngRec
  BY DEF TypeInv, TypeOK
<1>2. /\ pc = "data" /\ pc' = "mark" /\ UNCHANGED <<used, free, op, pg, vic, rng, res, kv, crashes, recopied>>
  BY DEF WriteData, other
<1>3. /\ used # <<>> /\ op.kind = "put" /\ op.key \in Keys /\ op.val \in Values /\ nextFree[pg] = rng.lo + 1
      /\ rng.hi = rng.lo + d
  BY <1>2 DEF TypeInv, Prepared, PutSteps
<1>4. d \in Nat /\ rng.lo \in Nat /\ rng.hi \in Nat /\ rng.hi < N /\ N \in Nat
  BY <1>1, <1>3, LenAssumption, SizeAssumption DEF RngRec, Idx
<1>5. PICK e \in [rng.lo + 1 .. rng.hi ->
                     UNION {Nor(flash[pg].ent[j], new(j)) : j \in rng.lo + 1 .. rng.hi}] :
         /\ \A j \in DOMAIN e : e[j] \in Nor(flash[pg].ent[j], new(j))
         /\ flash' = [flash EXCEPT ![pg].ent =
                        [j \in Idx |-> IF j \in DOMAIN e THEN e[j] ELSE flash[pg].ent[j]]]
  BY DEF WriteData
<1> DEFINE ent == [j \in Idx |-> IF j \in DOMAIN e THEN e[j] ELSE flash[pg].ent[j]]
<1>6. \A j \in DOMAIN e : new(j) \in Entries /\ new(j).t = "data"
  <2> TAKE j \in DOMAIN e
  <2>1. j \in rng.lo + 1 .. rng.hi
    BY <1>5
  <2>2. \A lo, hi \in Nat : hi < N => \A m \in lo + 1 .. hi : m - lo \in 1..N
    BY SizeAssumption
  <2>3. j - rng.lo \in 1..N
    BY <1>4, <2>1, <2>2
  <2>. QED
    BY <1>3, <2>3, EntryTypes
<1>. HIDE DEF new
<1>7. \A j \in DOMAIN e : e[j] \in Entries /\ e[j].t # "hdr"
  <2> TAKE j \in DOMAIN e
  <2>1. e[j] \in Nor(flash[pg].ent[j], new(j)) /\ new(j) \in Entries /\ new(j).t = "data"
    BY <1>5, <1>6
  <2>2. e[j] \in Entries /\ (e[j] = new(j) \/ e[j].t = "junk")
    BY <2>1, NorType
  <2>. QED
    BY <2>1, <2>2
<1>8. GoodPage(flash[pg]) /\ flash[pg].ent \in [Idx -> Entries]
  BY <1>1 DEF HdrFits, PageRec
<1>9. ent \in [Idx -> Entries]
  BY <1>7, <1>8
<1>10. \A j \in Idx : Fits(ent[j], j)
  BY <1>7, <1>8 DEF GoodPage, Fits
<1>11. flash' = [flash EXCEPT ![pg] = [flash[pg] EXCEPT !.ent = ent]]
  BY <1>5
<1>. HIDE DEF ent
<1>12. GoodPage([flash[pg] EXCEPT !.ent = ent])
  BY <1>8, <1>9, <1>10, PageChange
<1>13. flash' \in [Pages -> PageRec] /\ HdrFits'
  BY <1>1, <1>11, <1>12, FlashChange
<1>14. /\ nextFree' = [nextFree EXCEPT ![pg] = nextFree[pg] + d]
       /\ cntUsed' = [cntUsed EXCEPT ![pg] = cntUsed[pg] + d]
  BY DEF WriteData
<1>. HIDE DEF d
<1>15. nextFree' \in [Pages -> 0..N] /\ cntUsed' \in [Pages -> Int]
  <2>1. nextFree[pg] + d \in 0..N
    BY <1>3, <1>4
  <2>2. cntUsed[pg] + d \in Int
    BY <1>1, <1>4
  <2>. QED
    BY <1>1, <1>14, <2>1, <2>2
<1>16. TypeOK'
  BY <1>1, <1>2, <1>13, <1>15 DEF TypeInv, TypeOK
<1>17. Prepared'
  <2>1. rng.at <= rng.hi
    BY <1>2 DEF TypeInv, Prepared
  <2>. QED
    BY <1>2, <1>3, <2>1 DEF Prepared, PutSteps
<1>. QED
  BY <1>13, <1>16, <1>17 DEF TypeInv

LEMMA MarkType ==
  ASSUME TypeInv, MarkUsed \/ Stored
  PROVE  TypeInv'
<1>1. /\ pc = "mark" /\ used # <<>> /\ rng.at <= rng.hi /\ rng \in RngRec /\ pg \in Pages
      /\ SetState(pg, rng.at, "USED") /\ op.kind = "put" /\ op.key \in Keys /\ op.val \in Values
      /\ UNCHANGED <<used, free, nextFree, cntUsed>>
  BY DEF MarkUsed, Stored, TypeInv, TypeOK, Prepared, PutSteps, ram
<1>2. flash' \in [Pages -> PageRec] /\ HdrFits'
  BY <1>1, FlashMark DEF TypeInv, TypeOK, EntryStates
<1>3. CASE MarkUsed
  <2>1. /\ rng.at < rng.hi /\ rng' = [rng EXCEPT !.at = rng.at + 1]
        /\ UNCHANGED <<pc, op, pg, vic, res, kv, crashes, recopied>>
    BY <1>3 DEF MarkUsed, other
  <2>2. rng.at \in Nat /\ rng.hi \in Nat /\ rng.hi < N /\ N \in Nat /\ rng.at + 1 \in 0..N
    BY <1>1, <2>1, SizeAssumption DEF RngRec, Idx
  <2>3. rng' \in RngRec /\ rng'.at = rng.at + 1 /\ rng'.hi = rng.hi
    BY <1>1, <2>1, <2>2 DEF RngRec
  <2>4. rng'.at <= rng'.hi
    BY <2>1, <2>2, <2>3
  <2>5. TypeOK'
    BY <1>1, <1>2, <2>1, <2>3 DEF TypeInv, TypeOK
  <2>6. Prepared'
    BY <1>1, <2>1, <2>4 DEF TypeInv, Prepared, PutSteps
  <2>. QED
    BY <1>2, <2>5, <2>6 DEF TypeInv
<1>4. CASE Stored
  BY <1>1, <1>2, <1>4, ReturnInv DEF Stored, TypeInv, TypeOK
<1>. QED
  BY <1>3, <1>4

-----------------------------------------------------------------------------
(* Cleaning, power loss and loading                                         *)

\* The lists pages_load builds.
LEMMA ListType ==
  ASSUME NEW S \in SUBSET Pages, NEW s \in [1..Cardinality(S) -> S]
  PROVE  s \in Seq(Pages) /\ Len(s) = Cardinality(S) /\ (s = <<>> => S = {})
<1>1. IsFiniteSet(Pages)
  BY SizeAssumption, FS_Interval DEF Pages
<1>2. IsFiniteSet(S) /\ Cardinality(S) \in Nat
  BY <1>1, FS_Subset, FS_CardinalityType
<1>3. s \in Seq(Pages) /\ Len(s) = Cardinality(S)
  BY <1>2
<1>4. s = <<>> => Len(s) = 0
  OBVIOUS
<1>5. s = <<>> => Cardinality(S) = 0
  BY <1>3, <1>4
<1>. QED
  BY <1>2, <1>3, <1>5, FS_EmptySet

LEMMA SkipType == ASSUME NEW e \in Entries PROVE Skip(e) \in Nat
<1>1. CASE e = Erased
  BY <1>1 DEF Erased, Skip
<1>2. CASE e \in [t : {"hdr"}, k : Keys, v : Values]
  BY <1>2, LenAssumption DEF Skip
<1>3. CASE e \in [t : {"data"}, v : Values, n : 1..N]
  BY <1>3, LenAssumption DEF Skip
<1>4. CASE e \in [t : {"junk"}, skip : Nat]
  BY <1>4 DEF Skip
<1>. QED
  BY <1>1, <1>2, <1>3, <1>4 DEF Entries

LEMMA LoadCounts ==
  ASSUME flash \in [Pages -> PageRec], NEW p \in Pages
  PROVE  LoadNextFree(p) \in 0..N /\ LoadCntUsed(p) \in Int
<1>1. LoadVisited(p) \subseteq Idx
  BY DEF LoadVisited, Walk
<1>2. LoadNextFree(p) \in 0..N
  <2> DEFINE f == {i \in LoadVisited(p) : flash[p].es[i] = "FREE"}
  <2>1. f \subseteq Idx /\ f \subseteq Nat
    BY <1>1, Idle
  <2>2. f # {} => Least(f) \in f
    BY <2>1, LeastNat
  <2>3. LoadNextFree(p) = IF f = {} THEN N ELSE Least(f)
    BY DEF LoadNextFree
  <2>. HIDE DEF f
  <2>4. \A i \in Idx : i \in 0..N
    BY SizeAssumption DEF Idx
  <2>5. N \in 0..N
    BY SizeAssumption
  <2>. QED
    BY <2>1, <2>2, <2>3, <2>4, <2>5
<1>3. LoadCntUsed(p) \in Int
  <2> DEFINE J == {j \in LoadVisited(p) : flash[p].es[j] = "USED"}
             E(i) == i .. i + Skip(flash[p].ent[i])
             T == {E(i) : i \in J}
             g == [i \in J |-> E(i)]
  <2>1. J \subseteq Idx
    BY <1>1
  <2>2. IsFiniteSet(J)
    <3>1. IsFiniteSet(Idx)
      BY SizeAssumption, FS_Interval DEF Idx
    <3>. HIDE DEF J
    <3>. QED
      BY <2>1, <3>1, FS_Subset
  <2>3. \A i \in J : IsFiniteSet(E(i))
    <3> TAKE i \in J
    <3>1. i \in Idx /\ i \in Nat
      BY <2>1, Idle
    <3>2. flash[p].ent[i] \in Entries
      BY <3>1 DEF PageRec
    <3>3. Skip(flash[p].ent[i]) \in Nat
      BY <3>2, SkipType
    <3>4. i \in Int /\ i + Skip(flash[p].ent[i]) \in Int
      BY <3>1, <3>3
    <3>. QED
      BY <3>4, FS_Interval
  <2>4. LoadCntUsed(p) = Cardinality(UNION T)
    BY DEF LoadCntUsed
  <2>. HIDE DEF J, E
  <2>5. g \in Surjection(J, T)
    BY DEF Surjection
  <2>. HIDE DEF g
  <2>6. IsFiniteSet(T)
    <3>. HIDE DEF T
    <3>. QED
      BY <2>2, <2>5, FS_Surjection
  <2>7. \A U \in T : IsFiniteSet(U)
    BY <2>3
  <2>. HIDE DEF T
  <2>8. IsFiniteSet(UNION T)
    BY <2>6, <2>7, FS_UNION
  <2>. QED
    BY <2>4, <2>8, FS_CardinalityType
<1>. QED
  BY <1>2, <1>3

LEMMA LoadType ==
  ASSUME TypeInv, PagesLoad
  PROVE  TypeInv'
<1>1. /\ flash \in [Pages -> PageRec] /\ HdrFits /\ op \in OpRec /\ pc = "down"
      /\ flash' = MarkedUpdated(BadEntries)
      /\ used' \in [1..Cardinality(LoadedPages) -> LoadedPages]
      /\ free' \in [1..Cardinality(Pages \ LoadedPages) -> Pages \ LoadedPages]
      /\ nextFree' = [p \in Pages |-> IF Loaded(p) THEN LoadNextFree(p) ELSE 0]
      /\ cntUsed'  = [p \in Pages |-> IF Loaded(p) THEN LoadCntUsed(p) ELSE 0]
  BY DEF PagesLoad, InSeqOrder, InSectorOrder, TypeInv, TypeOK
<1>2. flash' \in [Pages -> PageRec] /\ HdrFits'
  BY <1>1, FlashUpdated
<1>3. LoadedPages \in SUBSET Pages /\ Pages \ LoadedPages \in SUBSET Pages
  BY DEF LoadedPages
<1>4. used' \in Seq(Pages) /\ (used' = <<>> => LoadedPages = {})
  BY <1>1, <1>3, ListType
<1>5. free' \in Seq(Pages) /\ (free' = <<>> => Pages \ LoadedPages = {})
  BY <1>1, <1>3, ListType
<1>6. nextFree' \in [Pages -> 0..N]
  <2>1. \A p \in Pages : LoadNextFree(p) \in 0..N /\ 0 \in 0..N
    BY <1>1, LoadCounts, SizeAssumption
  <2>. QED
    BY <1>1, <2>1
<1>7. cntUsed' \in [Pages -> Int]
  <2>1. \A p \in Pages : LoadCntUsed(p) \in Int
    BY <1>1, LoadCounts
  <2>. QED
    BY <1>1, <2>1
<1>8. CASE used' # <<>>
  BY <1>2, <1>4, <1>5, <1>6, <1>7, <1>8, ReturnInv DEF PagesLoad
<1>9. CASE used' = <<>>
  <2>1. /\ pg' = 0 /\ pc' \in {"header", "erase"} /\ vic' = NoPage
        /\ op' = [NoOp EXCEPT !.kind = IF op.kind = "clean" THEN "clean" ELSE "load"]
        /\ UNCHANGED <<rng, res, kv, crashes, recopied>>
    BY <1>9 DEF PagesLoad, other
  <2>2. op' \in OpRec /\ op'.kind \in {"clean", "load"}
    BY <2>1 DEF NoOp, OpRec
  <2>3. free' # <<>>
    BY <1>4, <1>5, <1>9, Idle
  <2>4. TypeOK'
    BY <1>2, <1>4, <1>5, <1>6, <1>7, <2>1, <2>2, Idle DEF TypeInv, TypeOK
  <2>5. Prepared'
    BY <2>1, <2>2, <2>3 DEF Prepared, PutSteps
  <2>. QED
    BY <1>2, <2>4, <2>5 DEF TypeInv
<1>. QED
  BY <1>8, <1>9

LEMMA NoRamType ==
  ASSUME NoRam
  PROVE  /\ used' \in Seq(Pages) /\ free' \in Seq(Pages)
         /\ nextFree' \in [Pages -> 0..N] /\ cntUsed' \in [Pages -> Int]
BY SizeAssumption DEF NoRam

LEMMA DownType ==
  ASSUME TypeInv, CleanPage \/ LoadInterrupted \/ Crash \/ CrashTorn
  PROVE  TypeInv'
<1>1. flash \in [Pages -> PageRec] /\ HdrFits
  BY DEF TypeInv, TypeOK
<1>2. CASE CleanPage
  <2>1. /\ pc = "clean" /\ flash' = [flash EXCEPT ![pg] = Blank]
        /\ UNCHANGED <<op, vic, rng, res, kv, crashes>>
    BY <1>2 DEF CleanPage
  <2>2. flash' \in [Pages -> PageRec] /\ HdrFits'
    BY <1>1, <2>1, BlankGood, FlashChange
  <2>3. CASE pg = P - 1
    <3>1. pg' = 0 /\ pc' = "down" /\ NoRam /\ recopied' = FALSE
      BY <1>2, <2>3 DEF CleanPage
    <3>2. /\ used' \in Seq(Pages) /\ free' \in Seq(Pages)
          /\ nextFree' \in [Pages -> 0..N] /\ cntUsed' \in [Pages -> Int]
      BY <3>1, NoRamType
    <3>3. TypeOK'
      BY <2>1, <2>2, <3>1, <3>2, Idle DEF TypeInv, TypeOK
    <3>4. Prepared'
      BY <2>1, <3>1 DEF TypeInv, Prepared, PutSteps
    <3>. QED
      BY <2>2, <3>3, <3>4 DEF TypeInv
  <2>4. CASE pg # P - 1
    <3>1. pg' = pg + 1 /\ UNCHANGED <<pc, used, free, nextFree, cntUsed, recopied>>
      BY <1>2, <2>4 DEF CleanPage, ram
    <3>2. pg' \in Pages
      BY <2>4, <3>1, SizeAssumption DEF TypeInv, TypeOK, Pages
    <3>3. TypeOK'
      BY <2>1, <2>2, <3>1, <3>2 DEF TypeInv, TypeOK
    <3>4. Prepared'
      BY <2>1, <3>1 DEF TypeInv, Prepared, PutSteps
    <3>. QED
      BY <2>2, <3>3, <3>4 DEF TypeInv
  <2>. QED
    BY <2>3, <2>4
<1>3. CASE LoadInterrupted
  <2>1. /\ pc = "down" /\ \E bad : flash' = MarkedUpdated(bad)
        /\ crashes' = crashes + 1
        /\ UNCHANGED <<used, free, nextFree, cntUsed, pc, op, pg, vic, rng, res, kv,
                      recopied>>
    BY <1>3 DEF LoadInterrupted, ram
  <2>2. flash' \in [Pages -> PageRec] /\ HdrFits'
    BY <1>1, <2>1, FlashUpdated
  <2>3. TypeOK'
    BY <2>1, <2>2 DEF TypeInv, TypeOK
  <2>4. Prepared'
    BY <2>1 DEF TypeInv, Prepared, PutSteps
  <2>. QED
    BY <2>2, <2>3, <2>4 DEF TypeInv
<1>4. CASE Crash \/ CrashTorn
  <2>1. PowerLoss
    BY <1>4 DEF Crash, CrashTorn
  <2>2. /\ pc' = "down" /\ pg' = 0 /\ rng' = NoRng /\ crashes' = crashes + 1 /\ NoRam
        /\ UNCHANGED <<op, vic, res, kv, recopied>>
    BY <2>1 DEF PowerLoss
  <2>3. flash' \in [Pages -> PageRec] /\ HdrFits'
    <3>1. CASE Crash
      BY <1>1, <3>1 DEF Crash, HdrFits
    <3>2. CASE CrashTorn
      BY <1>1, <3>2, BlankGood, FlashChange DEF CrashTorn
    <3>. QED
      BY <1>4, <3>1, <3>2
  <2>4. /\ used' \in Seq(Pages) /\ free' \in Seq(Pages)
        /\ nextFree' \in [Pages -> 0..N] /\ cntUsed' \in [Pages -> Int]
    BY <2>2, NoRamType
  <2>5. TypeOK'
    <3>1. crashes' \in Nat
      BY <2>2 DEF TypeInv, TypeOK
    <3>2. /\ op' \in OpRec /\ vic' \in Pages \cup {NoPage}
          /\ res' \in {"OK", "NO_SPACE", "FAIL", "NOT_FOUND"}
          /\ kv' \in [Keys -> Values \cup {NoVal}] /\ recopied' \in BOOLEAN
      BY <2>2 DEF TypeInv, TypeOK
    <3>3. pg' \in Pages /\ rng' \in RngRec /\ pc' = "down"
      BY <2>2, Idle
    <3>. QED
      BY <2>3, <2>4, <3>1, <3>2, <3>3 DEF TypeOK
  <2>6. Prepared'
    BY <2>2 DEF TypeInv, Prepared, PutSteps
  <2>. QED
    BY <2>3, <2>5, <2>6 DEF TypeInv
<1>. QED
  BY <1>2, <1>3, <1>4

-----------------------------------------------------------------------------
LEMMA InitType == Init => TypeInv
<1> SUFFICES ASSUME Init PROVE TypeInv
  OBVIOUS
<1>1. Blank \in PageRec /\ GoodPage(Blank)
  BY BlankGood DEF GoodPage
<1>2. flash \in [Pages -> PageRec] /\ HdrFits
  BY <1>1 DEF Init, HdrFits
<1>3. TypeOK
  BY <1>2, Idle, SizeAssumption DEF Init, TypeOK
<1>4. Prepared
  BY Idle DEF Init, Prepared, PutSteps
<1>. QED
  BY <1>2, <1>3, <1>4 DEF TypeInv

LEMMA NextType == TypeInv /\ [Next]_vars => TypeInv'
<1> SUFFICES ASSUME TypeInv, [Next]_vars PROVE TypeInv'
  OBVIOUS
<1>1. CASE UNCHANGED vars
  <2>1. TypeOK' /\ HdrFits'
    BY <1>1 DEF vars, TypeInv, TypeOK, HdrFits
  <2>2. Prepared'
    <3>1. Room(pg, op.val)' = Room(pg, op.val)
      BY <1>1 DEF vars, Room
    <3>. QED
      BY <1>1, <3>1 DEF vars, TypeInv, Prepared
  <2>. QED
    BY <2>1, <2>2 DEF TypeInv
<1>2. CASE Step
  BY <1>2, DeleteType, RoomType, HeaderType, CandidateType, CopyType, ReclaimType, EntryType,
     DataType, MarkType, LoadType, DownType DEF Step
<1>3. CASE Call
  BY <1>3, CallType
<1>4. CASE LoadInterrupted \/ Crash \/ CrashTorn
  BY <1>4, DownType
<1>. QED
  BY <1>1, <1>2, <1>3, <1>4 DEF Next

\* Whatever the geometry of the area, the values and the power losses: no walk,
\* mark or write of a call leaves its page (entry_state_range_alter is never asked
\* for a range behind the page), no list runs empty where a page is taken from it,
\* and next_free_idx stays within the page.
THEOREM TypeCorrect == Spec => []TypeOK
<1>1. TypeInv => TypeOK
  BY DEF TypeInv
<1>. QED
  BY <1>1, InitType, NextType, PTL DEF Spec
=============================================================================
