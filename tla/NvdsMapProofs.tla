---------------------------- MODULE NvdsMapProofs ----------------------------
(***************************************************************************)
(* The NVDS store while power stays on is a map: what its log holds, at    *)
(* every step of a call, and that the calls of nvds_flash.h implement      *)
(* KvStore.                                                                *)
(***************************************************************************)
EXTENDS NvdsLogProofs

\* The headers that stand for the contents of the store: those counted in used
\* pages, and those of the page being reclaimed that are still to be copied.
Live(p, h) ==
    /\ h \in LiveIn(p)
    /\ Holds(used, p) \/ (pc \in {"copy", "copied"} /\ p = vic /\ h >= rng.at)

KeyAt(p, h) == flash[p].ent[h].k
ValAt(p, h) == flash[p].ent[h].v

\* The live headers are those of the map X: one for each key that has a value.
OneEach ==
    \A p, q \in Pages, h, g \in Idx :
        Live(p, h) /\ Live(q, g) /\ KeyAt(p, h) = KeyAt(q, g) => p = q /\ h = g
Maps(X) ==
    /\ OneEach
    /\ \A p \in Pages, h \in Idx : Live(p, h) => ValAt(p, h) = X[KeyAt(p, h)]
    /\ \A k \in Keys : X[k] # NoVal =>
         \E p \in Pages, h \in Idx : Live(p, h) /\ KeyAt(p, h) = k

\* What a call has made of the map kv so far: the old value goes with the last
\* entry marked UPDATED, the new one comes with the header.
Expected(k) ==
    IF pc = "down" \/ op.kind \in {"clean", "load"} THEN NoVal
    ELSE IF k # op.key \/ pc = "delete" THEN kv[k]
    ELSE IF pc \in {"data", "mark"} THEN op.val
    ELSE NoVal
Expect == [k \in Keys |-> Expected(k)]

KvMaps == [Keys -> Values \cup {NoVal}]
Mapped == \E X \in KvMaps : X = Expect /\ Maps(X)

\* Pages in use are searched, and the page being reclaimed is not in use.
Lasting ==
    /\ \A p \in Pages : Holds(used, p) => flash[p].st \in {"ACTIVE", "FULL"}
    /\ pc \in {"copy", "copied"} => ~Holds(used, vic)

CallInv ==
    /\ pc = "idle" => op = NoOp
    /\ op.kind \in {"clean", "load"} /\ pc # "clean" => used = <<>>
    /\ pc = "header" /\ op.kind # "put" => op.kind \in {"clean", "load"}
    /\ pc = "down" => used = <<>>
    /\ op.kind = "put" => kv[op.key] # op.val
    /\ pc = "delete" => op.key \in Keys /\ KeyAt(pg, rng.lo) = op.key

\* nvds_clean erases sector by sector: what is left has no duplicates either.
OneUsed ==
    \A p, q \in Pages, h, g \in Idx :
        /\ Holds(used, p) /\ h \in Used(flash[p]) /\ flash[p].ent[h].t = "hdr"
        /\ Holds(used, q) /\ g \in Used(flash[q]) /\ flash[q].ent[g].t = "hdr"
        /\ KeyAt(p, h) = KeyAt(q, g)
        => p = q /\ h = g

MapInv ==
    /\ LogInv
    /\ CallInv
    /\ pc # "clean" => Lasting /\ Mapped
    /\ pc = "clean" => OneUsed

-----------------------------------------------------------------------------
(* Steps that keep the map                                                  *)

LEMMA KeepsLive ==
  ASSUME NEW p \in Pages, Keeps(p)
  PROVE  /\ LiveIn(p)' = LiveIn(p)
         /\ \A h \in Idx : flash'[p].ent[h] = flash[p].ent[h]
<1>1. Hdrs(flash'[p], nextFree'[p]) = Hdrs(flash[p], nextFree[p])
  BY DEF Keeps, Hdrs
<1>2. LiveIn(p)' = Hdrs(flash'[p], nextFree'[p]) \cap Counted(p)'
  BY DEF LiveIn
<1>. QED
  BY <1>1, <1>2 DEF Keeps, LiveIn

\* The same headers are live, with the same keys and values.
LEMMA MapsSame ==
  ASSUME NEW X, Maps(X),
         \A p \in Pages, h \in Idx : Live(p, h)' <=> Live(p, h),
         \A p \in Pages, h \in Idx : Live(p, h) => flash'[p].ent[h] = flash[p].ent[h]
  PROVE  Maps(X)'
<1>1. OneEach'
  <2> SUFFICES ASSUME NEW p \in Pages, NEW q \in Pages, NEW h \in Idx, NEW g \in Idx,
                      Live(p, h)', Live(q, g)', KeyAt(p, h)' = KeyAt(q, g)'
               PROVE  p = q /\ h = g
    BY DEF OneEach
  <2>1. Live(p, h) /\ Live(q, g) /\ KeyAt(p, h) = KeyAt(q, g)
    BY DEF KeyAt
  <2>. QED
    BY <2>1 DEF Maps, OneEach
<1>2. \A p \in Pages, h \in Idx : Live(p, h)' => ValAt(p, h)' = X[KeyAt(p, h)']
  BY DEF Maps, ValAt, KeyAt
<1>3. \A k \in Keys : X[k] # NoVal =>
         \E p \in Pages, h \in Idx : Live(p, h)' /\ KeyAt(p, h)' = k
  BY DEF Maps, KeyAt
<1>. QED
  BY <1>1, <1>2, <1>3 DEF Maps

LEMMA MapsKept ==
  ASSUME NEW X, Maps(X), \A p \in Pages : Keeps(p),
         \A p \in Pages : Holds(used', p) <=> Holds(used, p),
         pc \notin {"copy", "copied"}, pc' \notin {"copy", "copied"}
  PROVE  Maps(X)'
<1>1. \A p \in Pages, h \in Idx : Live(p, h)' <=> Live(p, h)
  <2> TAKE p \in Pages, h \in Idx
  <2>1. LiveIn(p)' = LiveIn(p)
    BY KeepsLive
  <2>. QED
    BY <2>1 DEF Live
<1>2. \A p \in Pages, h \in Idx : flash'[p].ent[h] = flash[p].ent[h]
  BY KeepsLive
<1>. QED
  BY <1>1, <1>2, MapsSame

-----------------------------------------------------------------------------
(* Reading                                                                  *)

\* element_find reads every header of a page: from one header it goes to the
\* next, for an element ends where the next one begins.
LEMMA HeadersRead ==
  ASSUME LogInv, pc = "idle", NEW p \in Pages, NEW h \in Hdrs(flash[p], nextFree[p])
  PROVE  h \in Visited(p)
<1> DEFINE r == flash[p]
           n == nextFree[p]
           step == [i \in Idx |-> IF r.es[i] = "FREE" THEN N ELSE i + 1 + Skip(r.ent[i])]
           S == {g \in Hdrs(r, n) : g < h}
<1>1. /\ r \in PageRec /\ n \in 0..N /\ n \in Nat /\ Layout(r, n, Used(r)) /\ Touched(r, n, Used(r))
  <2>1. TypeInv /\ PageInv(p) /\ Counted(p) = Used(flash[p])
    BY QuietNow DEF LogInv
  <2>. QED
    BY <2>1, PageTypes DEF PageInv
<1>2. Visited(p) = Walk(step)
  BY DEF Visited
<1>. HIDE DEF r, n
<1>3. h \in Nat /\ h < n /\ h \in Idx
  BY <1>1, EndType DEF r, n
<1>4. \A j \in 0..(n - 1) : j \in Hdrs(r, n) \/ \E g \in Hdrs(r, n) : g < j /\ j <= End(r, g)
  BY <1>1 DEF Layout
<1>5. 0 \in S \cup {h}
  <2>1. 0 \in 0..(n - 1)
    BY <1>1, <1>3
  <2>2. \A g \in Hdrs(r, n) : ~(g < 0)
    BY <1>1, EndType
  <2>3. 0 \in Hdrs(r, n)
    BY <1>4, <2>1, <2>2
  <2>. QED
    BY <1>3, <2>3
<1>6. ASSUME NEW g \in S
      PROVE  step[g] \in S \cup {h}
  <2>1. /\ g \in Hdrs(r, n) /\ g < h /\ g \in Nat /\ g < n /\ g \in Idx /\ r.ent[g].t = "hdr"
        /\ End(r, g) \in Nat /\ g <= End(r, g)
    BY <1>1, EndType
  <2>2. r.es[g] # "FREE"
    BY <1>1, <2>1 DEF Touched, Used
  <2>3. step[g] = g + 1 + Skip(r.ent[g])
    BY <2>1, <2>2
  <2>4. Skip(r.ent[g]) = DataLen[r.ent[g].v]
    BY <2>1 DEF Skip
  <2>5. step[g] = End(r, g) + 1
    <3>1. DataLen[r.ent[g].v] \in Nat
      BY <1>1, <2>1, EndType
    <3>. HIDE DEF step
    <3>. QED
      BY <2>1, <2>3, <2>4, <3>1 DEF End
  <2>6. End(r, g) < h
    BY <1>1, <2>1, Apart DEF r, n
  <2> DEFINE j == End(r, g) + 1
  <2>7. j \in 0..(n - 1) /\ j <= h
    BY <1>1, <1>3, <2>1, <2>6
  <2>8. ASSUME NEW f \in Hdrs(r, n), f < j, j <= End(r, f)
        PROVE  FALSE
    <3>1. f \in Nat /\ End(r, f) \in Nat
      BY <1>1, EndType
    <3>2. CASE f < g
      <4>1. End(r, f) < g
        BY <1>1, <2>1, <3>2, Apart
      <4>. QED
        BY <2>1, <2>8, <3>1, <4>1
    <3>3. CASE g < f
      <4>1. End(r, g) < f
        BY <1>1, <2>1, <3>3, Apart
      <4>. QED
        BY <2>1, <2>8, <3>1, <4>1
    <3>4. CASE f = g
      BY <2>1, <2>8, <3>4
    <3>. QED
      BY <2>1, <3>1, <3>2, <3>3, <3>4
  <2>9. j \in Hdrs(r, n)
    BY <1>4, <2>7, <2>8
  <2>10. j \in S \cup {h}
    <3>. HIDE DEF j
    <3>1. j \in Nat
      BY <1>1, <2>7
    <3>. QED
      BY <1>3, <2>7, <2>9, <3>1
  <2>. QED
    BY <2>5, <2>10
<1>7. S \in SUBSET (0..(h - 1))
  <2>1. \A g \in Hdrs(r, n) : g \in Nat
    BY <1>1, EndType
  <2>2. \A g \in S : g \in 0..(h - 1)
    BY <1>3, <2>1
  <2>. QED
    BY <2>2
<1>8. h \in {i \in Idx : \E T \in SUBSET (0..(i - 1)) :
               0 \in T \cup {i} /\ \A j \in T : step[j] \in T \cup {i}}
  <2>. HIDE DEF step, S
  <2>. QED
    BY <1>3, <1>5, <1>6, <1>7
<1>. QED
  BY <1>2, <1>8 DEF Walk

\* Between calls element_find matches the live headers.
LEMMA MatchesLive ==
  ASSUME LogInv, pc = "idle", NEW p \in Pages, Holds(used, p), NEW k, NEW h
  PROVE  h \in Matches(p, k) <=> h \in Idx /\ Live(p, h) /\ KeyAt(p, h) = k
<1> DEFINE r == flash[p]
           n == nextFree[p]
<1>1. r \in PageRec /\ n \in 0..N /\ Counted(p) = Used(r) /\ Used(r) \subseteq 0..(n - 1)
  <2>1. TypeInv /\ PageInv(p) /\ Counted(p) = Used(r)
    BY QuietNow DEF LogInv
  <2>. QED
    BY <2>1, PageTypes DEF PageInv, Layout
<1>2. ASSUME h \in Matches(p, k)
      PROVE  h \in Idx /\ Live(p, h) /\ KeyAt(p, h) = k
  <2>1. h \in Idx /\ h \in Used(r) /\ r.ent[h].t = "hdr" /\ KeyAt(p, h) = k
    BY <1>2 DEF Matches, Visited, Walk, Used, KeyAt
  <2>2. h \in Hdrs(r, n)
    BY <1>1, <2>1 DEF Hdrs
  <2>. QED
    BY <1>1, <2>1, <2>2 DEF Live, LiveIn
<1>3. ASSUME h \in Idx, Live(p, h), KeyAt(p, h) = k
      PROVE  h \in Matches(p, k)
  <2>1. h \in Hdrs(r, n) /\ h \in Used(r)
    BY <1>1, <1>3 DEF Live, LiveIn
  <2>2. h \in Visited(p)
    BY <2>1, HeadersRead
  <2>. QED
    BY <1>3, <2>1, <2>2 DEF Matches, Hdrs, Used, KeyAt
<1>. QED
  BY <1>2, <1>3

\* Between calls the store reads as the map X that its live headers stand for:
\* what element_find finds, what data_element_get returns and what
\* element_compare says follow from X.
ReadsRight ==
    LogInv /\ Lasting /\ pc = "idle" =>
        \A X \in KvMaps : Maps(X) =>
            /\ Contents = X
            /\ \A k \in Keys : Found(k) <=> X[k] # NoVal
            /\ \A k \in Keys, v \in Values : ElementCompare(k, v) <=> X[k] = v
            /\ \A k \in Keys : Found(k) =>
                 /\ Find(k).page \in Pages /\ Find(k).idx \in Idx
                 /\ Live(Find(k).page, Find(k).idx)
                 /\ KeyAt(Find(k).page, Find(k).idx) = k

LEMMA ReadsRightNow == ReadsRight
<1> SUFFICES ASSUME LogInv, Lasting, pc = "idle", NEW X \in KvMaps, Maps(X)
             PROVE  /\ Contents = X
                    /\ \A k \in Keys : Found(k) <=> X[k] # NoVal
                    /\ \A k \in Keys, v \in Values : ElementCompare(k, v) <=> X[k] = v
                    /\ \A k \in Keys : Found(k) =>
                         /\ Find(k).page \in Pages /\ Find(k).idx \in Idx
                         /\ Live(Find(k).page, Find(k).idx)
                         /\ KeyAt(Find(k).page, Find(k).idx) = k
  BY DEF ReadsRight
<1>1. Readable /\ used \in Seq(Pages)
  BY DEF LogInv, TypeInv, TypeOK, Readable
<1>2. Searched = DOMAIN used
  <2>1. \A n \in DOMAIN used : used[n] \in Pages /\ Holds(used, used[n])
    BY <1>1 DEF Holds
  <2>. QED
    BY <2>1 DEF Searched, Lasting
<1>3. ASSUME NEW k \in Keys, Found(k)
      PROVE  /\ Find(k).page \in Pages /\ Find(k).idx \in Idx
             /\ Live(Find(k).page, Find(k).idx) /\ KeyAt(Find(k).page, Find(k).idx) = k
             /\ Find(k).val \in Values /\ Find(k).val = X[k]
             /\ DataIs(Find(k), Find(k).val)
  <2> DEFINE f == Find(k)
             p == f.page
             h == f.idx
             r == flash[p]
             n == nextFree[p]
  <2>1. /\ p \in Pages /\ h \in Idx /\ f.val \in Values /\ h \in Matches(p, k)
        /\ f.val = flash[p].ent[h].v /\ \E m \in Searched : p = used[m]
    BY <1>1, <1>3, FindType
  <2>. HIDE DEF f
  <2>2. Holds(used, p)
    BY <1>2, <2>1 DEF Holds
  <2>3. Live(p, h) /\ KeyAt(p, h) = k
    BY <2>1, <2>2, MatchesLive
  <2>4. f.val = X[k]
    BY <2>1, <2>3 DEF Maps, ValAt
  <2>5. r \in PageRec /\ n \in 0..N /\ Layout(r, n, Counted(p)) /\ Whole(r, n, {})
    <3>1. TypeInv /\ PageInv(p) /\ Unfinished(p) = {}
      BY <2>1, QuietNow DEF LogInv
    <3>. QED
      BY <2>1, <3>1, PageTypes DEF PageInv
  <2>6. h \in Hdrs(r, n)
    BY <2>3 DEF Live, LiveIn
  <2>7. DataIs(f, f.val)
    <3> SUFFICES ASSUME NEW m \in 1..DataLen[f.val]
                 PROVE  h + m \in Idx /\ r.ent[h + m] = Data(f.val, m)
      BY DEF DataIs
    <3>. HIDE DEF r, n, p, h
    <3>1. h \in Nat /\ End(r, h) \in Nat /\ r.ent[h].v = f.val /\ DataLen[f.val] \in Nat
      BY <2>1, <2>5, <2>6, EndType DEF r
    <3>2. End(r, h) = h + DataLen[f.val]
      BY <3>1 DEF End
    <3>3. End(r, h) < n
      BY <2>5, <2>6 DEF Whole
    <3>4. n \in Nat /\ n <= N /\ N \in Nat
      BY <2>5, SizeAssumption
    <3>5. /\ h + m \in 0..(n - 1) /\ h < h + m /\ h + m <= End(r, h) /\ (h + m) - h = m
          /\ h + m \in Idx
      BY <3>1, <3>2, <3>3, <3>4 DEF Idx
    <3>6. r.ent[h + m] = Data(r.ent[h].v, (h + m) - h)
      BY <2>5, <2>6, <3>5 DEF Layout
    <3>. QED
      BY <3>1, <3>5, <3>6
  <2>. QED
    BY <2>1, <2>3, <2>4, <2>7 DEF f
<1>4. ASSUME NEW k \in Keys PROVE Found(k) <=> X[k] # NoVal
  <2>1. ASSUME Found(k) PROVE X[k] # NoVal
    BY <1>3, <2>1, NamesAssumption
  <2>2. ASSUME X[k] # NoVal PROVE Found(k)
    <3>1. PICK p \in Pages, h \in Idx : Live(p, h) /\ KeyAt(p, h) = k
      BY <2>2 DEF Maps
    <3>2. Holds(used, p)
      BY <3>1 DEF Live
    <3>3. h \in Matches(p, k)
      BY <3>1, <3>2, MatchesLive
    <3>4. PICK m \in DOMAIN used : used[m] = p
      BY <3>2 DEF Holds
    <3>5. m \in MatchingPages(k)
      BY <1>2, <3>3, <3>4 DEF MatchingPages
    <3>. QED
      BY <3>5 DEF Found
  <2>. QED
    BY <2>1, <2>2
<1>5. \A k \in Keys : DataElementGet(k) = X[k]
  BY <1>3, <1>4 DEF DataElementGet
<1>6. Contents = X
  BY <1>5 DEF Contents, KvMaps
<1>7. ASSUME NEW k \in Keys, NEW v \in Values
      PROVE  ElementCompare(k, v) <=> X[k] = v
  <2>1. ASSUME ElementCompare(k, v) PROVE X[k] = v
    <3>1. Found(k) /\ DataLen[Find(k).val] = DataLen[v] /\ DataLen[v] \in Nat
      BY <2>1, LenAssumption DEF ElementCompare
    <3>2. Find(k).val = X[k] /\ DataIs(Find(k), Find(k).val)
      BY <1>3, <3>1
    <3>3. CASE DataLen[v] = 0
      BY <2>1, <3>2, <3>3 DEF ElementCompare
    <3>4. CASE DataLen[v] # 0
      <4>1. DataIs(Find(k), v) /\ 1 \in 1..DataLen[v]
        BY <2>1, <3>1, <3>4 DEF ElementCompare
      <4>2. Data(v, 1) = Data(Find(k).val, 1)
        BY <3>1, <3>2, <4>1 DEF DataIs
      <4>3. Data(v, 1).v = Data(Find(k).val, 1).v
        BY <4>2
      <4>. QED
        BY <3>2, <4>3 DEF Data
    <3>. QED
      BY <3>3, <3>4
  <2>2. ASSUME X[k] = v PROVE ElementCompare(k, v)
    <3>1. Found(k)
      BY <1>4, <2>2, NamesAssumption
    <3>2. Find(k).val = v /\ DataIs(Find(k), v)
      BY <1>3, <2>2, <3>1
    <3>. QED
      BY <3>1, <3>2 DEF ElementCompare
  <2>. QED
    BY <2>1, <2>2
<1>. QED
  BY <1>3, <1>4, <1>6, <1>7

LEMMA ReadsRightNext == ReadsRight'
  BY ReadsRightNow, PTL

-----------------------------------------------------------------------------
(* The end of a call                                                        *)

LEMMA ReturnMap ==
  ASSUME LogInv', Lasting', NEW X \in KvMaps, Maps(X)', NEW r, Return(r)
  PROVE  MapInv' /\ kv' = X /\ res' = r /\ pc' = "idle"
<1>1. pc' = "idle" /\ op' = NoOp /\ kv' = Contents' /\ res' = r
  BY DEF Return
<1>2. Contents' = X
  BY <1>1, ReadsRightNext DEF ReadsRight
<1>3. CallInv'
  BY <1>1 DEF CallInv, NoOp
<1>4. Expect' = X
  <2>1. \A k \in Keys : Expected(k)' = X[k]
    BY <1>1, <1>2, NamesAssumption DEF Expected, NoOp
  <2>. QED
    BY <2>1 DEF Expect, KvMaps
<1>5. Mapped'
  BY <1>4 DEF Mapped
<1>. QED
  BY <1>1, <1>2, <1>3, <1>5 DEF MapInv

-----------------------------------------------------------------------------
(* Steps that change the map                                                *)

LEMMA LiveTypes ==
  ASSUME TypeInv, NEW p \in Pages, NEW h \in Idx, Live(p, h)
  PROVE  KeyAt(p, h) \in Keys /\ ValAt(p, h) \in Values
<1>1. flash[p].ent[h] \in Entries /\ flash[p].ent[h].t = "hdr"
  BY PageTypes DEF Live, LiveIn, Hdrs, PageRec
<1>. QED
  BY <1>1 DEF Entries, Erased, KeyAt, ValAt

LEMMA MapsRemove ==
  ASSUME TypeInv, NEW X \in KvMaps, Maps(X), NEW a \in Pages, NEW b \in Idx, Live(a, b),
         \A p \in Pages, h \in Idx : Live(p, h)' <=> Live(p, h) /\ ~(p = a /\ h = b),
         \A p \in Pages, h \in Idx : Live(p, h)' => flash'[p].ent[h] = flash[p].ent[h]
  PROVE  \A k : k = KeyAt(a, b) => Maps([X EXCEPT ![k] = NoVal])'
<1> TAKE k
<1> HAVE k = KeyAt(a, b)
<1> DEFINE Y == [X EXCEPT ![k] = NoVal]
<1>1. k \in Keys /\ \A j \in Keys : Y[j] = IF j = k THEN NoVal ELSE X[j]
  BY LiveTypes DEF KvMaps
<1>. HIDE DEF Y
<1>2. \A p \in Pages, h \in Idx : Live(p, h)' =>
         /\ KeyAt(p, h)' = KeyAt(p, h) /\ ValAt(p, h)' = ValAt(p, h)
         /\ KeyAt(p, h) # k /\ KeyAt(p, h) \in Keys
  <2> SUFFICES ASSUME NEW p \in Pages, NEW h \in Idx, Live(p, h)'
               PROVE  /\ KeyAt(p, h)' = KeyAt(p, h) /\ ValAt(p, h)' = ValAt(p, h)
                      /\ KeyAt(p, h) # k /\ KeyAt(p, h) \in Keys
    OBVIOUS
  <2>1. Live(p, h) /\ ~(p = a /\ h = b)
    OBVIOUS
  <2>2. KeyAt(p, h) # KeyAt(a, b)
    BY <2>1 DEF Maps, OneEach
  <2>3. KeyAt(p, h)' = KeyAt(p, h) /\ ValAt(p, h)' = ValAt(p, h)
    BY DEF KeyAt, ValAt
  <2>. QED
    BY <2>1, <2>2, <2>3, LiveTypes
<1>3. OneEach'
  <2> SUFFICES ASSUME NEW p \in Pages, NEW q \in Pages, NEW h \in Idx, NEW g \in Idx,
                      Live(p, h)', Live(q, g)', KeyAt(p, h)' = KeyAt(q, g)'
               PROVE  p = q /\ h = g
    BY DEF OneEach
  <2>1. Live(p, h) /\ Live(q, g) /\ KeyAt(p, h) = KeyAt(q, g)
    BY <1>2
  <2>. QED
    BY <2>1 DEF Maps, OneEach
<1>4. \A p \in Pages, h \in Idx : Live(p, h)' => ValAt(p, h)' = Y[KeyAt(p, h)']
  BY <1>1, <1>2 DEF Maps
<1>5. ASSUME NEW j \in Keys, Y[j] # NoVal
      PROVE  \E p \in Pages, h \in Idx : Live(p, h)' /\ KeyAt(p, h)' = j
  <2>1. j # k /\ X[j] # NoVal
    BY <1>1, <1>5
  <2>2. PICK p \in Pages, h \in Idx : Live(p, h) /\ KeyAt(p, h) = j
    BY <2>1 DEF Maps
  <2>3. Live(p, h)'
    BY <2>1, <2>2
  <2>. QED
    BY <1>2, <2>2, <2>3
<1>6. Maps(Y)'
  BY <1>3, <1>4, <1>5 DEF Maps
<1>. QED
  BY <1>6 DEF Y

LEMMA MapsAdd ==
  ASSUME TypeInv, NEW X \in KvMaps, Maps(X), NEW a \in Pages, NEW b \in Idx, ~Live(a, b),
         NEW k \in Keys, NEW v \in Values, X[k] = NoVal, flash'[a].ent[b] = Hdr(k, v),
         \A p \in Pages, h \in Idx : Live(p, h)' <=> Live(p, h) \/ (p = a /\ h = b),
         \A p \in Pages, h \in Idx : ~(p = a /\ h = b) => flash'[p].ent[h] = flash[p].ent[h]
  PROVE  Maps([X EXCEPT ![k] = v])'
<1> DEFINE Y == [X EXCEPT ![k] = v]
<1>1. \A j \in Keys : Y[j] = IF j = k THEN v ELSE X[j]
  BY DEF KvMaps
<1>. HIDE DEF Y
<1>2. \A p \in Pages, h \in Idx : Live(p, h) => KeyAt(p, h) # k /\ KeyAt(p, h) \in Keys
  <2> SUFFICES ASSUME NEW p \in Pages, NEW h \in Idx, Live(p, h)
               PROVE  KeyAt(p, h) # k /\ KeyAt(p, h) \in Keys
    OBVIOUS
  <2>1. KeyAt(p, h) \in Keys /\ ValAt(p, h) \in Values /\ ValAt(p, h) = X[KeyAt(p, h)]
    BY LiveTypes DEF Maps
  <2>. QED
    BY <2>1, NamesAssumption
<1>3. KeyAt(a, b)' = k /\ ValAt(a, b)' = v
  <2>1. flash'[a].ent[b].k = k /\ flash'[a].ent[b].v = v
    BY DEF Hdr
  <2>. QED
    BY <2>1 DEF KeyAt, ValAt
<1>4. \A p \in Pages, h \in Idx : ~(p = a /\ h = b) =>
         KeyAt(p, h)' = KeyAt(p, h) /\ ValAt(p, h)' = ValAt(p, h)
  BY DEF KeyAt, ValAt
<1>5. OneEach'
  <2> SUFFICES ASSUME NEW p \in Pages, NEW q \in Pages, NEW h \in Idx, NEW g \in Idx,
                      Live(p, h)', Live(q, g)', KeyAt(p, h)' = KeyAt(q, g)'
               PROVE  p = q /\ h = g
    BY DEF OneEach
  <2>1. CASE (p = a /\ h = b) /\ ~(q = a /\ g = b)
    BY <1>2, <1>3, <1>4, <2>1
  <2>2. CASE ~(p = a /\ h = b) /\ (q = a /\ g = b)
    BY <1>2, <1>3, <1>4, <2>2
  <2>3. CASE ~(p = a /\ h = b) /\ ~(q = a /\ g = b)
    <3>1. Live(p, h) /\ Live(q, g) /\ KeyAt(p, h) = KeyAt(q, g)
      BY <1>4, <2>3
    <3>. QED
      BY <3>1 DEF Maps, OneEach
  <2>. QED
    BY <2>1, <2>2, <2>3
<1>6. ASSUME NEW p \in Pages, NEW h \in Idx, Live(p, h)'
      PROVE  ValAt(p, h)' = Y[KeyAt(p, h)']
  <2>1. CASE p = a /\ h = b
    BY <1>1, <1>3, <2>1
  <2>2. CASE ~(p = a /\ h = b)
    BY <1>1, <1>2, <1>4, <1>6, <2>2 DEF Maps
  <2>. QED
    BY <2>1, <2>2
<1>7. ASSUME NEW j \in Keys, Y[j] # NoVal
      PROVE  \E p \in Pages, h \in Idx : Live(p, h)' /\ KeyAt(p, h)' = j
  <2>1. CASE j = k
    BY <1>3, <2>1
  <2>2. CASE j # k
    <3>1. X[j] # NoVal
      BY <1>1, <1>7, <2>2
    <3>2. PICK p \in Pages, h \in Idx : Live(p, h) /\ KeyAt(p, h) = j
      BY <3>1 DEF Maps
    <3>3. ~(p = a /\ h = b)
      BY <3>2
    <3>. QED
      BY <1>4, <3>2, <3>3
  <2>. QED
    BY <2>1, <2>2
<1>8. Maps(Y)'
  BY <1>5, <1>6, <1>7 DEF Maps
<1>. QED
  BY <1>8 DEF Y

\* A live header is copied to another place, and its old place given up.
LEMMA MapsMove ==
  ASSUME NEW X, Maps(X), NEW a \in Pages, NEW b \in Idx, Live(a, b),
         NEW c \in Pages, NEW d \in Idx, ~Live(c, d), flash'[c].ent[d] = flash[a].ent[b],
         \A p \in Pages, h \in Idx :
             Live(p, h)' <=> (Live(p, h) /\ ~(p = a /\ h = b)) \/ (p = c /\ h = d),
         \A p \in Pages, h \in Idx : ~(p = c /\ h = d) => flash'[p].ent[h] = flash[p].ent[h]
  PROVE  Maps(X)'
<1>1. KeyAt(c, d)' = KeyAt(a, b) /\ ValAt(c, d)' = ValAt(a, b)
  BY DEF KeyAt, ValAt
<1>2. \A p \in Pages, h \in Idx : ~(p = c /\ h = d) =>
         KeyAt(p, h)' = KeyAt(p, h) /\ ValAt(p, h)' = ValAt(p, h)
  BY DEF KeyAt, ValAt
<1>3. OneEach'
  <2> SUFFICES ASSUME NEW p \in Pages, NEW q \in Pages, NEW h \in Idx, NEW g \in Idx,
                      Live(p, h)', Live(q, g)', KeyAt(p, h)' = KeyAt(q, g)'
               PROVE  p = q /\ h = g
    BY DEF OneEach
  <2>1. CASE (p = c /\ h = d) /\ ~(q = c /\ g = d)
    <3>1. Live(q, g) /\ ~(q = a /\ g = b) /\ KeyAt(q, g) = KeyAt(a, b)
      BY <1>1, <1>2, <2>1
    <3>. QED
      BY <3>1 DEF Maps, OneEach
  <2>2. CASE ~(p = c /\ h = d) /\ (q = c /\ g = d)
    <3>1. Live(p, h) /\ ~(p = a /\ h = b) /\ KeyAt(p, h) = KeyAt(a, b)
      BY <1>1, <1>2, <2>2
    <3>. QED
      BY <3>1 DEF Maps, OneEach
  <2>3. CASE ~(p = c /\ h = d) /\ ~(q = c /\ g = d)
    <3>1. Live(p, h) /\ Live(q, g) /\ KeyAt(p, h) = KeyAt(q, g)
      BY <1>2, <2>3
    <3>. QED
      BY <3>1 DEF Maps, OneEach
  <2>. QED
    BY <2>1, <2>2, <2>3
<1>4. ASSUME NEW p \in Pages, NEW h \in Idx, Live(p, h)'
      PROVE  ValAt(p, h)' = X[KeyAt(p, h)']
  <2>1. CASE p = c /\ h = d
    BY <1>1, <2>1 DEF Maps
  <2>2. CASE ~(p = c /\ h = d)
    BY <1>2, <1>4, <2>2 DEF Maps
  <2>. QED
    BY <2>1, <2>2
<1>5. ASSUME NEW k \in Keys, X[k] # NoVal
      PROVE  \E p \in Pages, h \in Idx : Live(p, h)' /\ KeyAt(p, h)' = k
  <2>1. PICK p \in Pages, h \in Idx : Live(p, h) /\ KeyAt(p, h) = k
    BY <1>5 DEF Maps
  <2>2. CASE p = a /\ h = b
    BY <1>1, <2>1, <2>2
  <2>3. CASE ~(p = a /\ h = b)
    <3>1. Live(p, h)' /\ ~(p = c /\ h = d)
      BY <2>1, <2>3
    <3>. QED
      BY <1>2, <2>1, <3>1
  <2>. QED
    BY <2>2, <2>3
<1>. QED
  BY <1>3, <1>4, <1>5 DEF Maps

LEMMA MapsEmpty ==
  ASSUME \A p \in Pages, h \in Idx : ~Live(p, h)'
  PROVE  [k \in Keys |-> NoVal] \in KvMaps /\ Maps([k \in Keys |-> NoVal])'
<1>1. PICK X : X = [k \in Keys |-> NoVal]
  OBVIOUS
<1>2. Maps(X)'
  BY <1>1 DEF Maps, OneEach
<1>. QED
  BY <1>1, <1>2 DEF KvMaps

LEMMA ExpectType == TypeInv => Expect \in KvMaps
<1> SUFFICES ASSUME TypeInv, NEW k \in Keys PROVE Expected(k) \in Values \cup {NoVal}
  BY DEF Expect, KvMaps
<1>1. kv[k] \in Values \cup {NoVal} /\ op.val \in Values \cup {NoVal}
  BY DEF TypeInv, TypeOK, OpRec
<1>. QED
  BY <1>1 DEF Expected

-----------------------------------------------------------------------------
(* The steps of the calls                                                   *)

\* What a step may make of the map and the last result: nothing, or what the
\* return of the call in progress says.
Result ==
    \/ UNCHANGED <<kv, res>> /\ (pc' # "idle" \/ UNCHANGED vars)
    \/ /\ pc = "idle" /\ kv' = kv
       /\ \/ res' = "OK" /\ \E k \in Keys, v \in Values : kv[k] = v
          \/ res' = "NOT_FOUND" /\ \E k \in Keys : kv[k] = NoVal
    \/ /\ op.kind = "put" /\ op.key \in Keys /\ op.val \in Values
       /\ \/ res' = "OK" /\ kv' = [kv EXCEPT ![op.key] = op.val]
          \/ /\ res' = "NO_SPACE" /\ kv[op.key] # op.val
             /\ kv' = [kv EXCEPT ![op.key] = NoVal]
    \/ /\ op.kind = "del" /\ op.key \in Keys /\ kv[op.key] # NoVal
       /\ res' = "OK" /\ kv' = [kv EXCEPT ![op.key] = NoVal]
    \/ /\ op.kind \in {"clean", "load"}
       /\ res' = "OK" /\ kv' = [k \in Keys |-> NoVal]

\* What a step of a call in progress needs to show when it does not return.
LEMMA GoesOn ==
  ASSUME TypeInv', LogInv', Lasting', CallInv', UNCHANGED <<kv, res>>,
         pc' \notin {"idle", "clean"},
         NEW X \in KvMaps, Maps(X)', \A k \in Keys : Expected(k)' = X[k]
  PROVE  MapInv' /\ Result
<1>1. Expect' = X
  BY DEF Expect, KvMaps
<1>. QED
  BY <1>1 DEF MapInv, Mapped, Result

LEMMA IdleMap ==
  ASSUME MapInv, pc = "idle"
  PROVE  /\ LogInv /\ Lasting /\ op = NoOp
         /\ \E X \in KvMaps : X = kv /\ Maps(X)
         /\ \A k \in Keys : Found(k) <=> kv[k] # NoVal
         /\ \A k \in Keys, v \in Values : ElementCompare(k, v) <=> kv[k] = v
         /\ \A k \in Keys : Found(k) => KeyAt(Find(k).page, Find(k).idx) = k
<1>1. LogInv /\ Lasting /\ op = NoOp
  BY DEF MapInv, CallInv
<1>2. PICK X \in KvMaps : X = Expect /\ Maps(X)
  BY DEF MapInv, Mapped
<1>3. X = kv
  <2>1. \A k \in Keys : Expected(k) = kv[k]
    BY <1>1, NamesAssumption DEF Expected, NoOp
  <2>2. kv \in KvMaps
    BY <1>1 DEF LogInv, TypeInv, TypeOK, KvMaps
  <2>3. \A k \in Keys : X[k] = kv[k]
    BY <1>2, <2>1 DEF Expect
  <2>. QED
    BY <2>2, <2>3 DEF KvMaps
<1>4. /\ \A k \in Keys : Found(k) <=> X[k] # NoVal
      /\ \A k \in Keys, v \in Values : ElementCompare(k, v) <=> X[k] = v
      /\ \A k \in Keys : Found(k) => KeyAt(Find(k).page, Find(k).idx) = k
  BY <1>1, <1>2, ReadsRightNow DEF ReadsRight
<1>. QED
  BY <1>1, <1>2, <1>3, <1>4

LEMMA LastingKept ==
  ASSUME Lasting, UNCHANGED <<used, vic>>, \A p \in Pages : flash'[p].st = flash[p].st,
         pc' \in {"copy", "copied"} => pc \in {"copy", "copied"}
  PROVE  Lasting'
  BY DEF Lasting

LEMMA CallMap ==
  ASSUME MapInv, TypeInv',
         \/ \E k \in Keys, v \in Values : PutSame(k, v) \/ PutStart(k, v)
         \/ \E k \in Keys : DelStart(k) \/ DelMissing(k)
  PROVE  MapInv' /\ Result
<1>1. /\ pc = "idle" /\ UNCHANGED <<flash, used, free, nextFree, cntUsed>>
      /\ pc' \notin {"copy", "copied", "clean"}
  BY DEF PutSame, PutStart, DelStart, DelMissing, DeleteStart, Return, ram
<1>2. LogInv /\ Lasting /\ op = NoOp
  BY <1>1, IdleMap
<1>3. PICK X \in KvMaps : X = kv /\ Maps(X)
  BY <1>1, IdleMap
<1>4. Lasting'
  BY <1>1, <1>2 DEF Lasting
<1>5. ASSUME \A p \in Pages : Keeps(p) PROVE Maps(X)'
  BY <1>1, <1>3, <1>5, MapsKept
<1>6. ASSUME NEW k \in Keys, NEW v \in Values, PutSame(k, v)
      PROVE  MapInv' /\ Result
  <2>1. LogInv' /\ \A p \in Pages : Keeps(p)
    BY <1>2, <1>6, CalmLog
  <2>2. Return("OK") /\ kv[k] = v
    BY <1>1, <1>6, IdleMap DEF PutSame
  <2>3. MapInv' /\ kv' = X /\ res' = "OK"
    BY <1>4, <1>5, <2>1, <2>2, ReturnMap
  <2>. QED
    BY <1>1, <1>3, <2>2, <2>3 DEF Result
<1>7. ASSUME NEW k \in Keys, DelMissing(k)
      PROVE  MapInv' /\ Result
  <2>1. LogInv' /\ \A p \in Pages : Keeps(p)
    BY <1>2, <1>7, CalmLog
  <2>2. Return("NOT_FOUND") /\ kv[k] = NoVal
    BY <1>1, <1>7, IdleMap DEF DelMissing
  <2>3. MapInv' /\ kv' = X /\ res' = "NOT_FOUND"
    BY <1>4, <1>5, <2>1, <2>2, ReturnMap
  <2>. QED
    BY <1>1, <1>3, <2>2, <2>3 DEF Result
<1>8. ASSUME NEW k \in Keys, NEW v \in Values, PutStart(k, v), ~Found(k)
      PROVE  MapInv' /\ Result
  <2>1. LogInv' /\ \A p \in Pages : Keeps(p)
    BY <1>2, <1>8, CalmLog
  <2>2. /\ op' = [kind |-> "put", key |-> k, val |-> v] /\ pc' = "room"
        /\ UNCHANGED <<kv, res>>
    BY <1>8 DEF PutStart, other
  <2>3. kv[k] # v /\ kv[k] = NoVal
    BY <1>1, <1>8, IdleMap DEF PutStart
  <2>4. CallInv'
    BY <2>2, <2>3 DEF CallInv
  <2>5. \A j \in Keys : Expected(j)' = X[j]
    BY <1>3, <2>2, <2>3 DEF Expected
  <2>. QED
    BY <1>4, <1>5, <2>1, <2>2, <2>4, <2>5, GoesOn
<1>9. ASSUME NEW k \in Keys, Found(k), DeleteStart(k), UNCHANGED <<kv, res>>, op'.key = k,
             op'.kind = "put" \/ op'.kind = "del",
             op'.kind = "put" => kv[k] # op'.val
      PROVE  MapInv' /\ Result
  <2>1. LogInv' /\ \A p \in Pages : Keeps(p)
    BY <1>1, <1>2, <1>9, DeleteStartLog
  <2>2. pc' = "delete" /\ pg' = Find(k).page /\ rng'.lo = Find(k).idx
    BY <1>9 DEF DeleteStart, ElementRange
  <2>3. flash'[pg'].ent[rng'.lo].k = k
    BY <1>1, <1>9, <2>2, IdleMap DEF KeyAt
  <2>4. CallInv'
    BY <1>9, <2>2, <2>3 DEF CallInv, KeyAt
  <2>5. \A j \in Keys : Expected(j)' = X[j]
    BY <1>3, <1>9, <2>2 DEF Expected
  <2>. QED
    BY <1>4, <1>5, <1>9, <2>1, <2>2, <2>4, <2>5, GoesOn
<1>10. ASSUME NEW k \in Keys, NEW v \in Values, PutStart(k, v), Found(k)
       PROVE  MapInv' /\ Result
  <2>1. DeleteStart(k) /\ op' = [kind |-> "put", key |-> k, val |-> v] /\ UNCHANGED <<kv, res>>
    BY <1>10 DEF PutStart, other
  <2>2. kv[k] # v
    BY <1>1, <1>10, IdleMap DEF PutStart
  <2>. QED
    BY <1>9, <1>10, <2>1, <2>2
<1>11. ASSUME NEW k \in Keys, DelStart(k)
       PROVE  MapInv' /\ Result
  <2>1. /\ DeleteStart(k) /\ op' = [kind |-> "del", key |-> k, val |-> NoVal] /\ Found(k)
        /\ UNCHANGED <<kv, res>>
    BY <1>11 DEF DelStart, other
  <2>. QED
    BY <1>9, <2>1
<1>. QED
  BY <1>6, <1>7, <1>8, <1>10, <1>11

\* The map in the middle of a put.
PutMap(written) == [kv EXCEPT ![op.key] = IF written THEN op.val ELSE NoVal]

LEMMA PutFacts ==
  ASSUME MapInv, pc \in PutSteps \/ (pc = "header" /\ op.kind = "put")
  PROVE  /\ LogInv /\ TypeInv /\ Lasting /\ op.kind = "put" /\ op.key \in Keys /\ op.val \in Values
         /\ kv[op.key] # op.val /\ kv \in KvMaps
         /\ \E X \in KvMaps : X = PutMap(pc \in {"data", "mark"}) /\ Maps(X)
<1>1. LogInv /\ TypeInv /\ CallInv /\ Lasting /\ Mapped
  BY DEF MapInv, LogInv, PutSteps
<1>2. op.kind = "put"
  BY <1>1 DEF TypeInv, Prepared
<1>3. op.key \in Keys /\ op.val \in Values /\ kv \in KvMaps
  BY <1>1, <1>2 DEF TypeInv, TypeOK, Prepared, KvMaps
<1>4. kv[op.key] # op.val
  BY <1>1, <1>2 DEF CallInv
<1>5. PICK X \in KvMaps : X = Expect /\ Maps(X)
  BY <1>1 DEF Mapped
<1>6. X = PutMap(pc \in {"data", "mark"})
  <2>1. \A k \in Keys : Expected(k) = PutMap(pc \in {"data", "mark"})[k]
    BY <1>2, <1>3 DEF Expected, PutMap, KvMaps, PutSteps
  <2>2. PutMap(pc \in {"data", "mark"}) \in KvMaps
    BY <1>3 DEF PutMap, KvMaps
  <2>3. \A k \in Keys : X[k] = PutMap(pc \in {"data", "mark"})[k]
    BY <1>5, <2>1 DEF Expect
  <2>. HIDE DEF PutMap
  <2>. QED
    BY <2>2, <2>3 DEF KvMaps
<1>. QED
  BY <1>1, <1>2, <1>3, <1>4, <1>5, <1>6

LEMMA Unwritten ==
  ASSUME MapInv, pc \in PutSteps \/ (pc = "header" /\ op.kind = "put"),
         pc \notin {"data", "mark"}
  PROVE  \E X \in KvMaps : X = PutMap(FALSE) /\ Maps(X)
<1>1. (pc \in {"data", "mark"}) = FALSE
  OBVIOUS
<1>2. \E X \in KvMaps : X = PutMap(pc \in {"data", "mark"}) /\ Maps(X)
  BY PutFacts
<1>. QED
  BY <1>1, <1>2

LEMMA Written ==
  ASSUME MapInv, pc \in {"data", "mark"}
  PROVE  \E X \in KvMaps : X = PutMap(TRUE) /\ Maps(X)
<1>1. (pc \in {"data", "mark"}) = TRUE
  OBVIOUS
<1>2. \E X \in KvMaps : X = PutMap(pc \in {"data", "mark"}) /\ Maps(X)
  BY PutFacts DEF PutSteps
<1>. QED
  BY <1>1, <1>2

LEMMA PutGoesOn ==
  ASSUME LogInv', Lasting', UNCHANGED <<op, kv, res>>, op.kind = "put",
         op.key \in Keys, op.val \in Values, kv[op.key] # op.val, kv \in KvMaps,
         pc' \in PutSteps \cup {"header"},
         NEW X \in KvMaps, Maps(X)', X = PutMap(pc' \in {"data", "mark"})
  PROVE  MapInv' /\ Result
<1>1. CallInv'
  BY DEF CallInv, PutSteps
<1>2. \A k \in Keys : Expected(k)' = X[k]
  BY DEF Expected, PutMap, KvMaps, PutSteps
<1>3. TypeInv' /\ pc' \notin {"idle", "clean"}
  BY DEF LogInv, PutSteps
<1>. QED
  BY <1>1, <1>2, <1>3, GoesOn

\* A put that returns NVDS_E_NO_SPACE has cost the key its value.
LEMMA NoSpaceMap ==
  ASSUME MapInv, TypeInv', RequestFails \/ StillNoRoom
  PROVE  MapInv' /\ Result
<1>1. /\ pc \in {"request", "recheck"} /\ Return("NO_SPACE") /\ pc' = "idle"
      /\ UNCHANGED <<flash, used, free, nextFree, cntUsed>>
  BY DEF RequestFails, StillNoRoom, Return, ram
<1>2. /\ LogInv /\ Lasting /\ op.kind = "put" /\ op.key \in Keys /\ op.val \in Values
      /\ kv[op.key] # op.val /\ kv \in KvMaps
  BY <1>1, PutFacts DEF PutSteps
<1>3. PICK X \in KvMaps : X = PutMap(FALSE) /\ Maps(X)
  BY <1>1, Unwritten DEF PutSteps
<1>4. LogInv' /\ \A p \in Pages : Keeps(p)
  BY <1>2, CalmLog
<1>5. Maps(X)'
  BY <1>1, <1>3, <1>4, MapsKept
<1>6. Lasting'
  BY <1>1, <1>2 DEF Lasting
<1>7. MapInv' /\ kv' = X /\ res' = "NO_SPACE"
  BY <1>1, <1>4, <1>5, <1>6, ReturnMap
<1>. QED
  BY <1>2, <1>3, <1>7 DEF Result, PutMap

LEMMA RoomMap ==
  ASSUME MapInv, TypeInv', SanityFail \/ HasRoom \/ MarkFull \/ RequestPage \/ RoomNow
  PROVE  MapInv' /\ Result
<1>1. /\ pc \in {"room", "request", "recheck"} /\ UNCHANGED <<used, free, nextFree, cntUsed>>
  BY DEF SanityFail, HasRoom, MarkFull, RequestPage, RoomNow, ram
<1>2. /\ LogInv /\ TypeInv /\ Lasting /\ op.kind = "put" /\ op.key \in Keys /\ op.val \in Values
      /\ kv[op.key] # op.val /\ kv \in KvMaps
  BY <1>1, PutFacts DEF PutSteps
<1>3. PICK X \in KvMaps : X = PutMap(FALSE) /\ Maps(X)
  BY <1>1, Unwritten DEF PutSteps
<1>4. Cur \in Pages /\ Holds(used, Cur)
  <2>1. used # <<>> /\ used \in Seq(Pages)
    BY <1>1, <1>2, PageTypes DEF TypeInv, Prepared
  <2>2. Len(used) \in DOMAIN used
    BY <2>1
  <2>. QED
    BY <2>1, <2>2 DEF Cur, Holds
<1>5. ~SanityFail
  BY <1>2, <1>4 DEF SanityFail, Lasting
<1>6. LogInv' /\ \A p \in Pages : Keeps(p)
  BY <1>2, CalmLog
<1>7. /\ pc' \in {"write", "request", "header"} /\ UNCHANGED <<op, kv, res>>
  <2>1. pc' \in {"write", "request", "header", "erase"} /\ UNCHANGED <<op, kv, res>>
    BY <1>5 DEF HasRoom, MarkFull, RequestPage, RoomNow, other
  <2>2. pc' # "erase"
    BY <1>6 DEF LogInv, Stage
  <2>. QED
    BY <2>1, <2>2
<1>8. Maps(X)'
  BY <1>1, <1>3, <1>6, <1>7, MapsKept
<1>9. Lasting'
  <2>1. flash' = flash \/ flash' = [flash EXCEPT ![Cur].st = "FULL"]
    BY <1>5 DEF HasRoom, MarkFull, RequestPage, RoomNow
  <2>2. flash \in [Pages -> PageRec]
    BY <1>2 DEF TypeInv, TypeOK
  <2>3. \A p \in Pages : flash'[p].st = flash[p].st \/ flash'[p].st = "FULL"
    <3> TAKE p \in Pages
    <3>1. flash[p] \in PageRec
      BY <2>2
    <3>. QED
      BY <2>1, <2>2, <3>1, <1>4 DEF PageRec
  <2>. QED
    BY <1>1, <1>2, <1>7, <2>3 DEF Lasting
<1>10. (pc' \in {"data", "mark"}) = FALSE
  BY <1>7
<1>. QED
  BY <1>2, <1>3, <1>6, <1>7, <1>8, <1>9, <1>10, PutGoesOn DEF PutSteps

LEMMA DeleteFacts ==
  ASSUME MapInv, pc = "delete"
  PROVE  /\ LogInv /\ TypeInv /\ Lasting /\ op.kind \in {"put", "del"} /\ op.key \in Keys
         /\ pg \in Pages /\ rng.lo \in Idx /\ KeyAt(pg, rng.lo) = op.key /\ Live(pg, rng.lo)
         /\ kv \in KvMaps /\ kv[op.key] # NoVal /\ Deleting
         /\ \E X \in KvMaps : X = kv /\ Maps(X)
<1>1. LogInv /\ TypeInv /\ CallInv /\ Lasting /\ Mapped
  BY DEF MapInv, LogInv
<1>2. /\ op.kind \in {"put", "del"} /\ op.key \in Keys /\ KeyAt(pg, rng.lo) = op.key
      /\ pg \in Pages /\ rng.lo \in Idx /\ kv \in KvMaps
  BY <1>1 DEF TypeInv, TypeOK, Prepared, CallInv, RngRec, KvMaps
<1>3. Deleting /\ Holds(used, pg)
  BY <1>1 DEF LogInv, Phase, Stage, InPage
<1>4. Live(pg, rng.lo)
  BY <1>3 DEF Deleting, Live, LiveIn
<1>5. PICK X \in KvMaps : X = Expect /\ Maps(X)
  BY <1>1 DEF Mapped
<1>6. X = kv
  <2>1. \A k \in Keys : Expected(k) = kv[k]
    BY <1>2 DEF Expected
  <2>2. \A k \in Keys : X[k] = kv[k]
    BY <1>5, <2>1 DEF Expect
  <2>. QED
    BY <1>2, <2>2 DEF KvMaps
<1>7. kv[op.key] # NoVal
  <2>1. ValAt(pg, rng.lo) = X[op.key]
    BY <1>2, <1>4, <1>5 DEF Maps
  <2>2. ValAt(pg, rng.lo) \in Values
    BY <1>1, <1>2, <1>4, LiveTypes
  <2>. QED
    BY <1>6, <2>1, <2>2, NamesAssumption
<1>. QED
  BY <1>1, <1>2, <1>3, <1>4, <1>5, <1>6, <1>7

LEMMA MarkUpdatedMap ==
  ASSUME MapInv, TypeInv', MarkUpdated
  PROVE  MapInv' /\ Result
<1>1. /\ pc = "delete" /\ pc' = "delete" /\ SetState(pg, rng.at, "UPDATED")
      /\ rng' = [rng EXCEPT !.at = rng.at + 1] /\ rng.at < rng.hi
      /\ UNCHANGED <<used, free, nextFree, cntUsed, op, pg, vic, kv, res>>
  BY DEF MarkUpdated, ram, other
<1>2. /\ LogInv /\ TypeInv /\ Lasting /\ op.kind \in {"put", "del"} /\ op.key \in Keys
      /\ pg \in Pages /\ rng.lo \in Idx /\ KeyAt(pg, rng.lo) = op.key
  BY <1>1, DeleteFacts
<1>3. PICK X \in KvMaps : X = kv /\ Maps(X)
  BY <1>1, DeleteFacts
<1>4. LogInv' /\ \A p \in Pages : Keeps(p)
  BY <1>2, DeleteLog
<1>5. Maps(X)'
  BY <1>1, <1>3, <1>4, MapsKept
<1>6. \A p \in Pages : flash'[p].st = flash[p].st
  <2>1. flash \in [Pages -> PageRec] /\ rng.at \in Idx /\ "UPDATED" \in EntryStates
    <3>1. rng.hi \in Idx /\ rng.at \in Nat
      BY <1>2, PageTypes DEF RngRec
    <3>. QED
      BY <1>1, <1>2, <3>1, SizeAssumption DEF Idx, TypeInv, TypeOK, EntryStates
  <2>. QED
    BY <1>1, <1>2, <2>1, Marked
<1>7. Lasting'
  BY <1>1, <1>2, <1>6, LastingKept
<1>8. CallInv'
  <2>1. rng'.lo = rng.lo
    BY <1>1, <1>2 DEF TypeInv, TypeOK, RngRec
  <2>2. flash'[pg].ent = flash[pg].ent
    BY <1>2, <1>4 DEF Keeps
  <2>3. op.kind = "put" => kv[op.key] # op.val
    BY DEF MapInv, CallInv
  <2>4. flash'[pg'].ent[rng'.lo].k = op.key
    BY <1>1, <1>2, <2>1, <2>2 DEF KeyAt
  <2>. QED
    BY <1>1, <1>2, <2>3, <2>4 DEF CallInv, KeyAt
<1>9. \A k \in Keys : Expected(k)' = X[k]
  BY <1>1, <1>2, <1>3 DEF Expected
<1>. QED
  BY <1>1, <1>4, <1>5, <1>7, <1>8, <1>9, GoesOn

LEMMA DeletedMap ==
  ASSUME MapInv, TypeInv', Deleted
  PROVE  MapInv' /\ Result
<1>1. /\ pc = "delete" /\ pc' \in {"idle", "room"} /\ SetState(pg, rng.at, "UPDATED")
      /\ UNCHANGED <<used, free, nextFree>> /\ rng.at = rng.hi
  BY DEF Deleted, Return
<1>2. /\ LogInv /\ TypeInv /\ Lasting /\ op.kind \in {"put", "del"} /\ op.key \in Keys
      /\ pg \in Pages /\ rng.lo \in Idx /\ KeyAt(pg, rng.lo) = op.key /\ Live(pg, rng.lo)
      /\ kv \in KvMaps /\ kv[op.key] # NoVal /\ Deleting
  BY <1>1, DeleteFacts
<1>3. PICK X \in KvMaps : X = kv /\ Maps(X)
  BY <1>1, DeleteFacts
<1>4. /\ LogInv' /\ \A p \in Pages : p # pg => Keeps(p)
      /\ flash'[pg].ent = flash[pg].ent /\ nextFree'[pg] = nextFree[pg]
      /\ Used(flash'[pg]) = Counted(pg) \ (rng.lo .. rng.hi)
  BY <1>2, DeleteLog
<1>5. LiveIn(pg) \ {rng.lo} = Hdrs(flash'[pg], nextFree'[pg]) \cap Used(flash'[pg])
  <2> DEFINE r == flash[pg]
             n == nextFree[pg]
  <2>1. Hdrs(flash'[pg], nextFree'[pg]) = Hdrs(r, n)
    BY <1>4 DEF Hdrs
  <2>2. r \in PageRec /\ n \in 0..N /\ Layout(r, n, Counted(pg))
    BY <1>1, <1>2, PageTypes DEF LogInv, PageInv
  <2>3. rng.lo \in Hdrs(r, n) /\ rng.hi = End(r, rng.lo)
    BY <1>2 DEF Deleting
  <2>. HIDE DEF r, n
  <2>4. \A g \in Hdrs(r, n) : g \in rng.lo .. rng.hi <=> g = rng.lo
    <3> TAKE g \in Hdrs(r, n)
    <3>1. g \in Nat /\ rng.lo \in Nat /\ rng.hi \in Nat /\ rng.lo <= rng.hi
      BY <2>2, <2>3, EndType
    <3>2. rng.lo < g => rng.hi < g
      BY <2>2, <2>3, Apart
    <3>. QED
      BY <3>1, <3>2
  <2>. QED
    BY <1>4, <2>1, <2>4 DEF LiveIn, r, n
<1>6. \A p \in Pages, h \in Idx : Live(p, h)' <=> Live(p, h) /\ ~(p = pg /\ h = rng.lo)
  <2> TAKE p \in Pages, h \in Idx
  <2>1. Counted(p)' = Used(flash'[p])
    BY <1>1, QuietNext
  <2>2. LiveIn(p)' = Hdrs(flash'[p], nextFree'[p]) \cap Used(flash'[p])
    BY <2>1 DEF LiveIn
  <2>3. Live(p, h)' <=> h \in LiveIn(p)' /\ Holds(used, p)
    BY <1>1 DEF Live
  <2>4. Live(p, h) <=> h \in LiveIn(p) /\ Holds(used, p)
    BY <1>1 DEF Live
  <2>5. CASE p = pg
    BY <1>5, <2>2, <2>3, <2>4, <2>5
  <2>6. CASE p # pg
    BY <1>4, <2>3, <2>4, <2>6, KeepsLive
  <2>. QED
    BY <2>5, <2>6
<1>7. \A p \in Pages, h \in Idx : flash'[p].ent[h] = flash[p].ent[h]
  BY <1>4, KeepsLive
<1>8. PICK k, Y : k = op.key /\ Y = [X EXCEPT ![k] = NoVal]
  OBVIOUS
<1>9. Maps(Y)' /\ Y \in KvMaps
  <2>1. PICK a \in Pages, b \in Idx : a = pg /\ b = rng.lo
    BY <1>2
  <2>2. \A p \in Pages, h \in Idx : Live(p, h)' <=> Live(p, h) /\ ~(p = a /\ h = b)
    BY <1>6, <2>1
  <2>3. Live(a, b) /\ k = KeyAt(a, b)
    BY <1>2, <1>8, <2>1
  <2>4. Maps([X EXCEPT ![k] = NoVal])'
    BY <1>2, <1>3, <1>7, <2>2, <2>3, MapsRemove
  <2>. QED
    BY <1>8, <2>4 DEF KvMaps
<1>10. \A p \in Pages : flash'[p].st = flash[p].st
  <2>1. flash \in [Pages -> PageRec] /\ rng.at \in Idx /\ "UPDATED" \in EntryStates
    BY <1>1, <1>2 DEF TypeInv, TypeOK, RngRec, EntryStates
  <2>. QED
    BY <1>1, <1>2, <2>1, Marked
<1>11. Lasting'
  BY <1>1, <1>2, <1>10 DEF Lasting
<1>12. CASE op.kind = "del"
  <2>1. Return("OK")
    BY <1>12 DEF Deleted
  <2>2. MapInv' /\ kv' = Y /\ res' = "OK"
    BY <1>4, <1>9, <1>11, <2>1, ReturnMap
  <2>. QED
    BY <1>2, <1>3, <1>8, <1>12, <2>2 DEF Result
<1>13. CASE op.kind = "put"
  <2>1. pc' = "room" /\ UNCHANGED <<op, kv, res>>
    BY <1>13 DEF Deleted, other
  <2>2. op.val \in Values /\ kv[op.key] # op.val
    BY <1>2, <1>13 DEF MapInv, CallInv, TypeInv, Prepared
  <2>3. (pc' \in {"data", "mark"}) = FALSE
    BY <2>1
  <2>4. Y = PutMap(pc' \in {"data", "mark"})
    BY <1>3, <1>8, <2>3 DEF PutMap
  <2>. QED
    BY <1>2, <1>4, <1>9, <1>11, <1>13, <2>1, <2>2, <2>4, PutGoesOn DEF PutSteps
<1>. QED
  BY <1>2, <1>12, <1>13

LEMMA NoHeaders ==
  ASSUME NEW p \in Pages, nextFree'[p] = 0
  PROVE  LiveIn(p)' = {}
<1>1. Hdrs(flash'[p], nextFree'[p]) = {}
  <2>1. 0..(0 - 1) = {}
    OBVIOUS
  <2>. QED
    BY <2>1 DEF Hdrs
<1>2. LiveIn(p)' = Hdrs(flash'[p], nextFree'[p]) \cap Counted(p)'
  BY DEF LiveIn
<1>. QED
  BY <1>1, <1>2

LEMMA HeaderMap ==
  ASSUME MapInv, TypeInv', WriteHeader
  PROVE  MapInv' /\ Result
<1>1. LogInv /\ TypeInv /\ CallInv /\ Lasting /\ pc = "header" /\ pg \in Pages
  BY PageTypes DEF MapInv, LogInv, WriteHeader
<1>2. /\ LogInv' /\ nextFree'[pg] = 0 /\ flash'[pg].st = "ACTIVE"
      /\ \A p \in Pages : p # pg => Keeps(p) /\ flash'[p] = flash[p]
      /\ \A p : Holds(used', p) <=> Holds(used, p) \/ p = pg
  BY <1>1, HeaderLog
<1>3. ~Holds(used, pg)
  <2>1. free # <<>> /\ pg = Head(free) /\ Injective(free) /\ free \in Seq(Pages)
    BY <1>1 DEF LogInv, TypeInv, TypeOK, Prepared, Stage, Lists
  <2>2. Holds(free, pg)
    BY <2>1, TailList
  <2>. QED
    BY <1>1, <2>2 DEF LogInv, Lists
<1>4. pc' \in {"idle", "candidate", "recheck"}
  <2>1. CASE op.kind = "put"
    BY <2>1 DEF WriteHeader
  <2>2. CASE op.kind # "put"
    BY <2>2 DEF WriteHeader, Return
  <2>. QED
    BY <2>1, <2>2
<1>5. \A p \in Pages, h \in Idx : Live(p, h)' <=> Live(p, h)
  <2> TAKE p \in Pages, h \in Idx
  <2>1. CASE p = pg
    <3>1. LiveIn(p)' = {}
      BY <1>2, <2>1, NoHeaders
    <3>. QED
      BY <1>1, <1>3, <2>1, <3>1 DEF Live
  <2>2. CASE p # pg
    <3>1. LiveIn(p)' = LiveIn(p)
      BY <1>2, <2>2, KeepsLive
    <3>2. Holds(used', p) <=> Holds(used, p)
      BY <1>2, <2>2
    <3>. QED
      BY <1>1, <1>4, <3>1, <3>2 DEF Live
  <2>. QED
    BY <2>1, <2>2
<1>6. Lasting'
  BY <1>1, <1>2, <1>4 DEF Lasting
<1>7. CASE op.kind = "put"
  <2>1. /\ op.key \in Keys /\ op.val \in Values /\ kv[op.key] # op.val /\ kv \in KvMaps
    BY <1>1, <1>7, PutFacts
  <2>2. PICK X \in KvMaps : X = PutMap(FALSE) /\ Maps(X)
    BY <1>1, <1>7, Unwritten
  <2>3. pc' \in {"candidate", "recheck"} /\ UNCHANGED <<op, kv, res>>
    BY <1>7 DEF WriteHeader, other
  <2>4. \A p \in Pages, h \in Idx : Live(p, h) => flash'[p].ent[h] = flash[p].ent[h]
    <3> TAKE p \in Pages, h \in Idx
    <3>1. Live(p, h) => p # pg
      BY <1>1, <1>3 DEF Live
    <3>. QED
      BY <1>2, <3>1
  <2>5. Maps(X)'
    BY <1>5, <2>2, <2>4, MapsSame
  <2>6. (pc' \in {"data", "mark"}) = FALSE
    BY <2>3
  <2>. QED
    BY <1>2, <1>6, <1>7, <2>1, <2>2, <2>3, <2>5, <2>6, PutGoesOn DEF PutSteps
<1>8. CASE op.kind # "put"
  <2>1. op.kind \in {"clean", "load"} /\ used = <<>>
    BY <1>1, <1>8 DEF CallInv
  <2>2. \A p : ~Holds(used, p)
    BY <2>1 DEF Holds
  <2>3. \A p \in Pages, h \in Idx : ~Live(p, h)'
    BY <1>1, <1>5, <2>2 DEF Live
  <2>4. PICK X \in KvMaps : X = [k \in Keys |-> NoVal] /\ Maps(X)'
    BY <2>3, MapsEmpty
  <2>5. Return("OK")
    BY <1>8 DEF WriteHeader
  <2>6. MapInv' /\ kv' = X /\ res' = "OK"
    BY <1>2, <1>6, <2>4, <2>5, ReturnMap
  <2>. QED
    BY <2>1, <2>4, <2>6 DEF Result
<1>. QED
  BY <1>7, <1>8

LEMMA CandidateMap ==
  ASSUME MapInv, TypeInv', MarkCandidate
  PROVE  MapInv' /\ Result
<1>1. pc = "candidate" /\ pc' = "copy" /\ UNCHANGED <<op, pg, vic, rng, kv, res>>
  BY DEF MarkCandidate, other
<1>2. /\ LogInv /\ TypeInv /\ Lasting /\ op.kind = "put" /\ op.key \in Keys /\ op.val \in Values
      /\ kv[op.key] # op.val /\ kv \in KvMaps
  BY <1>1, PutFacts DEF PutSteps
<1>3. PICK X \in KvMaps : X = PutMap(FALSE) /\ Maps(X)
  BY <1>1, Unwritten DEF PutSteps
<1>4. /\ LogInv' /\ \A p \in Pages : Keeps(p)
      /\ \A p : Holds(used', p) <=> Holds(used, p) /\ p # vic
      /\ \A p \in Pages : p # vic => flash'[p] = flash[p]
  BY <1>2, CandidateLog
<1>5. Holds(used, vic) /\ rng.at = 0
  BY <1>1, <1>2 DEF TypeInv, Prepared, Holds, LogInv, Stage, NoRng
<1>6. \A p \in Pages, h \in Idx : Live(p, h)' <=> Live(p, h)
  <2> TAKE p \in Pages, h \in Idx
  <2>1. LiveIn(p)' = LiveIn(p) /\ h >= 0
    BY <1>4, KeepsLive, Idle
  <2>2. Live(p, h)' <=> h \in LiveIn(p) /\ (Holds(used', p) \/ p = vic)
    BY <1>1, <1>5, <2>1 DEF Live
  <2>. QED
    BY <1>1, <1>4, <1>5, <2>2 DEF Live
<1>7. Maps(X)'
  BY <1>3, <1>4, <1>6, MapsSame, KeepsLive
<1>8. Lasting'
  BY <1>1, <1>2, <1>4 DEF Lasting
<1>9. (pc' \in {"data", "mark"}) = FALSE
  BY <1>1
<1>. QED
  BY <1>1, <1>2, <1>3, <1>4, <1>7, <1>8, <1>9, PutGoesOn DEF PutSteps

LEMMA CopyMap ==
  ASSUME MapInv, TypeInv', CopyEntry
  PROVE  MapInv' /\ Result
<1> DEFINE n == nextFree[pg]
           V == flash[vic]
<1>1. pc = "copy" /\ pc' = "copied" /\ UNCHANGED <<used, op, pg, vic, kv, res>>
  BY DEF CopyEntry, other
<1>2. /\ LogInv /\ TypeInv /\ Lasting /\ op.kind = "put" /\ op.key \in Keys /\ op.val \in Values
      /\ kv[op.key] # op.val /\ kv \in KvMaps
  BY <1>1, PutFacts DEF PutSteps
<1>3. PICK X \in KvMaps : X = PutMap(FALSE) /\ Maps(X)
  BY <1>1, Unwritten DEF PutSteps
<1>4. LogInv' /\ \A p \in Pages : p # pg => Keeps(p)
  BY <1>2, CopyLog
<1>5. PICK i \in Idx : Copied(i)
  BY <1>2, CopyLog
<1>6. /\ pg \in Pages /\ vic \in Pages /\ pg # vic /\ Holds(used, pg) /\ ~Holds(used, vic)
      /\ n \in Nat /\ rng.at \in Nat /\ i \in Nat /\ n \in Idx /\ V \in PageRec
  <2>1. pg \in Pages /\ vic \in Pages /\ pg # vic /\ n \in Nat /\ rng.at \in Nat /\ V \in PageRec
    BY <1>1, <1>2, CopyFacts
  <2>2. Holds(used, pg) /\ ~Holds(used, vic)
    BY <1>1, <1>2 DEF LogInv, Stage, InPage, Lasting
  <2>. QED
    BY <1>5, <2>1, <2>2, Idle DEF Copied
<1>7. \A j \in Idx : j # n => flash'[pg].ent[j] = flash[pg].ent[j]
  BY <1>5 DEF Copied
<1>8. flash'[pg].ent[n] = V.ent[i]
  BY <1>5 DEF Copied
<1>9. \A h \in Idx : Live(pg, h) <=> h \in Hdrs(flash[pg], n)
  <2>1. Counted(pg) = 0..(n - 1)
    BY <1>5 DEF Copied
  <2>. QED
    BY <1>6, <2>1 DEF Live, LiveIn, Hdrs
<1>10. \A p \in Pages, h \in Idx : p # pg /\ p # vic => (Live(p, h)' <=> Live(p, h))
  <2> TAKE p \in Pages, h \in Idx
  <2> HAVE p # pg /\ p # vic
  <2>1. LiveIn(p)' = LiveIn(p)
    BY <1>4, KeepsLive
  <2>. QED
    BY <1>1, <2>1 DEF Live
<1>11. \A h \in Idx : Live(vic, h) <=> h \in LiveIn(vic) /\ h >= rng.at
  BY <1>1, <1>6 DEF Live
<1>12. ASSUME NEW h \in Idx, NEW p \in Pages, p = vic
       PROVE  Live(p, h)' <=> Live(p, h) /\ h # i
  <2>1. LiveIn(p)' = LiveIn(p)
    BY <1>4, <1>6, <1>12, KeepsLive
  <2>2. Live(p, h)' <=> h \in LiveIn(p) /\ h >= i + 1
    <3>1. ~Holds(used', p) /\ p = vic' /\ rng'.at = i + 1
      BY <1>1, <1>5, <1>6, <1>12 DEF Copied
    <3>. QED
      BY <1>1, <2>1, <3>1 DEF Live
  <2>3. h \in LiveIn(p) /\ h >= rng.at => i <= h
    <3>1. Counted(p) = Used(flash[p])
      BY <1>6, <1>12, QuietNow
    <3>. QED
      BY <1>5, <1>12, <3>1 DEF Copied, LiveIn
  <2>4. h \in Nat /\ i >= rng.at
    BY <1>5, Idle DEF Copied
  <2>5. h >= i + 1 <=> h >= i /\ h # i
    BY <1>6, <2>4
  <2>6. h >= i => h >= rng.at
    BY <1>6, <2>4
  <2>. QED
    BY <1>11, <1>12, <2>2, <2>3, <2>4, <2>5, <2>6
<1>13. ASSUME NEW h \in Idx, NEW p \in Pages, p = pg
       PROVE  Live(p, h)' <=> h \in Hdrs(flash'[pg], n + 1)
  <2>1. Counted(pg)' = 0..n /\ nextFree'[pg] = n + 1
    BY <1>5 DEF Copied
  <2>2. Counted(p)' = 0..n
    BY <1>1, <1>13, <2>1
  <2>3. LiveIn(p)' = Hdrs(flash'[p], nextFree'[p]) \cap Counted(p)'
    BY DEF LiveIn
  <2>4. (n + 1) - 1 = n
    BY <1>6
  <2>5. Hdrs(flash'[pg], n + 1) \subseteq 0..n
    BY <2>4 DEF Hdrs
  <2>6. Holds(used', p)
    BY <1>1, <1>6, <1>13
  <2>. QED
    BY <1>13, <2>1, <2>2, <2>3, <2>5, <2>6 DEF Live
<1>14. \A h \in Idx : h \in Hdrs(flash'[pg], n + 1) <=>
                        h \in Hdrs(flash[pg], n) \/ (h = n /\ V.ent[i].t = "hdr")
  <2> TAKE h \in Idx
  <2>1. h \in Nat
    BY Idle
  <2>. HIDE DEF n, V
  <2>2. CASE h = n
    <3>1. h \in 0..((n + 1) - 1) /\ h \notin 0..(n - 1)
      BY <1>6, <2>2
    <3>. QED
      BY <1>8, <2>2, <3>1 DEF Hdrs
  <2>3. CASE h # n
    <3>1. h \in 0..((n + 1) - 1) <=> h \in 0..(n - 1)
      BY <1>6, <2>1, <2>3
    <3>. QED
      BY <1>7, <2>3, <3>1 DEF Hdrs
  <2>. QED
    BY <2>2, <2>3
<1>15. i \in LiveIn(vic) <=> V.ent[i].t = "hdr"
  <2>1. i < nextFree[vic] /\ i \in Used(V) /\ Counted(vic) = Used(V) /\ nextFree[vic] \in Nat
    BY <1>1, <1>2, <1>5, <1>6, QuietNow, CopyFacts DEF Copied
  <2>2. i \in 0..(nextFree[vic] - 1)
    BY <1>6, <2>1
  <2>. QED
    BY <2>1, <2>2 DEF LiveIn, Hdrs
<1>16. n \notin Hdrs(flash[pg], n)
  BY <1>6 DEF Hdrs
<1>17. PICK a \in Pages, b \in Pages, m \in Idx : a = vic /\ b = pg /\ m = n
  BY <1>6
<1>18. \A p \in Pages, h \in Idx : ~(p = b /\ h = m) => flash'[p].ent[h] = flash[p].ent[h]
  <2> TAKE p \in Pages, h \in Idx
  <2>1. p # pg => flash'[p].ent[h] = flash[p].ent[h]
    BY <1>4, KeepsLive
  <2>. QED
    BY <1>7, <1>17, <2>1
<1>19. ~Live(b, m)
  BY <1>9, <1>16, <1>17
<1>20. Maps(X)'
  <2>1. CASE V.ent[i].t = "hdr"
    <3>1. Live(a, i)
      BY <1>5, <1>11, <1>15, <1>17, <2>1 DEF Copied
    <3>2. flash'[b].ent[m] = flash[a].ent[i]
      BY <1>8, <1>17
    <3>3. \A p \in Pages, h \in Idx :
            Live(p, h)' <=> (Live(p, h) /\ ~(p = a /\ h = i)) \/ (p = b /\ h = m)
      <4> TAKE p \in Pages, h \in Idx
      <4>1. CASE p = vic
        BY <1>6, <1>12, <1>17, <4>1
      <4>2. CASE p = pg
        BY <1>6, <1>9, <1>13, <1>14, <1>17, <2>1, <4>2
      <4>3. CASE p # pg /\ p # vic
        BY <1>10, <1>17, <4>3
      <4>. QED
        BY <4>1, <4>2, <4>3
    <3>. QED
      BY <1>3, <1>18, <1>19, <3>1, <3>2, <3>3, MapsMove
  <2>2. CASE V.ent[i].t # "hdr"
    <3>1. \A p \in Pages, h \in Idx : Live(p, h)' <=> Live(p, h)
      <4> TAKE p \in Pages, h \in Idx
      <4>1. CASE p = vic
        BY <1>11, <1>12, <1>15, <2>2, <4>1
      <4>2. CASE p = pg
        BY <1>9, <1>13, <1>14, <2>2, <4>2
      <4>3. CASE p # pg /\ p # vic
        BY <1>10, <4>3
      <4>. QED
        BY <4>1, <4>2, <4>3
    <3>. QED
      BY <1>3, <1>18, <1>19, <3>1, MapsSame
  <2>. QED
    BY <2>1, <2>2
<1>21. \A p \in Pages : flash'[p].st = flash[p].st
  <2>1. PICK e : flash' = [flash EXCEPT ![pg].ent[n] = e]
    BY DEF CopyEntry
  <2>2. flash \in [Pages -> PageRec]
    BY <1>2 DEF TypeInv, TypeOK
  <2>. QED
    BY <1>6, <2>1, <2>2 DEF PageRec
<1>22. Lasting'
  BY <1>1, <1>2, <1>21, LastingKept
<1>23. (pc' \in {"data", "mark"}) = FALSE
  BY <1>1
<1>. QED
  BY <1>1, <1>2, <1>3, <1>4, <1>20, <1>22, <1>23, PutGoesOn DEF PutSteps

LEMMA CopyMarkMap ==
  ASSUME MapInv, TypeInv', CopyMark
  PROVE  MapInv' /\ Result
<1>1. /\ pc = "copied" /\ pc' = "copy" /\ UNCHANGED <<used, nextFree, op, pg, vic, rng, kv, res>>
      /\ SetState(pg, nextFree[pg] - 1, "USED")
  BY DEF CopyMark, ram, other
<1>2. /\ LogInv /\ TypeInv /\ Lasting /\ op.kind = "put" /\ op.key \in Keys /\ op.val \in Values
      /\ kv[op.key] # op.val /\ kv \in KvMaps
  BY <1>1, PutFacts DEF PutSteps
<1>3. PICK X \in KvMaps : X = PutMap(FALSE) /\ Maps(X)
  BY <1>1, Unwritten DEF PutSteps
<1>4. LogInv' /\ \A p \in Pages : Keeps(p)
  BY <1>2, CopyMarkLog
<1>5. \A p \in Pages, h \in Idx : Live(p, h)' <=> Live(p, h)
  <2> TAKE p \in Pages, h \in Idx
  <2>1. LiveIn(p)' = LiveIn(p)
    BY <1>4, KeepsLive
  <2>. QED
    BY <1>1, <2>1 DEF Live
<1>6. Maps(X)'
  BY <1>3, <1>4, <1>5, MapsSame, KeepsLive
<1>7. \A p \in Pages : flash'[p].st = flash[p].st
  <2>1. flash \in [Pages -> PageRec] /\ pg \in Pages /\ "USED" \in EntryStates
    BY <1>2 DEF TypeInv, TypeOK, EntryStates
  <2>2. nextFree[pg] - 1 \in Idx
    BY <1>1, <1>2, PageTypes DEF TypeInv, Prepared, Idx
  <2>. QED
    BY <1>1, <2>1, <2>2, Marked
<1>8. Lasting'
  BY <1>1, <1>2, <1>7, LastingKept
<1>9. (pc' \in {"data", "mark"}) = FALSE
  BY <1>1
<1>. QED
  BY <1>1, <1>2, <1>3, <1>4, <1>6, <1>8, <1>9, PutGoesOn DEF PutSteps

LEMMA EraseMap ==
  ASSUME MapInv, TypeInv', EraseVictim
  PROVE  MapInv' /\ Result
<1>1. pc = "copy" /\ pc' = "recheck" /\ ToCopy = {} /\ UNCHANGED <<used, op, pg, kv, res>>
  BY DEF EraseVictim, other
<1>2. /\ LogInv /\ TypeInv /\ Lasting /\ op.kind = "put" /\ op.key \in Keys /\ op.val \in Values
      /\ kv[op.key] # op.val /\ kv \in KvMaps
  BY <1>1, PutFacts DEF PutSteps
<1>3. PICK X \in KvMaps : X = PutMap(FALSE) /\ Maps(X)
  BY <1>1, Unwritten DEF PutSteps
<1>4. /\ LogInv' /\ nextFree'[vic] = 0
      /\ \A p \in Pages : p # vic => Keeps(p) /\ flash'[p] = flash[p]
  BY <1>2, EraseLog
<1>5. ~Holds(used, vic) /\ vic # pg
  BY <1>1, <1>2 DEF Lasting, LogInv, Stage
<1>6. \A h \in Idx : ~Live(vic, h)
  <2> SUFFICES ASSUME NEW h \in Idx, Live(vic, h) PROVE FALSE
    OBVIOUS
  <2>1. vic \in Pages /\ Counted(vic) = Used(flash[vic]) /\ rng.at \in Nat
    BY <1>1, <1>2, <1>5, CopyFacts, QuietNow
  <2>2. h \in Used(flash[vic]) /\ h >= rng.at
    BY <1>5, <2>1 DEF Live, LiveIn
  <2>3. h \in rng.at..(N - 1)
    BY <2>1, <2>2, SizeAssumption DEF Idx
  <2>. QED
    BY <1>1, <2>2, <2>3 DEF ToCopy, Used
<1>7. \A p \in Pages, h \in Idx : Live(p, h)' <=> Live(p, h)
  <2> TAKE p \in Pages, h \in Idx
  <2>1. CASE p = vic
    <3>1. LiveIn(p)' = {}
      BY <1>4, <2>1, NoHeaders
    <3>. QED
      BY <1>6, <2>1, <3>1 DEF Live
  <2>2. CASE p # vic
    <3>1. LiveIn(p)' = LiveIn(p)
      BY <1>4, <2>2, KeepsLive
    <3>. QED
      BY <1>1, <2>2, <3>1 DEF Live
  <2>. QED
    BY <2>1, <2>2
<1>8. Maps(X)'
  <2>1. \A p \in Pages, h \in Idx : Live(p, h) => p # vic
    BY <1>6
  <2>. QED
    BY <1>3, <1>4, <1>7, <2>1, MapsSame
<1>9. Lasting'
  BY <1>1, <1>2, <1>4, <1>5 DEF Lasting
<1>10. (pc' \in {"data", "mark"}) = FALSE
  BY <1>1
<1>. QED
  BY <1>1, <1>2, <1>3, <1>4, <1>8, <1>9, <1>10, PutGoesOn DEF PutSteps

\* The new element belongs to the map once its header is written.
LEMMA EntryMap ==
  ASSUME MapInv, TypeInv', WriteEntry
  PROVE  MapInv' /\ Result
<1> DEFINE n == nextFree[pg]
<1>1. /\ pc = "write" /\ pc' \in {"data", "mark"} /\ UNCHANGED <<used, op, pg, vic, kv, res>>
  BY DEF WriteEntry, other
<1>2. /\ LogInv /\ TypeInv /\ Lasting /\ op.kind = "put" /\ op.key \in Keys /\ op.val \in Values
      /\ kv[op.key] # op.val /\ kv \in KvMaps
  BY <1>1, PutFacts DEF PutSteps
<1>3. PICK X \in KvMaps : X = PutMap(FALSE) /\ Maps(X)
  BY <1>1, Unwritten DEF PutSteps
<1>4. LogInv' /\ Appended /\ \A p \in Pages : p # pg => Keeps(p)
  BY <1>2, EntryLog
<1>5. /\ pg \in Pages /\ Holds(used, pg) /\ n \in Idx /\ n \in Nat /\ Counted(pg) \subseteq 0..(n - 1)
  <2>1. Holds(used, pg) /\ PageInv(pg) /\ pg \in Pages
    BY <1>1, <1>2, PageTypes DEF LogInv, Stage, InPage
  <2>. QED
    BY <1>2, <1>4, <2>1, PageTypes DEF Appended, PageInv, Layout
<1>6. /\ nextFree'[pg] = n + 1 /\ flash'[pg].ent[n] = Hdr(op.key, op.val)
      /\ \A j \in Idx : j # n => flash'[pg].ent[j] = flash[pg].ent[j]
      /\ Counted(pg)' = Counted(pg) \cup {n}
  BY <1>4 DEF Appended
<1>7. PICK a \in Pages, b \in Idx, k \in Keys, v \in Values :
         a = pg /\ b = n /\ k = op.key /\ v = op.val
  BY <1>2, <1>5
<1>8. ~Live(a, b)
  <2>1. n \notin 0..(n - 1)
    BY <1>5
  <2>. QED
    BY <1>5, <1>7, <2>1 DEF Live, LiveIn
<1>9. \A p \in Pages, h \in Idx : ~(p = a /\ h = b) => flash'[p].ent[h] = flash[p].ent[h]
  <2> TAKE p \in Pages, h \in Idx
  <2>1. p # pg => flash'[p].ent[h] = flash[p].ent[h]
    BY <1>4, KeepsLive
  <2>. QED
    BY <1>6, <1>7, <2>1
<1>10. ASSUME NEW h \in Idx
       PROVE  h \in Hdrs(flash'[pg], n + 1) /\ h \in Counted(pg) \cup {n} <=>
                 h \in LiveIn(pg) \/ h = n
  <2>. HIDE DEF n
  <2>1. CASE h = n
    <3>1. h \in 0..((n + 1) - 1) /\ flash'[pg].ent[h].t = "hdr"
      BY <1>5, <1>6, <2>1 DEF Hdr
    <3>. QED
      BY <2>1, <3>1 DEF Hdrs
  <2>2. CASE h # n
    <3>1. h \in 0..((n + 1) - 1) <=> h \in 0..(n - 1)
      BY <1>5, <2>2, Idle
    <3>. QED
      BY <1>6, <2>2, <3>1 DEF LiveIn, Hdrs, n
  <2>. QED
    BY <2>1, <2>2
<1>11. \A p \in Pages, h \in Idx : Live(p, h)' <=> Live(p, h) \/ (p = a /\ h = b)
  <2> TAKE p \in Pages, h \in Idx
  <2>1. LiveIn(p)' = Hdrs(flash'[p], nextFree'[p]) \cap Counted(p)'
    BY DEF LiveIn
  <2>2. Live(p, h)' <=> h \in LiveIn(p)' /\ Holds(used, p)
    BY <1>1 DEF Live
  <2>3. Live(p, h) <=> h \in LiveIn(p) /\ Holds(used, p)
    BY <1>1 DEF Live
  <2>4. CASE p = pg
    <3>1. Counted(p)' = Counted(pg) \cup {n}
      BY <1>1, <1>6, <2>4
    <3>2. h \in LiveIn(p)' <=> h \in Hdrs(flash'[pg], n + 1) /\ h \in Counted(pg) \cup {n}
      BY <1>6, <2>1, <2>4, <3>1
    <3>. QED
      BY <1>5, <1>7, <1>10, <2>2, <2>3, <2>4, <3>2
  <2>5. CASE p # pg
    <3>1. LiveIn(p)' = LiveIn(p)
      BY <1>4, <2>5, KeepsLive
    <3>. QED
      BY <1>7, <2>2, <2>3, <2>5, <3>1
  <2>. QED
    BY <2>4, <2>5
<1>12. PICK Y : Y = [X EXCEPT ![k] = v]
  OBVIOUS
<1>13. Maps(Y)' /\ Y \in KvMaps
  <2>1. X[k] = NoVal
    BY <1>2, <1>3, <1>7 DEF PutMap, KvMaps
  <2>2. flash'[a].ent[b] = Hdr(k, v)
    BY <1>6, <1>7
  <2>3. Maps([X EXCEPT ![k] = v])'
    BY <1>2, <1>3, <1>8, <1>9, <1>11, <2>1, <2>2, MapsAdd
  <2>. QED
    BY <1>12, <2>3 DEF KvMaps
<1>14. Y = PutMap(pc' \in {"data", "mark"})
  BY <1>1, <1>2, <1>3, <1>7, <1>12 DEF PutMap, KvMaps
<1>15. Lasting'
  <2>1. PICK e : flash' = [flash EXCEPT ![pg].ent[n] = e]
    BY DEF WriteEntry
  <2>2. flash \in [Pages -> PageRec]
    BY <1>2 DEF TypeInv, TypeOK
  <2>3. \A p \in Pages : flash'[p].st = flash[p].st
    BY <1>5, <2>1, <2>2 DEF PageRec
  <2>. QED
    BY <1>1, <1>2, <2>3, LastingKept
<1>. QED
  BY <1>1, <1>2, <1>4, <1>13, <1>14, <1>15, PutGoesOn DEF PutSteps

LEMMA DataMap ==
  ASSUME MapInv, TypeInv', WriteData
  PROVE  MapInv' /\ Result
<1>1. /\ pc = "data" /\ pc' = "mark" /\ UNCHANGED <<used, op, pg, vic, kv, res>>
  BY DEF WriteData, other
<1>2. /\ LogInv /\ TypeInv /\ Lasting /\ op.kind = "put" /\ op.key \in Keys /\ op.val \in Values
      /\ kv[op.key] # op.val /\ kv \in KvMaps /\ pg \in Pages
  BY <1>1, PutFacts, PageTypes DEF PutSteps
<1>3. PICK X \in KvMaps : X = PutMap(TRUE) /\ Maps(X)
  BY <1>1, Written
<1>4. /\ LogInv' /\ LiveIn(pg)' = LiveIn(pg)
      /\ \A h \in LiveIn(pg) : flash'[pg].ent[h] = flash[pg].ent[h]
      /\ \A p \in Pages : p # pg => Keeps(p)
  BY <1>2, DataLog
<1>5. \A p \in Pages : LiveIn(p)' = LiveIn(p)
  <2> TAKE p \in Pages
  <2>1. CASE p = pg
    BY <1>1, <1>4, <2>1
  <2>2. CASE p # pg
    BY <1>4, <2>2, KeepsLive
  <2>. QED
    BY <2>1, <2>2
<1>6. \A p \in Pages, h \in Idx : Live(p, h)' <=> Live(p, h)
  BY <1>1, <1>5 DEF Live
<1>7. \A p \in Pages, h \in Idx : Live(p, h) => flash'[p].ent[h] = flash[p].ent[h]
  <2> TAKE p \in Pages, h \in Idx
  <2>1. p # pg => flash'[p].ent[h] = flash[p].ent[h]
    BY <1>4, KeepsLive
  <2>. QED
    BY <1>4, <2>1 DEF Live
<1>8. Maps(X)'
  BY <1>3, <1>6, <1>7, MapsSame
<1>9. Lasting'
  <2>1. PICK E : flash' = [flash EXCEPT ![pg].ent = E]
    BY DEF WriteData
  <2>2. flash \in [Pages -> PageRec]
    BY <1>2 DEF TypeInv, TypeOK
  <2>3. \A p \in Pages : flash'[p].st = flash[p].st
    BY <1>2, <2>1, <2>2 DEF PageRec
  <2>. QED
    BY <1>1, <1>2, <2>3, LastingKept
<1>10. (pc' \in {"data", "mark"}) = TRUE
  BY <1>1
<1>. QED
  BY <1>1, <1>2, <1>3, <1>4, <1>8, <1>9, <1>10, PutGoesOn DEF PutSteps

LEMMA MarkMap ==
  ASSUME MapInv, TypeInv', MarkUsed \/ Stored
  PROVE  MapInv' /\ Result
<1>1. /\ pc = "mark" /\ pc' \in {"mark", "idle"} /\ UNCHANGED <<used, free, nextFree, cntUsed>>
      /\ SetState(pg, rng.at, "USED")
  BY DEF MarkUsed, Stored, Return, ram
<1>2. /\ LogInv /\ TypeInv /\ Lasting /\ op.kind = "put" /\ op.key \in Keys /\ op.val \in Values
      /\ kv[op.key] # op.val /\ kv \in KvMaps /\ pg \in Pages
  BY <1>1, PutFacts, PageTypes DEF PutSteps
<1>3. PICK X \in KvMaps : X = PutMap(TRUE) /\ Maps(X)
  BY <1>1, Written
<1>4. LogInv' /\ \A p \in Pages : Keeps(p)
  BY <1>2, MarkLog
<1>5. Maps(X)'
  BY <1>1, <1>3, <1>4, MapsKept
<1>6. Lasting'
  <2>1. flash \in [Pages -> PageRec] /\ "USED" \in EntryStates
    BY <1>2 DEF TypeInv, TypeOK, EntryStates
  <2>2. rng.at \in Idx
    <3>1. rng.at <= rng.hi /\ rng.hi \in Idx /\ rng.at \in Nat
      BY <1>1, <1>2, PageTypes DEF TypeInv, Prepared, RngRec
    <3>. QED
      BY <3>1, SizeAssumption DEF Idx
  <2>3. \A p \in Pages : flash'[p].st = flash[p].st
    BY <1>1, <1>2, <2>1, <2>2, Marked
  <2>. QED
    BY <1>1, <1>2, <2>3 DEF Lasting
<1>7. CASE MarkUsed
  <2>1. pc' = "mark" /\ UNCHANGED <<op, kv, res>>
    BY <1>7 DEF MarkUsed, other
  <2>2. (pc' \in {"data", "mark"}) = TRUE
    BY <2>1
  <2>. QED
    BY <1>2, <1>3, <1>4, <1>5, <1>6, <2>1, <2>2, PutGoesOn DEF PutSteps
<1>8. CASE Stored
  <2>1. Return("OK")
    BY <1>8 DEF Stored
  <2>2. MapInv' /\ kv' = X /\ res' = "OK"
    BY <1>4, <1>5, <1>6, <2>1, ReturnMap
  <2>. QED
    BY <1>2, <1>3, <2>2 DEF Result, PutMap
<1>. QED
  BY <1>7, <1>8

\* The USED headers of pages in use are live.
LEMMA UsedLive ==
  ASSUME LogInv, pc # "clean", NEW p \in Pages, Holds(used, p), NEW h \in Used(flash[p]),
         flash[p].ent[h].t = "hdr"
  PROVE  Live(p, h)
<1>1. PageInv(p)
  BY DEF LogInv
<1>2. h \in Counted(p) /\ Counted(p) \subseteq 0..(nextFree[p] - 1)
  BY <1>1 DEF Counted, PageInv, Layout
<1>. QED
  BY <1>2 DEF Live, LiveIn, Hdrs

LEMMA CleanStartMap ==
  ASSUME MapInv, TypeInv', CleanStart
  PROVE  MapInv' /\ Result
<1>1. /\ pc = "idle" /\ pc' = "clean" /\ UNCHANGED <<flash, used, kv, res>>
      /\ op' = [NoOp EXCEPT !.kind = "clean"]
  BY DEF CleanStart, ram, other
<1>2. LogInv /\ Mapped /\ LogInv'
  BY <1>1, CleanLog DEF MapInv
<1>3. op'.kind = "clean"
  BY <1>1 DEF NoOp
<1>4. CallInv'
  BY <1>1, <1>3 DEF CallInv
<1>5. OneUsed'
  <2> SUFFICES ASSUME NEW p \in Pages, NEW q \in Pages, NEW h \in Idx, NEW g \in Idx,
                      Holds(used, p), h \in Used(flash[p]), flash[p].ent[h].t = "hdr",
                      Holds(used, q), g \in Used(flash[q]), flash[q].ent[g].t = "hdr",
                      KeyAt(p, h) = KeyAt(q, g)
               PROVE  p = q /\ h = g
    BY <1>1 DEF OneUsed, KeyAt
  <2>1. Live(p, h) /\ Live(q, g)
    BY <1>1, <1>2, UsedLive
  <2>. QED
    BY <1>2, <2>1 DEF Mapped, Maps, OneEach
<1>. QED
  BY <1>1, <1>2, <1>4, <1>5 DEF MapInv, Result

LEMMA CleanPageMap ==
  ASSUME MapInv, TypeInv', CleanPage
  PROVE  MapInv' /\ Result
<1>1. /\ pc = "clean" /\ pc' \in {"clean", "down"} /\ UNCHANGED <<op, kv, res>>
      /\ flash' = [flash EXCEPT ![pg] = Blank]
      /\ pc' = "down" => used' = <<>>
      /\ pc' = "clean" => used' = used
  BY DEF CleanPage, NoRam, ram, other
<1>2. LogInv /\ TypeInv /\ OneUsed /\ LogInv' /\ CallInv
  BY <1>1, CleanLog DEF MapInv, LogInv
<1>3. CallInv'
  BY <1>1, <1>2 DEF CallInv
<1>4. CASE pc' = "clean"
  <2>1. \A p \in Pages : flash'[p] = flash[p] \/ flash'[p] = Blank
    BY <1>1, <1>2 DEF TypeInv, TypeOK
  <2>2. ASSUME NEW p \in Pages, NEW h \in Used(flash'[p])
        PROVE  flash'[p] = flash[p]
    <3>1. \A i \in Idx : Blank.es[i] # "USED"
      BY DEF Blank
    <3>. QED
      BY <2>1, <2>2, <3>1 DEF Used
  <2>3. OneUsed'
    <3> SUFFICES ASSUME NEW p \in Pages, NEW q \in Pages, NEW h \in Idx, NEW g \in Idx,
                   Holds(used', p), h \in Used(flash'[p]), flash'[p].ent[h].t = "hdr",
                   Holds(used', q), g \in Used(flash'[q]), flash'[q].ent[g].t = "hdr",
                   flash'[p].ent[h].k = flash'[q].ent[g].k
                 PROVE  p = q /\ h = g
      BY DEF OneUsed, KeyAt
    <3>1. flash'[p] = flash[p] /\ flash'[q] = flash[q] /\ used' = used
      BY <1>1, <1>4, <2>2
    <3>. QED
      BY <1>2, <3>1 DEF OneUsed, KeyAt
  <2>. QED
    BY <1>1, <1>2, <1>3, <1>4, <2>3 DEF MapInv, Result
<1>5. CASE pc' = "down"
  <2>1. \A p : ~Holds(used', p)
    BY <1>1, <1>5 DEF Holds
  <2>2. \A p \in Pages, h \in Idx : ~Live(p, h)'
    BY <1>5, <2>1 DEF Live
  <2>3. PICK X \in KvMaps : X = [k \in Keys |-> NoVal] /\ Maps(X)'
    BY <2>2, MapsEmpty
  <2>4. Lasting'
    BY <1>5, <2>1 DEF Lasting
  <2>5. \A k \in Keys : Expected(k)' = X[k]
    BY <1>5, <2>3 DEF Expected
  <2>. QED
    BY <1>1, <1>2, <1>3, <1>5, <2>3, <2>4, <2>5, GoesOn
<1>. QED
  BY <1>1, <1>4, <1>5

LEMMA LoadMap ==
  ASSUME MapInv, TypeInv', PagesLoad
  PROVE  MapInv' /\ Result
<1>1. LogInv /\ LogInv' /\ used' = <<>> /\ pc' = "header"
  BY LoadLog DEF MapInv
<1>2. op'.kind \in {"clean", "load"} /\ UNCHANGED <<kv, res>>
  BY <1>1 DEF PagesLoad, NoOp, other
<1>3. \A p : ~Holds(used', p)
  BY <1>1 DEF Holds
<1>4. \A p \in Pages, h \in Idx : ~Live(p, h)'
  BY <1>1, <1>3 DEF Live
<1>5. PICK X \in KvMaps : X = [k \in Keys |-> NoVal] /\ Maps(X)'
  BY <1>4, MapsEmpty
<1>6. Lasting'
  BY <1>1, <1>3 DEF Lasting
<1>7. CallInv'
  BY <1>1, <1>2 DEF CallInv
<1>8. \A k \in Keys : Expected(k)' = X[k]
  BY <1>2, <1>5 DEF Expected
<1>. QED
  BY <1>1, <1>2, <1>5, <1>6, <1>7, <1>8, GoesOn

LEMMA SameMap ==
  ASSUME MapInv, UNCHANGED vars
  PROVE  MapInv' /\ Result
<1>1. UNCHANGED <<flash, used, free, nextFree, cntUsed, pc, op, pg, vic, rng, res, kv>>
  BY DEF vars
<1>2. LogInv'
  BY SameLog DEF MapInv
<1>3. CallInv'
  BY <1>1 DEF MapInv, CallInv, KeyAt
<1>4. pc = "clean" => OneUsed'
  BY <1>1 DEF MapInv, OneUsed, KeyAt
<1>5. ASSUME pc # "clean" PROVE Lasting' /\ Mapped'
  <2>1. Lasting'
    BY <1>1, <1>5 DEF MapInv, Lasting
  <2>2. PICK X \in KvMaps : X = Expect /\ Maps(X)
    BY <1>5 DEF MapInv, Mapped
  <2>3. Pending' = Pending
    BY <1>1 DEF Pending
  <2>4. \A p \in Pages : LiveIn(p)' = LiveIn(p)
    BY <1>1, <2>3 DEF LiveIn, Counted
  <2>5. \A p \in Pages, h \in Idx : Live(p, h)' <=> Live(p, h)
    BY <1>1, <2>4 DEF Live
  <2>6. Maps(X)'
    BY <1>1, <2>2, <2>5, MapsSame
  <2>7. Expect' = Expect
    BY <1>1 DEF Expect, Expected
  <2>. QED
    BY <2>1, <2>2, <2>6, <2>7 DEF Mapped
<1>. QED
  BY <1>1, <1>2, <1>3, <1>4, <1>5 DEF MapInv, Result

LEMMA InitMap == Init => MapInv
<1> SUFFICES ASSUME Init PROVE MapInv
  OBVIOUS
<1>1. LogInv /\ pc = "down" /\ used = <<>> /\ op = NoOp
  BY InitLog DEF Init
<1>2. \A p : ~Holds(used, p)
  BY <1>1 DEF Holds
<1>3. \A p \in Pages, h \in Idx : ~Live(p, h)
  BY <1>1, <1>2 DEF Live
<1>4. CallInv
  BY <1>1 DEF CallInv, NoOp
<1>5. Lasting
  BY <1>1, <1>2 DEF Lasting
<1>6. PICK X : X = [k \in Keys |-> NoVal]
  OBVIOUS
<1>7. X \in KvMaps /\ X = Expect
  BY <1>1, <1>6 DEF KvMaps, Expect, Expected
<1>8. Maps(X)
  BY <1>3, <1>6 DEF Maps, OneEach
<1>. QED
  BY <1>1, <1>4, <1>5, <1>7, <1>8 DEF MapInv, Mapped

LEMMA NextMap == MapInv /\ MaxCrashes = 0 /\ [Next]_vars => MapInv' /\ Result
<1> SUFFICES ASSUME MapInv, MaxCrashes = 0, [Next]_vars PROVE MapInv' /\ Result
  OBVIOUS
<1>1. TypeInv'
  BY NextType DEF MapInv, LogInv
<1>2. CASE UNCHANGED vars
  BY <1>2, SameMap
<1>3. ~EraseFree
  BY DEF EraseFree, MapInv, LogInv, Stage
<1>4. ~(LoadInterrupted \/ Crash \/ CrashTorn)
  <2>1. crashes \in Nat
    BY DEF MapInv, LogInv, TypeInv, TypeOK
  <2>2. ~(crashes < MaxCrashes)
    BY <2>1
  <2>. QED
    BY <2>2 DEF LoadInterrupted, Crash, CrashTorn, PowerLoss
<1>5. CASE Step
  BY <1>1, <1>3, <1>5, MarkUpdatedMap, DeletedMap, RoomMap, NoSpaceMap, HeaderMap,
     CandidateMap, CopyMap, CopyMarkMap, EraseMap, EntryMap, DataMap, MarkMap,
     CleanPageMap, LoadMap DEF Step
<1>6. CASE Call
  BY <1>1, <1>6, CallMap, CleanStartMap DEF Call
<1>. QED
  BY <1>2, <1>4, <1>5, <1>6 DEF Next

LEMMA MapIsInvariant ==
  ASSUME MaxCrashes = 0
  PROVE  Spec => []MapInv
<1>1. MapInv /\ [Next]_vars => MapInv'
  BY NextMap
<1>. QED
  BY <1>1, InitMap, PTL DEF Spec

-----------------------------------------------------------------------------
(* What the calls promise                                                   *)

\* With power on, put, get, del and clean of nvds_flash.h work on a map, for every
\* number of pages, page size and set of keys and values: however a put moves to
\* another page, reclaims one or runs out of space, a call that returns has changed
\* its own key as KvStore says, and between returns nothing that is read changes.
THEOREM StoreIsMap ==
  ASSUME MaxCrashes = 0
  PROVE  Spec => ImplementsKvStore
<1>1. Init => KvStoreView!Init
  BY DEF Init, KvStoreView!Init
<1>2. ASSUME MapInv, [Next]_vars PROVE [KvStoreView!Next]_<<kv, res>>
  <2>1. Result /\ kv \in KvMaps
    BY <1>2, NextMap DEF MapInv, LogInv, TypeInv, TypeOK, KvMaps
  <2>2. ASSUME NEW k \in Keys, NEW v \in Values, kv[k] = v, kv' = kv, res' = "OK"
        PROVE  KvStoreView!Put(k, v)
    BY <2>1, <2>2 DEF KvStoreView!Put, KvMaps
  <2>3. CASE /\ op.kind = "put" /\ op.key \in Keys /\ op.val \in Values
             /\ \/ res' = "OK" /\ kv' = [kv EXCEPT ![op.key] = op.val]
                \/ /\ res' = "NO_SPACE" /\ kv[op.key] # op.val
                   /\ kv' = [kv EXCEPT ![op.key] = NoVal]
    <3>1. KvStoreView!Put(op.key, op.val) \/ KvStoreView!PutNoSpace(op.key, op.val)
      BY <2>3 DEF KvStoreView!Put, KvStoreView!PutNoSpace
    <3>. QED
      BY <2>3, <3>1 DEF KvStoreView!Next
  <2>4. CASE /\ op.kind = "del" /\ op.key \in Keys /\ kv[op.key] # NoVal
             /\ res' = "OK" /\ kv' = [kv EXCEPT ![op.key] = NoVal]
    <3>1. KvStoreView!Del(op.key)
      BY <2>4 DEF KvStoreView!Del
    <3>. QED
      BY <2>4, <3>1 DEF KvStoreView!Next
  <2>5. CASE res' = "OK" /\ kv' = [k \in Keys |-> NoVal]
    <3>1. KvStoreView!Clean
      BY <2>5 DEF KvStoreView!Clean
    <3>. QED
      BY <3>1 DEF KvStoreView!Next
  <2>6. CASE /\ kv' = kv
             /\ \/ res' = "OK" /\ \E k \in Keys, v \in Values : kv[k] = v
                \/ res' = "NOT_FOUND" /\ \E k \in Keys : kv[k] = NoVal
    BY <2>2, <2>6 DEF KvStoreView!Next, KvStoreView!DelMissing
  <2>7. CASE UNCHANGED <<kv, res>>
    BY <2>7
  <2>. QED
    BY <2>1, <2>3, <2>4, <2>5, <2>6, <2>7 DEF Result
<1>3. MapInv /\ [Next]_vars => [KvStoreView!Next]_<<kv, res>>
  BY <1>2
<1>. QED
  BY <1>1, <1>3, MapIsInvariant, PTL DEF Spec, ImplementsKvStore, KvStoreView!Spec

\* element_find reaches at most one live copy of a key at every step of every
\* call, while power stays on: in the middle of a replacement, of a reclaim, with
\* elements in the old page and in the new one, and of nvds_clean.
THEOREM OneCopyWithPower ==
  ASSUME MaxCrashes = 0
  PROVE  Spec => []OneLiveCopy
<1>1. ASSUME MapInv PROVE OneLiveCopy
  <2> SUFFICES ASSUME NEW k \in Keys PROVE Cardinality(LiveCopies(k)) <= 1
    BY DEF OneLiveCopy
  <2>1. ASSUME NEW x \in LiveCopies(k)
        PROVE  /\ x \in Pages \X Idx /\ Holds(used, x[1]) /\ x[2] \in Used(flash[x[1]])
               /\ flash[x[1]].ent[x[2]].t = "hdr" /\ KeyAt(x[1], x[2]) = k
    <3>1. x \in Pages \X Idx /\ x[2] \in Matches(x[1], k) /\ \E n \in Searched : used[n] = x[1]
      BY DEF LiveCopies
    <3>2. Holds(used, x[1])
      BY <3>1 DEF Searched, Holds
    <3>. QED
      BY <3>1, <3>2 DEF Matches, Used, KeyAt
  <2>2. OneUsed
    <3>1. CASE pc = "clean"
      BY <1>1, <3>1 DEF MapInv
    <3>2. CASE pc # "clean"
      <4> SUFFICES ASSUME NEW p \in Pages, NEW q \in Pages, NEW h \in Idx, NEW g \in Idx,
                     Holds(used, p), h \in Used(flash[p]), flash[p].ent[h].t = "hdr",
                     Holds(used, q), g \in Used(flash[q]), flash[q].ent[g].t = "hdr",
                     KeyAt(p, h) = KeyAt(q, g)
                   PROVE  p = q /\ h = g
        BY DEF OneUsed
      <4>1. LogInv /\ Mapped
        BY <1>1, <3>2 DEF MapInv
      <4>2. Live(p, h) /\ Live(q, g)
        BY <3>2, <4>1, UsedLive
      <4>. QED
        BY <4>1, <4>2 DEF Mapped, Maps, OneEach
    <3>. QED
      BY <3>1, <3>2
  <2>3. ASSUME NEW x \in LiveCopies(k), NEW y \in LiveCopies(k)
        PROVE  x = y
    <3>1. x \in Pages \X Idx /\ y \in Pages \X Idx
      BY <2>1
    <3>2. x[1] = y[1] /\ x[2] = y[2]
      BY <2>1, <2>2 DEF OneUsed
    <3>. QED
      BY <3>1, <3>2
  <2>4. CASE LiveCopies(k) = {}
    BY <2>4, FS_EmptySet
  <2>5. CASE LiveCopies(k) # {}
    <3>1. PICK x : x \in LiveCopies(k)
      BY <2>5
    <3>2. LiveCopies(k) = {x}
      BY <2>3, <3>1
    <3>. QED
      BY <3>2, FS_Singleton
  <2>. QED
    BY <2>4, <2>5
<1>2. MapInv => OneLiveCopy
  BY <1>1
<1>. QED
  BY <1>2, MapIsInvariant, PTL

\* A put or a delete changes what is read for its own key only, while power stays
\* on, whether it succeeds or not and whatever it had to reclaim.
THEOREM OthersKept ==
  ASSUME MaxCrashes = 0
  PROVE  Spec => OthersUndisturbed
<1>1. ASSUME MapInv, [Next]_vars, op.kind \in {"put", "del"}, pc \notin {"idle", "down"},
             pc' = "idle", NEW k \in Keys \ {op.key}
      PROVE  kv'[k] = kv[k]
  BY <1>1, NextMap DEF Result, MapInv, LogInv, TypeInv, TypeOK
<1>2. MapInv /\ [Next]_vars =>
        [op.kind \in {"put", "del"} /\ pc \notin {"idle", "down"} /\ pc' = "idle" =>
           \A k \in Keys \ {op.key} : kv'[k] = kv[k]]_vars
  BY <1>1
<1>. QED
  BY <1>2, MapIsInvariant, PTL DEF Spec, OthersUndisturbed

\* nvds_flash.h, on NVDS_OK of nvds_data_put: "New data element correctly written
\* to the nvds flash".  While power stays on a put that returns NVDS_OK has stored
\* its value; it takes an earlier power loss to make it untrue.
THEOREM PutOkWithPower ==
  ASSUME MaxCrashes = 0
  PROVE  Spec => PutOkStored
<1>1. ASSUME MapInv, [Next]_vars, op.kind = "put", pc # "idle", pc # "down",
             pc' = "idle", res' = "OK"
      PROVE  kv'[op.key] = op.val
  BY <1>1, NextMap DEF Result, MapInv, LogInv, TypeInv, TypeOK, vars
<1>2. MapInv /\ [Next]_vars =>
        [op.kind = "put" /\ pc # "idle" /\ pc # "down" /\ pc' = "idle" /\ res' = "OK" =>
           kv'[op.key] = op.val]_vars
  BY <1>1
<1>. QED
  BY <1>2, MapIsInvariant, PTL DEF Spec, PutOkStored

-----------------------------------------------------------------------------
(* Running out of space                                                     *)

\* No used page outside S counts fewer entries than c.
Fewest(c, S) == \A p \in Pages : Holds(used, p) /\ p \notin S => c <= cntUsed[p]

\* A free page is left at every return, and the page that new_page_request chose
\* has the fewest used entries: those are the ones the new page is filled with.
SpaceInv ==
    /\ pc \notin {"down", "candidate", "clean"} => free # <<>>
    /\ pc = "header" /\ op.kind # "put" => Len(free) >= 2
    /\ pc = "header" /\ op.kind = "put" /\ Len(free) = 1 => Fewest(cntUsed[vic], {})
    /\ pc = "candidate" => Fewest(cntUsed[vic], {pg})
    /\ pc \in {"copy", "copied"} =>
         /\ Fewest(cntUsed[vic], {pg})
         /\ nextFree[pg] + Cardinality(ToCopy) = cntUsed[vic]
    /\ pc = "recheck" => Fewest(nextFree[pg], {})

\* Steps that take no free page.
LEMMA SpaceKept ==
  ASSUME SpaceInv, free' = free, pc \notin {"down", "candidate", "clean"},
         pc' \in {"idle", "delete", "room", "request", "write", "data", "mark", "clean"}
  PROVE  SpaceInv'
  BY DEF SpaceInv

LEMMA CountType ==
  ASSUME LogInv, pc # "clean", NEW p \in Pages
  PROVE  cntUsed[p] \in Nat
<1>1. PageInv(p) /\ nextFree[p] \in Nat
  BY PageTypes DEF LogInv
<1>2. IsFiniteSet(Counted(p))
  BY <1>1, FiniteLayout DEF PageInv
<1>. QED
  BY <1>1, <1>2, FS_CardinalityType DEF PageInv

LEMMA RequestSpace ==
  ASSUME LogInv, SpaceInv, RequestPage
  PROVE  SpaceInv'
<1>1. /\ pc = "request" /\ ~NoPageToGive /\ vic' = ErasePage /\ pc' \in {"header", "erase"}
      /\ UNCHANGED <<used, free, cntUsed, op>>
  BY DEF RequestPage, ram
<1>2. op.kind = "put" /\ used \in Seq(Pages) /\ N \in Nat
  BY <1>1, PageTypes DEF LogInv, TypeInv, Prepared, PutSteps
<1>3. free # <<>>
  BY <1>1 DEF SpaceInv
<1>4. ASSUME Len(free) = 1 PROVE Fewest(cntUsed[vic], {})'
  <2>1. FewestUsed # {} /\ ErasePage = used[Least(FewestUsed)]
    BY <1>1, <1>4 DEF NoPageToGive, ErasePage
  <2>2. FewestUsed \in SUBSET Nat
    BY <1>2 DEF FewestUsed, Reclaimable
  <2>3. Least(FewestUsed) \in FewestUsed
    BY <2>1, <2>2, LeastNat
  <2>4. PICK m \in Reclaimable :
          ErasePage = used[m] /\ \A n \in Reclaimable : cntUsed[used[m]] <= cntUsed[used[n]]
    BY <2>1, <2>3 DEF FewestUsed
  <2>5. m \in DOMAIN used /\ cntUsed[used[m]] < N /\ used[m] \in Pages
    BY <1>2, <2>4 DEF Reclaimable
  <2>6. ASSUME NEW p \in Pages, Holds(used, p) PROVE cntUsed[used[m]] <= cntUsed[p]
    <3>1. PICK n \in DOMAIN used : used[n] = p
      BY <2>6 DEF Holds
    <3>2. cntUsed[p] \in Nat /\ cntUsed[used[m]] \in Nat
      BY <1>1, <2>5, CountType
    <3>3. CASE cntUsed[p] < N
      BY <2>4, <3>1, <3>3 DEF Reclaimable
    <3>4. CASE ~(cntUsed[p] < N)
      BY <1>2, <2>5, <3>2, <3>4
    <3>. QED
      BY <3>3, <3>4
  <2>7. cntUsed'[vic'] = cntUsed[used[m]]
    BY <1>1, <2>4
  <2>. QED
    BY <1>1, <2>6, <2>7 DEF Fewest
<1>. QED
  BY <1>1, <1>2, <1>3, <1>4 DEF SpaceInv

LEMMA HeaderSpace ==
  ASSUME MapInv, MapInv', SpaceInv, WriteHeader
  PROVE  SpaceInv'
<1>1. /\ pc = "header" /\ free' = Tail(free) /\ LogInv /\ LogInv' /\ pg \in Pages
      /\ cntUsed' = [cntUsed EXCEPT ![pg] = 0]
  BY PageTypes DEF WriteHeader, MapInv, LogInv
<1>2. /\ nextFree'[pg] = 0 /\ \A p : Holds(used', p) <=> Holds(used, p) \/ p = pg
  BY <1>1, HeaderLog DEF LogInv
<1>3. free # <<>> /\ free \in Seq(Pages) /\ cntUsed \in [Pages -> Int]
  BY <1>1 DEF SpaceInv, LogInv, TypeInv, TypeOK
<1>4. Len(free) \in Nat /\ Len(free) >= 1 /\ Len(Tail(free)) = Len(free) - 1 /\ Tail(free) \in Seq(Pages)
  BY <1>3
<1>5. Tail(free) = <<>> <=> Len(free) = 1
  <2>1. \A t \in Seq(Pages) : t = <<>> <=> Len(t) = 0
    OBVIOUS
  <2>2. Tail(free) = <<>> <=> Len(Tail(free)) = 0
    BY <1>4, <2>1
  <2>3. Len(free) - 1 = 0 <=> Len(free) = 1
    BY <1>4
  <2>. QED
    BY <1>4, <2>2, <2>3
<1>6. CASE op.kind # "put"
  <2>1. pc' = "idle" /\ Len(free) >= 2
    BY <1>1, <1>6 DEF WriteHeader, Return, SpaceInv
  <2>2. free' # <<>>
    BY <1>1, <1>4, <1>5, <2>1
  <2>. QED
    BY <2>1, <2>2 DEF SpaceInv
<1>7. CASE op.kind = "put"
  <2>1. /\ pc' = IF free' = <<>> THEN "candidate" ELSE "recheck"
        /\ UNCHANGED <<op, pg, vic>>
    BY <1>7 DEF WriteHeader
  <2>2. CASE free' = <<>>
    <3>1. pc' = "candidate" /\ Fewest(cntUsed[vic], {})
      BY <1>1, <1>5, <1>7, <2>1, <2>2 DEF SpaceInv
    <3>2. pg # vic
      BY <1>1, <2>1, <3>1 DEF LogInv, Stage
    <3>3. Fewest(cntUsed[vic], {pg})'
      <4> SUFFICES ASSUME NEW p \in Pages, Holds(used', p), p # pg
                   PROVE  cntUsed'[vic] <= cntUsed'[p]
        BY <2>1 DEF Fewest
      <4>1. cntUsed'[p] = cntUsed[p] /\ cntUsed'[vic] = cntUsed[vic]
        BY <1>1, <1>3, <3>2
      <4>2. Holds(used, p)
        BY <1>2
      <4>. QED
        BY <3>1, <4>1, <4>2 DEF Fewest
    <3>. QED
      BY <3>1, <3>3 DEF SpaceInv
  <2>3. CASE free' # <<>>
    <3>1. pc' = "recheck"
      BY <2>1, <2>3
    <3>2. ASSUME NEW p \in Pages, Holds(used, p) \/ p = pg PROVE 0 <= cntUsed'[p]
      <4>1. CASE p = pg
        BY <1>1, <1>3, <4>1
      <4>2. CASE p # pg
        <5>1. cntUsed'[p] = cntUsed[p] /\ cntUsed[p] \in Nat
          BY <1>1, <1>3, <4>2, CountType
        <5>. QED
          BY <5>1
      <4>. QED
        BY <4>1, <4>2
    <3>3. Fewest(nextFree[pg], {})'
      BY <1>2, <2>1, <3>2 DEF Fewest
    <3>. QED
      BY <2>3, <3>1, <3>3 DEF SpaceInv
  <2>. QED
    BY <2>2, <2>3
<1>. QED
  BY <1>6, <1>7

LEMMA CandidateSpace ==
  ASSUME LogInv, SpaceInv, TypeInv', MarkCandidate
  PROVE  SpaceInv'
<1>1. /\ pc = "candidate" /\ pc' = "copy" /\ UNCHANGED <<nextFree, cntUsed, pg, vic, rng>>
      /\ free' = Append(free, vic) /\ flash' = [flash EXCEPT ![vic].st = "CANDIDATE"]
  BY DEF MarkCandidate
<1>2. /\ \A p : Holds(used', p) <=> Holds(used, p) /\ p # vic
  BY CandidateLog
<1>3. /\ TypeInv /\ vic \in Pages /\ pg # vic /\ nextFree[pg] = 0 /\ rng.at = 0
      /\ free \in Seq(Pages) /\ flash \in [Pages -> PageRec]
  <2>1. TypeInv /\ pg # vic /\ nextFree[pg] = 0 /\ rng = NoRng
    BY <1>1 DEF LogInv, Stage
  <2>2. vic \in Pages
    BY <1>1, <2>1 DEF TypeInv, Prepared
  <2>3. free \in Seq(Pages) /\ flash \in [Pages -> PageRec]
    BY <2>1 DEF TypeInv, TypeOK
  <2>. QED
    BY <2>1, <2>2, <2>3 DEF NoRng
<1>4. free' # <<>>
  BY <1>1, <1>3
<1>5. Fewest(cntUsed[vic], {pg})'
  BY <1>1, <1>2 DEF SpaceInv, Fewest
<1>6. ToCopy' = Used(flash[vic])
  <2>1. flash'[vic].es = flash[vic].es
    BY <1>1, <1>3 DEF PageRec
  <2>. QED
    BY <1>1, <1>3, <2>1 DEF ToCopy, Used, Idx
<1>7. cntUsed[vic] = Cardinality(Used(flash[vic])) /\ cntUsed[vic] \in Nat
  <2>1. PageInv(vic) /\ Counted(vic) = Used(flash[vic])
    BY <1>1, <1>3, QuietNow DEF LogInv
  <2>. QED
    BY <1>1, <1>3, <2>1, CountType DEF PageInv
<1>8. nextFree'[pg'] + Cardinality(ToCopy') = cntUsed'[vic']
  BY <1>1, <1>3, <1>6, <1>7
<1>. QED
  BY <1>1, <1>4, <1>5, <1>8 DEF SpaceInv

LEMMA CopySpace ==
  ASSUME LogInv, SpaceInv, TypeInv', CopyEntry
  PROVE  SpaceInv'
<1>1. /\ pc = "copy" /\ pc' = "copied" /\ UNCHANGED <<used, free, pg, vic>>
      /\ cntUsed' = [cntUsed EXCEPT ![pg] = cntUsed[pg] + 1]
  BY DEF CopyEntry
<1>2. PICK i \in Idx : Copied(i)
  BY CopyLog
<1>3. /\ pg \in Pages /\ vic \in Pages /\ pg # vic /\ nextFree[pg] \in Nat /\ rng.at \in Nat
      /\ cntUsed \in [Pages -> Int] /\ i \in Nat /\ N \in Nat /\ flash \in [Pages -> PageRec]
  BY <1>1, CopyFacts, Idle DEF LogInv, TypeInv, TypeOK
<1>4. /\ i >= rng.at /\ rng'.at = i + 1 /\ i \in Used(flash[vic])
      /\ \A j \in Used(flash[vic]) : j >= rng.at => i <= j
      /\ nextFree'[pg] = nextFree[pg] + 1
  BY <1>2 DEF Copied
<1>5. flash'[vic] = flash[vic]
  <2>1. PICK e : flash' = [flash EXCEPT ![pg].ent[nextFree[pg]] = e]
    BY DEF CopyEntry
  <2>. QED
    BY <1>3, <2>1
<1>6. ToCopy' = ToCopy \ {i}
  <2>1. ToCopy' = {j \in (i + 1)..(N - 1) : flash[vic].es[j] = "USED"}
    BY <1>1, <1>4, <1>5 DEF ToCopy
  <2>2. ASSUME NEW j \in ToCopy, j # i PROVE j \in (i + 1)..(N - 1)
    <3>1. j \in rng.at..(N - 1) /\ flash[vic].es[j] = "USED"
      BY <2>2 DEF ToCopy
    <3>2. j \in Idx /\ j >= rng.at /\ j \in Nat
      BY <1>3, <3>1 DEF Idx
    <3>3. i <= j
      BY <1>4, <3>1, <3>2 DEF Used
    <3>. QED
      BY <1>3, <2>2, <3>1, <3>2, <3>3
  <2>3. \A j \in (i + 1)..(N - 1) : j \in rng.at..(N - 1) /\ j # i
    BY <1>3, <1>4
  <2>. QED
    BY <2>1, <2>2, <2>3 DEF ToCopy
<1>7. i \in ToCopy /\ IsFiniteSet(ToCopy)
  <2>1. i \in rng.at..(N - 1)
    BY <1>3, <1>4 DEF Idx
  <2>2. IsFiniteSet(rng.at..(N - 1))
    BY <1>3, FS_Interval
  <2>. QED
    BY <1>4, <2>1, <2>2, FS_Subset DEF ToCopy, Used
<1>8. Cardinality(ToCopy') = Cardinality(ToCopy) - 1 /\ Cardinality(ToCopy) \in Nat
  BY <1>6, <1>7, FS_RemoveElement, FS_CardinalityType
<1>9. nextFree[pg] + Cardinality(ToCopy) = cntUsed[vic] /\ Fewest(cntUsed[vic], {pg}) /\ free # <<>>
  BY <1>1 DEF SpaceInv
<1>10. \A p \in Pages : p # pg => cntUsed'[p] = cntUsed[p]
  BY <1>1, <1>3
<1>11. nextFree'[pg'] + Cardinality(ToCopy') = cntUsed'[vic']
  <2>1. cntUsed'[vic'] = cntUsed[vic] /\ nextFree'[pg'] = nextFree[pg] + 1
    BY <1>1, <1>3, <1>4, <1>10
  <2>2. (nextFree[pg] + 1) + (Cardinality(ToCopy) - 1) = nextFree[pg] + Cardinality(ToCopy)
    BY <1>3, <1>8
  <2>. QED
    BY <1>8, <1>9, <2>1, <2>2
<1>12. Fewest(cntUsed[vic], {pg})'
  BY <1>1, <1>3, <1>9, <1>10 DEF Fewest
<1>. QED
  BY <1>1, <1>9, <1>11, <1>12 DEF SpaceInv

LEMMA CopyMarkSpace ==
  ASSUME LogInv, SpaceInv, CopyMark
  PROVE  SpaceInv'
<1>1. /\ pc = "copied" /\ pc' = "copy" /\ UNCHANGED <<used, free, nextFree, cntUsed, pg, vic, rng>>
      /\ SetState(pg, nextFree[pg] - 1, "USED")
  BY DEF CopyMark, ram
<1>2. pg \in Pages /\ vic \in Pages /\ pg # vic /\ flash \in [Pages -> PageRec]
  BY <1>1 DEF LogInv, TypeInv, TypeOK, Prepared, Stage
<1>3. flash'[vic] = flash[vic]
  BY <1>1, <1>2 DEF SetState
<1>4. ToCopy' = ToCopy
  BY <1>1, <1>3 DEF ToCopy
<1>. QED
  BY <1>1, <1>4 DEF SpaceInv, Fewest

LEMMA EraseSpace ==
  ASSUME MapInv, SpaceInv, EraseVictim
  PROVE  SpaceInv'
<1>1. /\ pc = "copy" /\ pc' = "recheck" /\ ToCopy = {} /\ UNCHANGED <<used, free, pg>>
      /\ nextFree' = [nextFree EXCEPT ![vic] = 0] /\ cntUsed' = [cntUsed EXCEPT ![vic] = 0]
  BY DEF EraseVictim
<1>2. LogInv /\ ~Holds(used, vic)
  BY <1>1 DEF MapInv, Lasting
<1>3. /\ pg \in Pages /\ vic \in Pages /\ pg # vic /\ nextFree[pg] \in Nat
      /\ Counted(pg) = 0..(nextFree[pg] - 1) /\ PageInv(pg)
      /\ cntUsed \in [Pages -> Int] /\ nextFree \in [Pages -> 0..N]
  BY <1>1, <1>2, CopyFacts DEF LogInv, TypeInv, TypeOK
<1>4. cntUsed[pg] = nextFree[pg]
  <2>1. 0 \in Int /\ nextFree[pg] - 1 \in Int
    BY <1>3
  <2>2. Cardinality(0..(nextFree[pg] - 1)) =
          IF 0 > nextFree[pg] - 1 THEN 0 ELSE nextFree[pg] - 1 - 0 + 1
    BY <2>1, FS_Interval
  <2>. QED
    BY <1>3, <2>2 DEF PageInv
<1>5. nextFree[pg] = cntUsed[vic]
  <2>1. nextFree[pg] + Cardinality({}) = cntUsed[vic]
    BY <1>1 DEF SpaceInv
  <2>. QED
    BY <1>3, <2>1, FS_EmptySet
<1>6. ASSUME NEW p \in Pages, Holds(used, p) PROVE nextFree[pg] <= cntUsed'[p]
  <2>1. cntUsed'[p] = cntUsed[p]
    BY <1>1, <1>2, <1>3, <1>6
  <2>2. CASE p = pg
    BY <1>3, <1>4, <2>1, <2>2
  <2>3. CASE p # pg
    BY <1>1, <1>5, <1>6, <2>1, <2>3 DEF SpaceInv, Fewest
  <2>. QED
    BY <2>2, <2>3
<1>7. nextFree'[pg'] = nextFree[pg]
  BY <1>1, <1>3
<1>8. Fewest(nextFree[pg], {})'
  BY <1>1, <1>6, <1>7 DEF Fewest
<1>. QED
  BY <1>1, <1>8 DEF SpaceInv

LEMMA LoadSpace ==
  ASSUME MapInv, TypeInv', PagesLoad
  PROVE  SpaceInv'
<1>1. used' = <<>> /\ Len(free') = P /\ pc' = "header"
  BY LoadLog DEF MapInv
<1>2. op'.kind # "put"
  BY <1>1 DEF PagesLoad, NoOp
<1>3. Len(free') >= 2 /\ free' # <<>>
  BY <1>1, SizeAssumption
<1>. QED
  BY <1>1, <1>2, <1>3 DEF SpaceInv

LEMMA NextSpace == MapInv /\ SpaceInv /\ MaxCrashes = 0 /\ [Next]_vars => SpaceInv'
<1> SUFFICES ASSUME MapInv, SpaceInv, MaxCrashes = 0, [Next]_vars PROVE SpaceInv'
  OBVIOUS
<1>1. LogInv /\ TypeInv' /\ MapInv'
  BY NextMap, NextType DEF MapInv, LogInv
<1>2. CASE UNCHANGED vars
  BY <1>2 DEF vars, SpaceInv, Fewest, ToCopy
<1>3. ~EraseFree
  BY <1>1 DEF EraseFree, LogInv, Stage
<1>4. ~(LoadInterrupted \/ Crash \/ CrashTorn)
  <2>1. crashes \in Nat
    BY <1>1 DEF LogInv, TypeInv, TypeOK
  <2>2. ~(crashes < MaxCrashes)
    BY <2>1
  <2>. QED
    BY <2>2 DEF LoadInterrupted, Crash, CrashTorn, PowerLoss
<1>5. CASE Call
  <2>1. pc = "idle" /\ free' = free /\ pc' \in {"idle", "delete", "room", "clean"}
    BY <1>5 DEF Call, PutSame, PutStart, DelStart, DelMissing, DeleteStart, CleanStart, Return, ram
  <2>. QED
    BY <2>1, SpaceKept
<1>6. CASE MarkUpdated \/ Deleted
  <2>1. pc = "delete" /\ free' = free /\ pc' \in {"idle", "delete", "room"}
    BY <1>6 DEF MarkUpdated, Deleted, Return, ram
  <2>. QED
    BY <2>1, SpaceKept
<1>7. CASE SanityFail \/ HasRoom \/ MarkFull \/ RequestFails \/ StillNoRoom \/ RoomNow
  <2>1. /\ pc \in {"room", "request", "recheck"} /\ free' = free
        /\ pc' \in {"idle", "write", "request"}
    BY <1>7 DEF SanityFail, HasRoom, MarkFull, RequestFails, StillNoRoom, RoomNow, Return, ram
  <2>. QED
    BY <2>1, SpaceKept
<1>8. CASE WriteEntry \/ WriteData \/ MarkUsed \/ Stored
  <2>1. pc \in {"write", "data", "mark"} /\ free' = free /\ pc' \in {"data", "mark", "idle"}
    BY <1>8 DEF WriteEntry, WriteData, MarkUsed, Stored, Return, ram
  <2>. QED
    BY <2>1, SpaceKept
<1>9. CASE CleanPage
  <2>1. pc' \in {"clean", "down"}
    BY <1>9 DEF CleanPage
  <2>. QED
    BY <2>1 DEF SpaceInv
<1>10. CASE Step
  BY <1>1, <1>3, <1>6, <1>7, <1>8, <1>9, <1>10, RequestSpace, HeaderSpace, CandidateSpace,
     CopySpace, CopyMarkSpace, EraseSpace, LoadSpace DEF Step
<1>. QED
  BY <1>2, <1>4, <1>5, <1>10 DEF Next

\* Where a call that is in progress returns NVDS_E_NO_SPACE.
LEMMA NoSpaceSteps ==
  ASSUME [Next]_vars, pc # "idle", pc' = "idle", res' = "NO_SPACE"
  PROVE  RequestFails \/ StillNoRoom
<1>1. ~UNCHANGED vars
  BY DEF vars
<1>2. ~Call
  BY DEF Call, PutSame, PutStart, DelStart, DelMissing, CleanStart
<1>3. ~(LoadInterrupted \/ Crash \/ CrashTorn)
  BY DEF LoadInterrupted, Crash, CrashTorn, PowerLoss
<1>4. ~(MarkUpdated \/ Deleted \/ SanityFail \/ HasRoom \/ MarkFull)
  BY DEF MarkUpdated, Deleted, SanityFail, HasRoom, MarkFull, Return
<1>5. ~(RequestPage \/ EraseFree \/ MarkCandidate \/ CopyEntry \/ CopyMark \/ EraseVictim)
  BY DEF RequestPage, EraseFree, MarkCandidate, CopyEntry, CopyMark, EraseVictim
<1>6. ~WriteHeader
  <2>1. CASE op.kind = "put"
    BY <2>1 DEF WriteHeader
  <2>2. CASE op.kind # "put"
    BY <2>2 DEF WriteHeader, Return
  <2>. QED
    BY <2>1, <2>2
<1>7. ~(RoomNow \/ WriteEntry \/ WriteData \/ MarkUsed \/ Stored \/ CleanPage \/ PagesLoad)
  BY DEF RoomNow, WriteEntry, WriteData, MarkUsed, Stored, CleanPage, PagesLoad, Return
<1>. QED
  BY <1>1, <1>2, <1>3, <1>4, <1>5, <1>6, <1>7 DEF Next, Step

\* nvds_flash.h, on NVDS_E_NO_SPACE: "New element value can not fit in the
\* available space in the NVDS".  While power stays on, a put is refused only when
\* no page in use would hold the new element beside its live entries: choosing the
\* page with the fewest used entries and compacting that one page is enough.
THEOREM RefusedOnlyWhenFull ==
  ASSUME MaxCrashes = 0
  PROVE  Spec => NoSpaceOnlyWhenFull
<1>1. Init => SpaceInv
  BY DEF Init, SpaceInv
<1>2. MapInv /\ SpaceInv /\ [Next]_vars => SpaceInv'
  BY NextSpace
<1>3. ASSUME MapInv, SpaceInv, [Next]_vars, pc # "idle", pc' = "idle", res' = "NO_SPACE",
             NEW len \in {DataLen[op.val]}
      PROVE  NoRoomFor(len)'
  <2>1. RequestFails \/ StillNoRoom
    BY <1>3, NoSpaceSteps
  <2>2. pc \in {"request", "recheck"} /\ UNCHANGED <<flash, used>>
    BY <2>1 DEF RequestFails, StillNoRoom, ram
  <2>3. LogInv /\ op.val \in Values /\ len = DataLen[op.val] /\ len \in Nat /\ N \in Nat
    <3>1. LogInv /\ op.val \in Values
      BY <1>3, <2>2, PutFacts DEF PutSteps
    <3>. QED
      BY <3>1, LenAssumption, SizeAssumption
  <2>4. ASSUME NEW p \in Pages PROVE cntUsed[p] = LiveCount(p) /\ cntUsed[p] \in Nat
    <3>1. PageInv(p) /\ Counted(p) = Used(flash[p])
      BY <2>2, <2>3, QuietNow DEF LogInv
    <3>2. cntUsed[p] \in Nat
      BY <2>2, <2>3, CountType
    <3>. QED
      BY <3>1, <3>2 DEF PageInv, LiveCount, Used
  <2>5. ASSUME NEW n \in DOMAIN used PROVE LiveCount(used[n]) + 1 + len > N
    <3>1. used \in Seq(Pages) /\ used[n] \in Pages /\ Holds(used, used[n])
      BY <2>3, PageTypes DEF LogInv, Holds
    <3>2. CASE RequestFails
      <4>1. Len(free) # 0
        <5>1. free # <<>> /\ free \in Seq(Pages)
          BY <1>3, <2>3, <3>2, PageTypes DEF RequestFails, SpaceInv, LogInv
        <5>. QED
          BY <5>1
      <4>2. Len(free) = 1 /\ ErasePage = NoPage
        BY <3>2, <4>1 DEF RequestFails, NoPageToGive
      <4>3. FewestUsed = {}
        <5> SUFFICES ASSUME FewestUsed # {} PROVE FALSE
          OBVIOUS
        <5>1. FewestUsed \in SUBSET Nat
          BY <3>1 DEF FewestUsed, Reclaimable
        <5>2. Least(FewestUsed) \in DOMAIN used
          BY <5>1, LeastNat DEF FewestUsed, Reclaimable
        <5>3. ErasePage \in Pages
          BY <3>1, <4>2, <5>2 DEF ErasePage
        <5>. QED
          BY <4>2, <5>3, Idle
      <4>4. ~(cntUsed[used[n]] < N)
        <5> SUFFICES ASSUME cntUsed[used[n]] < N PROVE FALSE
          OBVIOUS
        <5> DEFINE C == {cntUsed[used[m]] : m \in Reclaimable}
        <5>1. n \in Reclaimable
          BY DEF Reclaimable
        <5>2. \A m \in Reclaimable : cntUsed[used[m]] \in Nat
          BY <2>4, <3>1 DEF Reclaimable
        <5>3. C \in SUBSET Nat /\ C # {}
          BY <5>1, <5>2
        <5>4. Least(C) \in C /\ \A c \in C : Least(C) <= c
          BY <5>3, LeastNat
        <5>5. PICK m \in Reclaimable : Least(C) = cntUsed[used[m]]
          BY <5>4
        <5>6. \A j \in Reclaimable : cntUsed[used[m]] <= cntUsed[used[j]]
          BY <5>4, <5>5
        <5>. QED
          BY <4>3, <5>6 DEF FewestUsed
      <4>. QED
        BY <2>3, <2>4, <3>1, <4>4
    <3>3. CASE StillNoRoom
      <4>1. nextFree[pg] <= cntUsed[used[n]]
        BY <1>3, <3>1, <3>3 DEF StillNoRoom, SpaceInv, Fewest
      <4>2. ~(N - nextFree[pg] >= 1 + len)
        BY <2>3, <3>3 DEF StillNoRoom, Room
      <4>3. nextFree[pg] \in Nat /\ cntUsed[used[n]] \in Nat
        BY <2>3, <2>4, <3>1, PageTypes DEF LogInv
      <4>4. cntUsed[used[n]] = LiveCount(used[n])
        BY <2>4, <3>1
      <4>5. cntUsed[used[n]] + 1 + len > N
        BY <2>3, <4>1, <4>2, <4>3
      <4>. QED
        BY <4>4, <4>5
    <3>. QED
      BY <2>1, <3>2, <3>3
  <2>6. NoRoomFor(len)
    BY <2>5 DEF NoRoomFor
  <2>. QED
    BY <2>2, <2>6 DEF NoRoomFor, LiveCount
<1>4. MapInv /\ SpaceInv /\ [Next]_vars =>
        [pc # "idle" /\ pc' = "idle" /\ res' = "NO_SPACE" =>
            \A len \in {DataLen[op.val]} : NoRoomFor(len)']_vars
  BY <1>3
<1>. QED
  BY <1>1, <1>2, <1>4, MapIsInvariant, PTL DEF Spec, NoSpaceOnlyWhenFull
=============================================================================
