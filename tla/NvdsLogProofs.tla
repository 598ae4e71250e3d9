---------------------------- MODULE NvdsLogProofs ----------------------------
(***************************************************************************)
(* The log of the NVDS store while power stays on: how the entries of a    *)
(* page are laid out at every step of a put, a delete and a reclaim, and   *)
(* that entry_cnt_used counts them.                                        *)
(***************************************************************************)
EXTENDS NvdsFlashProofs

Used(r) == {i \in Idx : r.es[i] = "USED"}

\* Entries that entry_cnt_used counts though they are not USED: those of an
\* element being deleted, until all are marked, and those of a new element or a
\* copy whose states are still to be written.
Pending ==
    CASE pc = "delete" -> rng.lo .. (rng.at - 1)
      [] pc = "copied" -> {nextFree[pg] - 1}
      [] pc = "data"   -> {rng.lo}
      [] pc = "mark"   -> rng.lo .. rng.hi
      [] OTHER -> {}
Counted(p) == Used(flash[p]) \cup (IF p = pg THEN Pending ELSE {})

\* The headers among the first n entries of page r, and where an element ends.
Hdrs(r, n) == {h \in 0..(n - 1) : r.ent[h].t = "hdr"}
End(r, h)  == h + DataLen[r.ent[h].v]

\* The first n entries of a page are headers, each followed by its data, the rest
\* is erased; C holds all entries of an element or none.
Layout(r, n, C) ==
    /\ C \subseteq 0..(n - 1)
    /\ \A i \in Idx : i >= n => r.es[i] = "FREE" /\ r.ent[i] = Erased
    /\ \A i \in 0..(n - 1) :
         i \in Hdrs(r, n) \/ \E h \in Hdrs(r, n) : h < i /\ i <= End(r, h)
    /\ \A h \in Hdrs(r, n), i \in 0..(n - 1) :
         h < i /\ i <= End(r, h) =>
             r.ent[i] = Data(r.ent[h].v, i - h) /\ (i \in C <=> h \in C)

\* Every element is complete, but for those of X.
Whole(r, n, X) == \A h \in Hdrs(r, n) : End(r, h) < n \/ h \in X

\* Header h of the page being filled is the copy of a header of the victim that
\* the copying loop has passed by as many entries.
CopyOf(h) ==
    \E g \in Hdrs(flash[vic], nextFree[vic]) :
        /\ g \in Used(flash[vic])
        /\ rng.at - g = nextFree[pg] - h
        /\ flash[vic].ent[g] = flash[pg].ent[h]

Unfinished(p) ==
    IF p # pg THEN {}
    ELSE CASE pc = "data" -> {rng.lo}
           [] pc \in {"copy", "copied"} ->
                {h \in Hdrs(flash[pg], nextFree[pg]) : CopyOf(h)}
           [] OTHER -> {}

\* An entry that is not erased has been marked, or is still to be.
Touched(r, n, C) == \A i \in 0..(n - 1) : r.es[i] = "FREE" => i \in C

PageInv(p) ==
    /\ Layout(flash[p], nextFree[p], Counted(p))
    /\ Touched(flash[p], nextFree[p], Counted(p))
    /\ Whole(flash[p], nextFree[p], Unfinished(p))
    /\ cntUsed[p] = Cardinality(Counted(p))

Injective(s) == \A m, n \in DOMAIN s : s[m] = s[n] => m = n
Holds(s, x)  == \E n \in DOMAIN s : s[n] = x

\* A page is in one list at most, and free pages are blank.
Lists ==
    /\ Injective(used) /\ Injective(free)
    /\ \A p \in Pages : ~(Holds(used, p) /\ Holds(free, p))
    /\ \A p \in Pages : Holds(free, p) =>
         flash[p] = Blank \/ (pc \in {"copy", "copied"} /\ p = vic)

InPage == {"delete", "candidate", "copy", "copied", "recheck", "write", "data", "mark"}

Stage ==
    /\ pc # "erase"
    /\ pc = "header" => pg = Head(free)
    /\ pc \in InPage => Holds(used, pg)
    /\ pc \in {"candidate", "copy", "copied"} => pg # vic
    /\ pc = "candidate" => nextFree[pg] = 0
    /\ pc \notin {"delete", "copy", "copied", "data", "mark"} => rng = NoRng
    /\ pc = "down" => \A p \in Pages : flash[p] = Blank /\ nextFree[p] = 0 /\ cntUsed[p] = 0
    /\ pc = "clean" => \A p \in Pages : p < pg => flash[p] = Blank

Deleting ==
    /\ rng.lo \in Hdrs(flash[pg], nextFree[pg])
    /\ rng.hi = End(flash[pg], rng.lo)
    /\ rng.lo <= rng.at
    /\ rng.lo \in Counted(pg)
    /\ \A i \in rng.lo .. (rng.at - 1) : flash[pg].es[i] = "UPDATED"

Writing ==
    /\ rng.lo \in Hdrs(flash[pg], nextFree[pg])
    /\ flash[pg].ent[rng.lo].v = op.val
    /\ flash[pg].es[rng.lo] = "FREE"
    /\ rng.at = rng.lo

Marking ==
    /\ rng.lo \in Hdrs(flash[pg], nextFree[pg])
    /\ rng.hi = End(flash[pg], rng.lo)
    /\ rng.lo <= rng.at
    /\ \A i \in rng.lo .. (rng.at - 1) : flash[pg].es[i] = "USED"
    /\ \A i \in rng.at .. rng.hi : flash[pg].es[i] = "FREE"

\* The page being filled holds copies only, and the header of the element that the
\* loop is in the middle of is one of them.
Copying ==
    /\ Counted(pg) = 0 .. (nextFree[pg] - 1)
    /\ \A g \in Hdrs(flash[vic], nextFree[vic]) :
         g \in Used(flash[vic]) /\ g < rng.at /\ End(flash[vic], g) >= rng.at =>
             /\ nextFree[pg] - (rng.at - g) \in 0 .. (nextFree[pg] - 1)
             /\ flash[pg].ent[nextFree[pg] - (rng.at - g)] = flash[vic].ent[g]

Phase ==
    /\ pc = "delete" => Deleting
    /\ pc = "data" => Writing
    /\ pc = "mark" => Marking
    /\ pc = "copied" => flash[pg].es[nextFree[pg] - 1] = "FREE"
    /\ pc \in {"copy", "copied"} => Copying

LogInv ==
    /\ TypeInv
    /\ Lists
    /\ Stage
    /\ Phase
    /\ pc # "clean" => \A p \in Pages : PageInv(p)

-----------------------------------------------------------------------------
(* The layout of a page                                                     *)

LEMMA EndType ==
  ASSUME NEW r \in PageRec, NEW n \in 0..N, NEW h \in Hdrs(r, n)
  PROVE  /\ h \in Nat /\ h < n /\ h \in Idx /\ r.ent[h].t = "hdr"
         /\ r.ent[h].v \in Values /\ DataLen[r.ent[h].v] \in Nat
         /\ End(r, h) \in Nat /\ h <= End(r, h)
<1>1. h \in Nat /\ h < n /\ h \in Idx /\ r.ent[h].t = "hdr"
  BY SizeAssumption DEF Hdrs, Idx
<1>2. r.ent[h] \in Entries
  BY <1>1 DEF PageRec
<1>3. r.ent[h].v \in Values
  BY <1>1, <1>2 DEF Entries, Erased
<1>4. DataLen[r.ent[h].v] \in Nat
  BY <1>3, LenAssumption
<1>. QED
  BY <1>1, <1>3, <1>4 DEF End

\* Elements do not overlap.
LEMMA Apart ==
  ASSUME NEW r \in PageRec, NEW n \in 0..N, NEW C, Layout(r, n, C),
         NEW g \in Hdrs(r, n), NEW h \in Hdrs(r, n), g < h
  PROVE  End(r, g) < h
<1> SUFFICES ASSUME ~(End(r, g) < h) PROVE FALSE
  OBVIOUS
<1>1. h <= End(r, g)
  BY EndType
<1>2. h \in 0..(n - 1)
  BY DEF Hdrs
<1>3. r.ent[h] = Data(r.ent[g].v, h - g)
  BY <1>1, <1>2 DEF Layout
<1>4. r.ent[h].t = "data"
  BY <1>3 DEF Data
<1>. QED
  BY <1>4 DEF Hdrs

\* What a page is laid out as depends on its entries, and on the states of the
\* erased ones.
LEMMA LayoutSame ==
  ASSUME NEW r, NEW q, NEW n, NEW C, q.ent = r.ent,
         \A i \in Idx : i >= n => q.es[i] = r.es[i]
  PROVE  /\ Hdrs(q, n) = Hdrs(r, n)
         /\ \A h : End(q, h) = End(r, h)
         /\ Layout(r, n, C) => Layout(q, n, C)
         /\ \A X : Whole(r, n, X) => Whole(q, n, X)
<1>1. Hdrs(q, n) = Hdrs(r, n) /\ \A h : End(q, h) = End(r, h)
  BY DEF Hdrs, End
<1>2. Layout(r, n, C) => Layout(q, n, C)
  BY <1>1 DEF Layout
<1>3. \A X : Whole(r, n, X) => Whole(q, n, X)
  BY <1>1 DEF Whole
<1>. QED
  BY <1>1, <1>2, <1>3

LEMMA LayoutBlank ==
  ASSUME NEW r, r.ent = Blank.ent, r.es = Blank.es
  PROVE  /\ Layout(r, 0, {}) /\ Touched(r, 0, {}) /\ (\A X : Whole(r, 0, X))
         /\ Used(r) = {} /\ Hdrs(r, 0) = {}
<1>1. 0..(0 - 1) = {}
  OBVIOUS
<1>2. Hdrs(r, 0) = {}
  BY <1>1 DEF Hdrs
<1>3. \A i \in Idx : r.es[i] = "FREE" /\ r.ent[i] = Erased
  BY DEF Blank
<1>. QED
  BY <1>1, <1>2, <1>3 DEF Layout, Touched, Whole, Used

\* An element that is given up as a whole.
LEMMA LayoutDeleted ==
  ASSUME NEW r \in PageRec, NEW n \in 0..N, NEW C, Layout(r, n, C), NEW lo \in Hdrs(r, n)
  PROVE  Layout(r, n, C \ (lo .. End(r, lo)))
<1> DEFINE D == lo .. End(r, lo)
<1>1. ASSUME NEW h \in Hdrs(r, n), NEW i \in 0..(n - 1), h < i, i <= End(r, h)
      PROVE  i \in D <=> h \in D
  <2>1. lo \in Nat /\ End(r, lo) \in Nat /\ lo <= End(r, lo)
    BY EndType
  <2>2. h \in Nat /\ End(r, h) \in Nat /\ i \in Nat
    BY EndType
  <2>3. CASE h = lo
    BY <1>1, <2>1, <2>2, <2>3
  <2>4. CASE h < lo
    <3>1. End(r, h) < lo
      BY <2>4, Apart
    <3>. QED
      BY <1>1, <2>1, <2>2, <2>4, <3>1
  <2>5. CASE lo < h
    <3>1. End(r, lo) < h
      BY <2>5, Apart
    <3>. QED
      BY <1>1, <2>1, <2>2, <3>1
  <2>. QED
    BY <2>1, <2>2, <2>3, <2>4, <2>5
<1>. HIDE DEF D
<1>2. \A h \in Hdrs(r, n), i \in 0..(n - 1) :
         h < i /\ i <= End(r, h) => (i \in C \ D <=> h \in C \ D)
  BY <1>1 DEF Layout
<1>3. Layout(r, n, C \ D)
  BY <1>2 DEF Layout
<1>. QED
  BY <1>3 DEF D

\* A header is appended to complete elements.
LEMMA LayoutHeader ==
  ASSUME NEW r \in PageRec, NEW n \in 0..N, n < N, NEW C, Layout(r, n, C), Whole(r, n, {}),
         NEW e \in Entries, e.t = "hdr",
         NEW q \in PageRec, q.es = r.es, q.ent = [r.ent EXCEPT ![n] = e]
  PROVE  Layout(q, n + 1, C \cup {n}) /\ Whole(q, n + 1, {n}) /\ n \in Hdrs(q, n + 1)
<1>1. n \in Idx /\ n \in Nat /\ 0..((n + 1) - 1) = 0..(n - 1) \cup {n} /\ n + 1 \in 0..N
  <2>1. n \in Nat /\ N \in Nat
    BY SizeAssumption
  <2>2. \A m \in Nat : 0..((m + 1) - 1) = 0..(m - 1) \cup {m}
    OBVIOUS
  <2>3. n \in Idx /\ n + 1 \in 0..N
    BY <2>1 DEF Idx
  <2>. QED
    BY <2>1, <2>2, <2>3
<1>2. /\ q.ent[n] = e
      /\ \A i \in Idx : i # n => q.ent[i] = r.ent[i]
      /\ 0..(n - 1) \subseteq Idx
  <2>1. r.ent \in [Idx -> Entries]
    BY DEF PageRec
  <2>2. q.ent[n] = e /\ \A i \in Idx : i # n => q.ent[i] = r.ent[i]
    BY <1>1, <2>1
  <2>3. 0..(n - 1) \subseteq Idx
    BY <1>1, SizeAssumption DEF Idx
  <2>. QED
    BY <2>2, <2>3
<1>3. Hdrs(q, n + 1) = Hdrs(r, n) \cup {n}
  BY <1>1, <1>2 DEF Hdrs
<1>4. \A h \in Hdrs(r, n) : End(q, h) = End(r, h) /\ q.ent[h] = r.ent[h] /\ End(r, h) < n
                            /\ h \in Nat /\ h < n
  <2> TAKE h \in Hdrs(r, n)
  <2>1. h \in Nat /\ h < n /\ h \in Idx
    BY EndType
  <2>2. q.ent[h] = r.ent[h]
    BY <1>1, <1>2, <2>1
  <2>. QED
    BY <2>1, <2>2 DEF End, Whole
<1>5. \A i \in Idx : i >= n + 1 => q.es[i] = "FREE" /\ q.ent[i] = Erased
  <2> SUFFICES ASSUME NEW i \in Idx, i >= n + 1 PROVE q.es[i] = "FREE" /\ q.ent[i] = Erased
    OBVIOUS
  <2>1. i \in Nat /\ i # n /\ i >= n
    BY <1>1, Idle
  <2>2. r.es[i] = "FREE" /\ r.ent[i] = Erased
    BY <2>1 DEF Layout
  <2>. QED
    BY <1>2, <2>1, <2>2
<1>6. ASSUME NEW i \in 0..((n + 1) - 1)
      PROVE  i \in Hdrs(q, n + 1) \/ \E h \in Hdrs(q, n + 1) : h < i /\ i <= End(q, h)
  <2>1. CASE i = n
    BY <1>3, <2>1
  <2>2. CASE i \in 0..(n - 1)
    <3>1. i \in Hdrs(r, n) \/ \E h \in Hdrs(r, n) : h < i /\ i <= End(r, h)
      BY <2>2 DEF Layout
    <3>. QED
      BY <1>3, <1>4, <3>1
  <2>. QED
    BY <1>1, <2>1, <2>2
<1>7. ASSUME NEW h \in Hdrs(q, n + 1), NEW i \in 0..((n + 1) - 1), h < i, i <= End(q, h)
      PROVE  /\ q.ent[i] = Data(q.ent[h].v, i - h)
             /\ i \in C \cup {n} <=> h \in C \cup {n}
  <2>1. i \in Nat /\ i <= n /\ h # n
    BY <1>1, <1>7
  <2>2. h \in Hdrs(r, n)
    BY <1>3, <2>1
  <2>3. End(q, h) = End(r, h) /\ q.ent[h] = r.ent[h] /\ End(r, h) < n
    BY <1>4, <2>2
  <2>4. i < n
    <3>1. End(r, h) \in Nat
      BY <2>2, EndType
    <3>. QED
      BY <1>1, <1>7, <2>1, <2>3, <3>1
  <2>5. i \in 0..(n - 1) /\ i \in Idx /\ i # n
    BY <1>1, <1>2, <2>1, <2>4
  <2>6. r.ent[i] = Data(r.ent[h].v, i - h) /\ (i \in C <=> h \in C)
    BY <1>7, <2>2, <2>3, <2>5 DEF Layout
  <2>. QED
    BY <1>2, <2>1, <2>3, <2>5, <2>6
<1>8. C \cup {n} \subseteq 0..((n + 1) - 1)
  BY <1>1 DEF Layout
<1>9. Layout(q, n + 1, C \cup {n})
  BY <1>5, <1>6, <1>7, <1>8 DEF Layout
<1>10. Whole(q, n + 1, {n})
  <2>1. \A h \in Hdrs(r, n) : End(q, h) < n + 1
    <3> TAKE h \in Hdrs(r, n)
    <3>1. End(r, h) \in Nat /\ End(q, h) = End(r, h) /\ End(r, h) < n
      BY <1>4, EndType
    <3>. QED
      BY <1>1, <3>1
  <2>. QED
    BY <1>3, <2>1 DEF Whole
<1>. QED
  BY <1>3, <1>9, <1>10

\* Page q is page r with entries n to m - 1 the data of header h.
Grown(q, r, n, m, h) ==
    /\ q.es = r.es
    /\ \A i \in Idx : q.ent[i] = IF i \in n..(m - 1) THEN Data(r.ent[h].v, i - h) ELSE r.ent[i]

\* Data is appended to the last header.
LEMMA LayoutData ==
  ASSUME NEW r \in PageRec, NEW n \in 0..N, NEW C, Layout(r, n, C),
         NEW h \in Hdrs(r, n), Whole(r, n, {h}), h \in C,
         NEW m \in 0..N, n <= m, m <= End(r, h) + 1,
         NEW q \in PageRec, Grown(q, r, n, m, h)
  PROVE  /\ Layout(q, m, C \cup (n..(m - 1))) /\ Whole(q, m, {h})
         /\ Hdrs(q, m) = Hdrs(r, n) /\ \A g \in Hdrs(r, n) : q.ent[g] = r.ent[g]
<1> DEFINE B == C \cup (n..(m - 1))
<1>. /\ q.es = r.es
     /\ \A i \in Idx : q.ent[i] = IF i \in n..(m - 1) THEN Data(r.ent[h].v, i - h) ELSE r.ent[i]
  BY DEF Grown
<1>1. n \in Nat /\ m \in Nat /\ 0..(m - 1) = 0..(n - 1) \cup n..(m - 1) /\ 0..(m - 1) \subseteq Idx
  BY SizeAssumption DEF Idx
<1>2. \A g \in Hdrs(r, n) : /\ q.ent[g] = r.ent[g] /\ End(q, g) = End(r, g) /\ g \in Nat /\ g < n
                            /\ End(r, g) \in Nat
  <2> TAKE g \in Hdrs(r, n)
  <2>1. g \in Nat /\ g < n /\ g \in Idx /\ End(r, g) \in Nat
    BY EndType
  <2>2. g \notin n..(m - 1)
    BY <1>1, <2>1
  <2>3. q.ent[g] = r.ent[g]
    BY <2>1, <2>2
  <2>. QED
    BY <2>1, <2>3 DEF End
<1>3. Hdrs(q, m) = Hdrs(r, n)
  <2>1. ASSUME NEW i \in n..(m - 1) PROVE q.ent[i].t # "hdr"
    <3>1. i \in Idx
      BY <1>1
    <3>2. q.ent[i] = Data(r.ent[h].v, i - h)
      BY <3>1
    <3>. QED
      BY <3>2 DEF Data
  <2>2. ASSUME NEW i \in 0..(n - 1) PROVE q.ent[i] = r.ent[i]
    <3>1. i \in Idx /\ i \notin n..(m - 1)
      BY <1>1
    <3>. QED
      BY <3>1
  <2>. QED
    BY <1>1, <2>1, <2>2 DEF Hdrs
<1>4. \A i \in Idx : i >= m => q.es[i] = "FREE" /\ q.ent[i] = Erased
  <2> SUFFICES ASSUME NEW i \in Idx, i >= m PROVE q.es[i] = "FREE" /\ q.ent[i] = Erased
    OBVIOUS
  <2>1. i \in Nat /\ i >= n /\ i \notin n..(m - 1)
    BY <1>1, Idle
  <2>2. r.es[i] = "FREE" /\ r.ent[i] = Erased
    BY <2>1 DEF Layout
  <2>. QED
    BY <2>1, <2>2
<1>5. ASSUME NEW i \in 0..(m - 1)
      PROVE  i \in Hdrs(q, m) \/ \E g \in Hdrs(q, m) : g < i /\ i <= End(q, g)
  <2>1. CASE i \in n..(m - 1)
    <3>1. h < i /\ i <= End(q, h)
      BY <1>1, <1>2, <2>1
    <3>. QED
      BY <1>3, <3>1
  <2>2. CASE i \in 0..(n - 1)
    <3>1. i \in Hdrs(r, n) \/ \E g \in Hdrs(r, n) : g < i /\ i <= End(r, g)
      BY <2>2 DEF Layout
    <3>. QED
      BY <1>2, <1>3, <3>1
  <2>. QED
    BY <1>1, <2>1, <2>2
<1>6. ASSUME NEW g \in Hdrs(q, m), NEW i \in 0..(m - 1), g < i, i <= End(q, g)
      PROVE  q.ent[i] = Data(q.ent[g].v, i - g) /\ (i \in B <=> g \in B)
  <2>1. g \in Hdrs(r, n) /\ End(q, g) = End(r, g) /\ q.ent[g] = r.ent[g] /\ g \in Nat /\ g < n
        /\ End(r, g) \in Nat
    BY <1>2, <1>3
  <2>2. g \in B <=> g \in C
    BY <1>1, <2>1
  <2>3. CASE i \in n..(m - 1)
    <3>1. g = h
      <4>1. ~(End(r, g) < n)
        BY <1>1, <1>6, <2>1, <2>3
      <4>. QED
        BY <2>1, <4>1 DEF Whole
    <3>2. i \in Idx
      BY <1>1
    <3>. QED
      BY <2>1, <2>2, <2>3, <3>1, <3>2
  <2>4. CASE i \in 0..(n - 1)
    <3>1. r.ent[i] = Data(r.ent[g].v, i - g) /\ (i \in C <=> g \in C)
      BY <1>6, <2>1, <2>4 DEF Layout
    <3>2. i \in Idx /\ i \notin n..(m - 1)
      BY <1>1, <2>4
    <3>3. q.ent[i] = r.ent[i] /\ (i \in B <=> i \in C)
      BY <3>2
    <3>. QED
      BY <2>1, <2>2, <3>1, <3>3
  <2>. QED
    BY <1>1, <2>3, <2>4
<1>7. B \subseteq 0..(m - 1)
  BY <1>1 DEF Layout
<1>. HIDE DEF B
<1>8. Layout(q, m, B)
  BY <1>4, <1>5, <1>6, <1>7 DEF Layout
<1>9. Whole(q, m, {h})
  <2>1. \A g \in Hdrs(r, n) : End(q, g) < m \/ g \in {h}
    <3> TAKE g \in Hdrs(r, n)
    <3>1. End(r, g) < n \/ g \in {h}
      BY DEF Whole
    <3>. QED
      BY <1>1, <1>2, <3>1
  <2>. QED
    BY <1>3, <2>1 DEF Whole
<1>. QED
  BY <1>2, <1>3, <1>8, <1>9 DEF B

-----------------------------------------------------------------------------
(* The lists                                                                *)

LEMMA TailList ==
  ASSUME NEW S, NEW s \in Seq(S), s # <<>>, Injective(s)
  PROVE  /\ Tail(s) \in Seq(S) /\ Injective(Tail(s)) /\ Holds(s, Head(s))
         /\ \A x : Holds(Tail(s), x) <=> Holds(s, x) /\ x # Head(s)
<1> DEFINE t == Tail(s)
<1>1. Len(s) \in Nat /\ Len(s) >= 1 /\ DOMAIN s = 1..Len(s) /\ Head(s) = s[1]
  OBVIOUS
<1>2. t \in Seq(S) /\ Len(t) = Len(s) - 1
  OBVIOUS
<1>3. DOMAIN t = 1..(Len(s) - 1)
  BY <1>2
<1>4. \A i \in 1..(Len(s) - 1) : t[i] = s[i + 1]
  OBVIOUS
<1>. HIDE DEF t
<1>5. Injective(t)
  <2> SUFFICES ASSUME NEW m \in DOMAIN t, NEW n \in DOMAIN t, t[m] = t[n] PROVE m = n
    BY DEF Injective
  <2>1. m + 1 \in DOMAIN s /\ n + 1 \in DOMAIN s /\ s[m + 1] = s[n + 1] /\ m \in Nat /\ n \in Nat
    BY <1>1, <1>3, <1>4
  <2>2. m + 1 = n + 1
    BY <2>1 DEF Injective
  <2>. QED
    BY <2>1, <2>2
<1>6. ASSUME NEW x, Holds(t, x) PROVE Holds(s, x) /\ x # Head(s)
  <2>1. PICK n \in DOMAIN t : t[n] = x
    BY <1>6 DEF Holds
  <2>2. n + 1 \in DOMAIN s /\ s[n + 1] = x /\ n + 1 # 1 /\ 1 \in DOMAIN s
    BY <1>1, <1>3, <1>4, <2>1
  <2>3. s[1] # x
    BY <2>2 DEF Injective
  <2>. QED
    BY <1>1, <2>2, <2>3 DEF Holds
<1>7. ASSUME NEW x, Holds(s, x), x # Head(s) PROVE Holds(t, x)
  <2>1. PICK n \in DOMAIN s : s[n] = x
    BY <1>7 DEF Holds
  <2>2. n \in Nat /\ n # 1 /\ n - 1 \in 1..(Len(s) - 1) /\ (n - 1) + 1 = n
    BY <1>1, <1>7, <2>1
  <2>3. t[n - 1] = x
    BY <1>4, <2>1, <2>2
  <2>. QED
    BY <1>3, <2>2, <2>3 DEF Holds
<1>8. Holds(s, Head(s))
  BY <1>1 DEF Holds
<1>. QED
  BY <1>2, <1>5, <1>6, <1>7, <1>8 DEF t

LEMMA AppendList ==
  ASSUME NEW S, NEW s \in Seq(S), NEW x \in S
  PROVE  /\ Append(s, x) \in Seq(S)
         /\ Injective(s) /\ ~Holds(s, x) => Injective(Append(s, x))
         /\ \A y : Holds(Append(s, x), y) <=> Holds(s, y) \/ y = x
<1> DEFINE t == Append(s, x)
<1>1. Len(s) \in Nat /\ DOMAIN s = 1..Len(s)
  OBVIOUS
<1>2. t \in Seq(S) /\ Len(t) = Len(s) + 1
  OBVIOUS
<1>3. DOMAIN t = 1..(Len(s) + 1)
  BY <1>2
<1>4. (\A i \in 1..Len(s) : t[i] = s[i]) /\ t[Len(s) + 1] = x
  OBVIOUS
<1>. HIDE DEF t
<1>5. ASSUME Injective(s), ~Holds(s, x) PROVE Injective(t)
  <2> SUFFICES ASSUME NEW m \in DOMAIN t, NEW n \in DOMAIN t, t[m] = t[n] PROVE m = n
    BY DEF Injective
  <2>1. \A i \in DOMAIN t : i = Len(s) + 1 \/ i \in DOMAIN s
    BY <1>1, <1>3
  <2>2. \A i \in DOMAIN s : t[i] = s[i] /\ s[i] # x
    BY <1>1, <1>4, <1>5 DEF Holds
  <2>. QED
    BY <1>4, <1>5, <2>1, <2>2 DEF Injective
<1>6. ASSUME NEW y, Holds(t, y) PROVE Holds(s, y) \/ y = x
  <2>1. PICK n \in DOMAIN t : t[n] = y
    BY <1>6 DEF Holds
  <2>2. n = Len(s) + 1 \/ n \in DOMAIN s
    BY <1>1, <1>3
  <2>. QED
    BY <1>1, <1>4, <2>1, <2>2 DEF Holds
<1>7. ASSUME NEW y, Holds(s, y) PROVE Holds(t, y)
  <2>1. PICK n \in DOMAIN s : s[n] = y
    BY <1>7 DEF Holds
  <2>2. n \in DOMAIN t /\ t[n] = y
    BY <1>1, <1>3, <1>4, <2>1
  <2>. QED
    BY <2>2 DEF Holds
<1>8. Holds(t, x)
  <2>1. Len(s) + 1 \in DOMAIN t
    BY <1>1, <1>3
  <2>. QED
    BY <1>4, <2>1 DEF Holds
<1>. QED
  BY <1>2, <1>5, <1>6, <1>7, <1>8 DEF t

\* list_extract takes one page out of the list.
LEMMA ExtractList ==
  ASSUME NEW S, NEW s \in Seq(S), NEW x, Holds(s, x), Injective(s)
  PROVE  /\ Injective(Extract(s, x))
         /\ \A y : Holds(Extract(s, x), y) <=> Holds(s, y) /\ y # x
<1> DEFINE M == {m \in DOMAIN s : s[m] = x}
           n == Least(M)
           t == Extract(s, x)
<1>1. M \subseteq Nat /\ M # {}
  BY DEF Holds
<1>2. n \in M
  BY <1>1, LeastNat
<1>. HIDE DEF n
<1>3. n \in 1..Len(s) /\ Len(s) \in Nat /\ DOMAIN s = 1..Len(s) /\ s[n] = x
  BY <1>2
<1>4. /\ Len(t) = Len(s) - 1 /\ DOMAIN t = 1..(Len(s) - 1)
      /\ \A i \in 1..(n - 1) : t[i] = s[i]
      /\ \A i \in n..(Len(s) - 1) : t[i] = s[i + 1]
  <2> DEFINE a == SubSeq(s, 1, n - 1)
             b == SubSeq(s, n + 1, Len(s))
  <2>1. a \in Seq(S) /\ Len(a) = n - 1 /\ \A i \in 1..(n - 1) : a[i] = s[i]
    BY <1>3
  <2>2. b \in Seq(S) /\ Len(b) = Len(s) - n /\ \A i \in 1..(Len(s) - n) : b[i] = s[i + n]
    <3>0. n \in 1..Len(s) /\ Len(s) \in Nat
      BY <1>3
    <3>1. b \in Seq(S) /\ Len(b) = Len(s) - n
      BY <3>0
    <3>2. ASSUME NEW i \in 1..(Len(s) - n) PROVE b[i] = s[i + n]
      <4>1. i \in Nat /\ n \in Nat /\ i \in 1..(Len(s) - (n + 1) + 1) /\ (n + 1) + i - 1 = i + n
        BY <1>3
      <4>2. b[i] = s[(n + 1) + i - 1]
        BY <1>3, <4>1
      <4>. QED
        BY <4>1, <4>2
    <3>. QED
      BY <3>1, <3>2
  <2>3. t = a \o b
    BY DEF Extract, n
  <2>. HIDE DEF a, b, t
  <2>4. t \in Seq(S) /\ Len(t) = Len(a) + Len(b)
    BY <2>1, <2>2, <2>3
  <2>5. Len(t) = Len(s) - 1
    BY <1>3, <2>1, <2>2, <2>4
  <2>6. DOMAIN t = 1..(Len(s) - 1)
    BY <2>4, <2>5
  <2>7. \A i \in 1..Len(a) : (a \o b)[i] = a[i]
    BY <2>1, <2>2
  <2>8. \A i \in 1..(Len(a) + Len(b)) : i > Len(a) => (a \o b)[i] = b[i - Len(a)]
    BY <2>1, <2>2
  <2>9. \A i \in 1..(n - 1) : t[i] = s[i]
    BY <2>1, <2>3, <2>7
  <2>10. ASSUME NEW i \in n..(Len(s) - 1) PROVE t[i] = s[i + 1]
    <3>1. i \in 1..(Len(a) + Len(b)) /\ i > Len(a) /\ i - Len(a) \in 1..(Len(s) - n)
          /\ (i - Len(a)) + n = i + 1
      BY <1>3, <2>1, <2>2
    <3>2. t[i] = b[i - Len(a)]
      BY <2>3, <2>8, <3>1
    <3>. QED
      BY <2>2, <3>1, <3>2
  <2>. QED
    BY <2>5, <2>6, <2>9, <2>10
<1>. HIDE DEF t
<1> DEFINE at(i) == IF i < n THEN i ELSE i + 1
<1>5. \A i \in DOMAIN t : t[i] = s[at(i)] /\ at(i) \in DOMAIN s /\ at(i) # n
  BY <1>3, <1>4
<1>6. \A i, j \in DOMAIN t : at(i) = at(j) => i = j
  BY <1>3, <1>4
<1>7. \A k \in DOMAIN s : k # n => \E i \in DOMAIN t : at(i) = k
  <2> SUFFICES ASSUME NEW k \in DOMAIN s, k # n PROVE \E i \in DOMAIN t : at(i) = k
    OBVIOUS
  <2>1. CASE k < n
    <3>1. k \in DOMAIN t /\ at(k) = k
      BY <1>3, <1>4, <2>1
    <3>. QED
      BY <3>1
  <2>2. CASE k > n
    <3>1. k - 1 \in DOMAIN t /\ at(k - 1) = k
      BY <1>3, <1>4, <2>2
    <3>. QED
      BY <3>1
  <2>. QED
    BY <1>3, <2>1, <2>2
<1>. HIDE DEF at
<1>8. Injective(t)
  BY <1>5, <1>6 DEF Injective
<1>9. ASSUME NEW y, Holds(t, y) PROVE Holds(s, y) /\ y # x
  BY <1>3, <1>5, <1>9 DEF Holds, Injective
<1>10. ASSUME NEW y, Holds(s, y), y # x PROVE Holds(t, y)
  <2>1. PICK k \in DOMAIN s : s[k] = y
    BY <1>10 DEF Holds
  <2>2. k # n
    BY <1>3, <1>10, <2>1
  <2>3. PICK i \in DOMAIN t : at(i) = k
    BY <1>7, <2>2
  <2>. QED
    BY <1>5, <2>1, <2>3 DEF Holds
<1>. QED
  BY <1>8, <1>9, <1>10 DEF t

-----------------------------------------------------------------------------
(* Pages a step leaves as they are                                          *)

LEMMA PageTypes ==
  ASSUME TypeInv
  PROVE  /\ \A p \in Pages : /\ flash[p] \in PageRec /\ nextFree[p] \in 0..N
                             /\ nextFree[p] \in Nat /\ cntUsed[p] \in Int
         /\ pg \in Pages /\ rng \in RngRec /\ rng.lo \in Nat /\ rng.at \in Nat /\ rng.hi \in Nat
         /\ used \in Seq(Pages) /\ free \in Seq(Pages) /\ N \in Nat
<1>1. flash \in [Pages -> PageRec] /\ nextFree \in [Pages -> 0..N] /\ cntUsed \in [Pages -> Int]
  BY DEF TypeInv, TypeOK
<1>2. \A p \in Pages : flash[p] \in PageRec /\ nextFree[p] \in 0..N /\ cntUsed[p] \in Int
  BY <1>1
<1>3. \A n \in 0..N : n \in Nat
  BY SizeAssumption
<1>4. rng \in RngRec /\ pg \in Pages /\ used \in Seq(Pages) /\ free \in Seq(Pages)
  BY DEF TypeInv, TypeOK
<1>5. rng.lo \in Nat /\ rng.at \in Nat /\ rng.hi \in Nat
  BY <1>3, <1>4, Idle DEF RngRec
<1>. QED
  BY <1>2, <1>3, <1>4, <1>5, SizeAssumption

LEMMA FiniteLayout ==
  ASSUME NEW r, NEW n \in Nat, NEW C, Layout(r, n, C)
  PROVE  IsFiniteSet(C)
<1>1. IsFiniteSet(0..(n - 1))
  BY FS_Interval
<1>2. C \in SUBSET (0..(n - 1))
  BY DEF Layout
<1>. QED
  BY <1>1, <1>2, FS_Subset

LEMMA QuietNow ==
  /\ pc \notin {"delete", "copied", "data", "mark"} =>
       \A p \in Pages : Counted(p) = Used(flash[p])
  /\ pc \notin {"copy", "copied", "data"} => \A p \in Pages : Unfinished(p) = {}
  /\ \A p \in Pages : p # pg => Counted(p) = Used(flash[p]) /\ Unfinished(p) = {}
BY DEF Counted, Pending, Unfinished

LEMMA QuietNext ==
  /\ pc' \notin {"delete", "copied", "data", "mark"} =>
       \A p \in Pages : Counted(p)' = Used(flash'[p])
  /\ pc' \notin {"copy", "copied", "data"} => \A p \in Pages : Unfinished(p)' = {}
  /\ \A p \in Pages : p # pg' => Counted(p)' = Used(flash'[p]) /\ Unfinished(p)' = {}
BY DEF Counted, Pending, Unfinished

\* A step keeps the entries of a page, and which of them are counted.
Keeps(p) ==
    /\ flash'[p].ent = flash[p].ent
    /\ nextFree'[p] = nextFree[p]
    /\ Counted(p)' = Counted(p)

LEMMA PageSame ==
  ASSUME LogInv, NEW p \in Pages, PageInv(p), flash'[p].ent = flash[p].ent,
         \A i \in Idx : i >= nextFree[p] => flash'[p].es[i] = flash[p].es[i],
         \A i \in Idx : flash'[p].es[i] = "FREE" => flash[p].es[i] = "FREE",
         nextFree'[p] = nextFree[p], cntUsed'[p] = cntUsed[p],
         Counted(p)' = Counted(p), Unfinished(p) \subseteq Unfinished(p)'
  PROVE  PageInv(p)' /\ Keeps(p)
<1>1. Layout(flash'[p], nextFree[p], Counted(p))
  BY LayoutSame DEF PageInv
<1>2. Whole(flash'[p], nextFree[p], Unfinished(p))
  BY LayoutSame DEF PageInv
<1>3. Whole(flash'[p], nextFree[p], Unfinished(p)')
  BY <1>2 DEF Whole
<1>4. cntUsed'[p] = Cardinality(Counted(p)')
  BY DEF PageInv
<1>5. Touched(flash'[p], nextFree[p], Counted(p))
  <2>1. nextFree[p] \in 0..N /\ N \in Nat
    BY PageTypes DEF LogInv
  <2>2. 0..(nextFree[p] - 1) \subseteq Idx
    BY <2>1 DEF Idx
  <2>. QED
    BY <2>2 DEF PageInv, Touched
<1>. QED
  BY <1>1, <1>3, <1>4, <1>5 DEF PageInv, Keeps

\* The headers of the elements a page holds.
LiveIn(p) == Hdrs(flash[p], nextFree[p]) \cap Counted(p)

Calm == {"idle", "room", "request", "recheck", "write"}

\* Steps that leave lists, counts and entries alone.
LEMMA CalmStep ==
  ASSUME LogInv, TypeInv', pc \in Calm, pc' \in Calm \cup {"header"}, rng' = NoRng,
         UNCHANGED <<used, free, nextFree, cntUsed>>,
         \A p \in Pages : /\ flash'[p].ent = flash[p].ent /\ flash'[p].es = flash[p].es
                          /\ Holds(free, p) => flash'[p] = flash[p],
         pc' \in {"recheck", "write"} => Holds(used, pg'),
         pc' = "header" => pg' = Head(free)
  PROVE  LogInv' /\ \A p \in Pages : Keeps(p)
<1>1. Lists'
  BY DEF LogInv, Lists, Calm, Holds, Injective
<1>2. Stage'
  BY DEF Stage, Calm, InPage, Holds
<1>3. Phase'
  BY DEF Phase, Calm
<1>4. ASSUME NEW p \in Pages PROVE PageInv(p)' /\ Keeps(p)
  <2>1. PageInv(p)
    BY DEF LogInv, Calm
  <2>2. Counted(p) = Used(flash[p]) /\ Unfinished(p) = {}
    BY QuietNow DEF Calm
  <2>3. Counted(p)' = Used(flash'[p]) /\ Unfinished(p)' = {}
    BY QuietNext DEF Calm
  <2>4. Used(flash'[p]) = Used(flash[p])
    BY DEF Used
  <2>. QED
    BY <2>1, <2>2, <2>3, <2>4, PageSame
<1>. QED
  BY <1>1, <1>2, <1>3, <1>4 DEF LogInv

LEMMA CalmLog ==
  ASSUME LogInv, TypeInv',
         \/ \E k \in Keys, v \in Values : PutSame(k, v) \/ (PutStart(k, v) /\ ~Found(k))
         \/ \E k \in Keys : DelMissing(k)
         \/ SanityFail \/ HasRoom \/ MarkFull \/ RequestFails \/ RequestPage
         \/ StillNoRoom \/ RoomNow
  PROVE  LogInv' /\ \A p \in Pages : Keeps(p)
<1>1. /\ pc \in Calm /\ UNCHANGED <<used, free, nextFree, cntUsed>>
      /\ used \in Seq(Pages) /\ used # <<>> /\ flash \in [Pages -> PageRec]
      /\ free \in Seq(Pages)
  BY DEF PutSame, PutStart, DelMissing, SanityFail, HasRoom, MarkFull, RequestFails,
         RequestPage, StillNoRoom, RoomNow, ram, Calm, LogInv, TypeInv, TypeOK, Prepared
<1>2. rng = NoRng /\ (pc = "recheck" => Holds(used, pg))
  BY <1>1 DEF Calm, LogInv, Stage, InPage
<1>3. Cur \in Pages /\ Holds(used, Cur)
  <2>1. Len(used) \in DOMAIN used
    BY <1>1
  <2>. QED
    BY <1>1, <2>1 DEF Cur, Holds
<1>4. CASE MarkFull
  <2>1. /\ pc' = "request" /\ flash' = [flash EXCEPT ![Cur].st = "FULL"] /\ rng' = rng
    BY <1>4 DEF MarkFull
  <2>2. ASSUME NEW p \in Pages
        PROVE  /\ flash'[p].ent = flash[p].ent /\ flash'[p].es = flash[p].es
               /\ p # Cur => flash'[p] = flash[p]
    BY <1>1, <2>1 DEF PageRec
  <2>3. ~Holds(free, Cur)
    BY <1>3 DEF LogInv, Lists
  <2>4. \A p \in Pages : /\ flash'[p].ent = flash[p].ent /\ flash'[p].es = flash[p].es
                         /\ Holds(free, p) => flash'[p] = flash[p]
    BY <2>2, <2>3
  <2>. QED
    BY <1>1, <1>2, <2>1, <2>4, CalmStep DEF Calm
<1>5. CASE ~MarkFull
  <2>1. flash' = flash
    BY <1>5 DEF PutSame, PutStart, DelMissing, SanityFail, HasRoom, RequestFails,
         RequestPage, StillNoRoom, RoomNow
  <2>2. CASE RequestPage
    <3>1. /\ pc = "request" /\ ~NoPageToGive /\ pg' = Head(free) /\ rng' = rng
          /\ pc' = IF flash[Head(free)].st = "UNINIT" THEN "header" ELSE "erase"
      BY <2>2 DEF RequestPage
    <3>2. free # <<>>
      BY <1>1, <3>1 DEF NoPageToGive
    <3>3. Head(free) \in Pages /\ Holds(free, Head(free))
      BY <1>1, <3>2, TailList DEF LogInv, Lists
    <3>4. flash[Head(free)] = Blank
      BY <3>1, <3>3 DEF LogInv, Lists
    <3>5. pc' = "header"
      BY <3>1, <3>4 DEF Blank
    <3>. QED
      BY <1>1, <1>2, <2>1, <3>1, <3>5, CalmStep
  <2>3. CASE ~RequestPage
    <3>1. rng' = NoRng /\ pc' \in Calm
      BY <1>2, <1>5, <2>3 DEF PutSame, PutStart, DelMissing, SanityFail, HasRoom, RequestFails,
         StillNoRoom, RoomNow, Return, Calm
    <3>2. pc' \in {"recheck", "write"} => Holds(used, pg')
      BY <1>2, <1>3, <1>5, <2>3 DEF PutSame, PutStart, DelMissing, SanityFail, HasRoom,
         RequestFails, StillNoRoom, RoomNow, Return
    <3>. QED
      BY <1>1, <2>1, <3>1, <3>2, CalmStep DEF Calm
  <2>. QED
    BY <2>2, <2>3
<1>. QED
  BY <1>4, <1>5

-----------------------------------------------------------------------------
(* Deleting                                                                 *)

LEMMA DeleteStartLog ==
  ASSUME LogInv, TypeInv', NEW k \in Keys, pc = "idle", Found(k), DeleteStart(k),
         UNCHANGED <<flash, used, free, nextFree, cntUsed>>
  PROVE  LogInv' /\ \A p \in Pages : Keeps(p)
<1> DEFINE f == Find(k)
<1>1. Readable /\ TypeInv
  BY DEF LogInv, TypeInv, TypeOK, Readable
<1>2. /\ f.page \in Pages /\ f.idx \in Idx /\ f.val \in Values
      /\ f.idx \in Matches(f.page, k) /\ f.val = flash[f.page].ent[f.idx].v
      /\ \E n \in Searched : f.page = used[n]
  BY <1>1, FindType
<1>3. pc' = "delete" /\ pg' = f.page /\ rng' = ElementRange(f)
  BY DEF DeleteStart
<1>. HIDE DEF f
<1>4. /\ rng'.lo = f.idx /\ rng'.at = f.idx /\ rng'.hi = f.idx + DataLen[f.val]
  BY <1>3 DEF ElementRange
<1>5. Holds(used, f.page)
  BY <1>2 DEF Searched, Holds
<1>6. f.idx \in Used(flash[f.page]) /\ flash[f.page].ent[f.idx].t = "hdr" /\ f.idx \in Nat
  BY <1>2, Idle DEF Matches, Used
<1>7. \A p \in Pages : PageInv(p) /\ Counted(p) = Used(flash[p]) /\ Unfinished(p) = {}
  BY QuietNow DEF LogInv
<1>8. f.idx \in Hdrs(flash[f.page], nextFree[f.page])
  BY <1>2, <1>6, <1>7 DEF PageInv, Layout, Hdrs
<1>9. \A p \in Pages : Counted(p)' = Used(flash[p]) /\ Unfinished(p)' = {}
  <2>1. \A p \in Pages : Unfinished(p)' = {}
    BY <1>3, QuietNext
  <2>2. Pending' = {}
    BY <1>3, <1>4, <1>6 DEF Pending
  <2>. QED
    BY <2>1, <2>2 DEF Counted
<1>10. Lists'
  BY <1>3 DEF LogInv, Lists, Holds, Injective
<1>11. Stage'
  BY <1>3, <1>5 DEF Stage, InPage, Holds
<1>12. Deleting'
  <2>1. Hdrs(flash[pg], nextFree[pg])' = Hdrs(flash[f.page], nextFree[f.page])
    BY <1>3
  <2>2. End(flash[pg], rng.lo)' = rng'.hi
    BY <1>2, <1>3, <1>4 DEF End
  <2>3. Counted(pg)' = Used(flash[f.page])
    <3>1. Counted(pg)' = Used(flash'[pg']) \cup Pending'
      BY DEF Counted
    <3>2. Pending' = {}
      BY <1>3, <1>4, <1>6 DEF Pending
    <3>. QED
      BY <1>3, <3>1, <3>2
  <2>4. rng'.lo .. (rng'.at - 1) = {}
    BY <1>4, <1>6
  <2>. QED
    BY <1>4, <1>6, <1>8, <2>1, <2>2, <2>3, <2>4 DEF Deleting
<1>13. Phase'
  BY <1>3, <1>12 DEF Phase
<1>14. ASSUME NEW p \in Pages PROVE PageInv(p)' /\ Keeps(p)
  BY <1>7, <1>9, PageSame
<1>. QED
  BY <1>10, <1>11, <1>13, <1>14 DEF LogInv

\* What SetState does to the USED entries of a page.
LEMMA Marked ==
  ASSUME flash \in [Pages -> PageRec], NEW p \in Pages, NEW i \in Idx, NEW s \in EntryStates,
         SetState(p, i, s)
  PROVE  /\ \A q \in Pages : q # p => flash'[q] = flash[q]
         /\ flash'[p].ent = flash[p].ent
         /\ flash'[p].es[i] = NorState(flash[p].es[i], s)
         /\ \A j \in Idx : j # i => flash'[p].es[j] = flash[p].es[j]
         /\ flash'[p].st = flash[p].st
<1>1. flash' = [flash EXCEPT ![p] = [flash[p] EXCEPT !.es =
                   [flash[p].es EXCEPT ![i] = NorState(flash[p].es[i], s)]]]
  BY DEF SetState
<1>2. flash[p] \in PageRec /\ flash[p].es \in [Idx -> EntryStates]
  BY DEF PageRec
<1>3. flash'[p] = [flash[p] EXCEPT !.es = [flash[p].es EXCEPT ![i] = NorState(flash[p].es[i], s)]]
  BY <1>1
<1>4. \A q \in Pages : q # p => flash'[q] = flash[q]
  BY <1>1
<1>5. flash'[p].es = [flash[p].es EXCEPT ![i] = NorState(flash[p].es[i], s)]
  BY <1>2, <1>3 DEF PageRec
<1>6. flash'[p].ent = flash[p].ent /\ flash'[p].st = flash[p].st
  BY <1>2, <1>3 DEF PageRec
<1>. QED
  BY <1>2, <1>4, <1>5, <1>6

LEMMA DeleteLog ==
  ASSUME LogInv, TypeInv', MarkUpdated \/ Deleted
  PROVE  /\ LogInv'
         /\ \A p \in Pages : p # pg \/ MarkUpdated => Keeps(p)
         /\ Deleted => /\ flash'[pg].ent = flash[pg].ent
                       /\ nextFree'[pg] = nextFree[pg]
                       /\ Used(flash'[pg]) = Counted(pg) \ (rng.lo .. rng.hi)
<1> DEFINE r == flash[pg]
           n == nextFree[pg]
<1>1. /\ pc = "delete" /\ SetState(pg, rng.at, "UPDATED") /\ TypeInv /\ Deleting
      /\ rng.at <= rng.hi /\ flash \in [Pages -> PageRec] /\ Holds(used, pg)
      /\ \A p \in Pages : PageInv(p)
  BY DEF MarkUpdated, Deleted, LogInv, TypeInv, TypeOK, Prepared, Phase, Stage, InPage
<1>2. /\ pg \in Pages /\ rng.lo \in Nat /\ rng.at \in Nat /\ rng.hi \in Nat /\ N \in Nat
      /\ r \in PageRec /\ n \in 0..N /\ n \in Nat
  BY <1>1, PageTypes
<1>3. /\ rng.lo \in Hdrs(r, n) /\ rng.hi = End(r, rng.lo) /\ rng.lo <= rng.at
      /\ rng.lo \in Counted(pg) /\ \A i \in rng.lo .. (rng.at - 1) : r.es[i] = "UPDATED"
  BY <1>1 DEF Deleting
<1>4. Layout(r, n, Counted(pg)) /\ Whole(r, n, {}) /\ Unfinished(pg) = {}
  BY <1>1, <1>2, QuietNow DEF PageInv
<1>5. rng.hi < n /\ rng.lo < n
  <2>1. rng.hi < n
    BY <1>3, <1>4 DEF Whole
  <2>. QED
    BY <1>1, <1>2, <1>3, <2>1
<1>6. \A i \in rng.lo .. rng.hi : i \in Counted(pg) /\ i \in Idx /\ i < n
  <2> TAKE i \in rng.lo .. rng.hi
  <2>1. i \in Nat /\ rng.lo <= i /\ i <= End(r, rng.lo) /\ i \in 0..(n - 1) /\ i \in Idx
    BY <1>2, <1>3, <1>5 DEF Idx
  <2>2. i # rng.lo => i \in Counted(pg)
    BY <1>2, <1>3, <1>4, <2>1 DEF Layout
  <2>. QED
    BY <1>2, <1>3, <2>1, <2>2
<1>7. rng.at \in rng.lo .. rng.hi /\ rng.at \in Idx
  BY <1>1, <1>2, <1>3, <1>6
<1>8. /\ \A q \in Pages : q # pg => flash'[q] = flash[q]
      /\ flash'[pg].ent = r.ent /\ flash'[pg].es[rng.at] = "UPDATED"
      /\ \A j \in Idx : j # rng.at => flash'[pg].es[j] = r.es[j]
  <2>1. "UPDATED" \in EntryStates
    BY DEF EntryStates
  <2>2. NorState(r.es[rng.at], "UPDATED") = "UPDATED"
    BY DEF NorState
  <2>. HIDE DEF r
  <2>. QED
    BY <1>1, <1>2, <1>7, <2>1, <2>2, Marked DEF r
<1>9. \A i \in Idx : i >= n => flash'[pg].es[i] = r.es[i]
  <2> SUFFICES ASSUME NEW i \in Idx, i >= n PROVE i # rng.at
    BY <1>8
  <2>. QED
    BY <1>2, <1>6, <1>7, Idle
<1>20. \A i \in Idx : flash'[pg].es[i] = "FREE" => r.es[i] = "FREE"
  BY <1>8
<1>10. Counted(pg) = Used(r) \cup (rng.lo .. (rng.at - 1))
  BY <1>1 DEF Counted, Pending
<1>11. Used(flash'[pg]) = Used(r) \ {rng.at}
  BY <1>7, <1>8 DEF Used
<1>12. ~Holds(free, pg)
  BY <1>1, <1>2 DEF LogInv, Lists
<1>13. ASSUME UNCHANGED <<used, free>> PROVE Lists'
  BY <1>1, <1>8, <1>12, <1>13 DEF LogInv, Lists, Holds, Injective
<1>14. CASE MarkUpdated
  <2>1. /\ rng' = [rng EXCEPT !.at = rng.at + 1] /\ pc' = "delete" /\ rng.at < rng.hi
        /\ UNCHANGED <<used, free, nextFree, cntUsed, pg>>
    BY <1>1, <1>14 DEF MarkUpdated, ram
  <2>2. rng'.lo = rng.lo /\ rng'.at = rng.at + 1 /\ rng'.hi = rng.hi
    BY <1>1, <2>1, PageTypes DEF RngRec
  <2>3. Counted(pg)' = Used(flash'[pg]) \cup (rng.lo .. rng.at)
    <3>1. Counted(pg)' = Used(flash'[pg']) \cup (rng'.lo .. (rng'.at - 1))
      BY <2>1 DEF Counted, Pending
    <3>2. rng'.at - 1 = rng.at
      BY <1>2, <2>2
    <3>. QED
      BY <2>1, <2>2, <3>1, <3>2
  <2>4. Counted(pg)' = Counted(pg)
    <3>1. rng.lo .. rng.at = (rng.lo .. (rng.at - 1)) \cup {rng.at}
      BY <1>2, <1>3
    <3>2. rng.at \in Counted(pg)
      BY <1>6, <1>7
    <3>. QED
      BY <1>10, <1>11, <2>3, <3>1, <3>2
  <2>5. ASSUME NEW p \in Pages PROVE PageInv(p)' /\ Keeps(p)
    <3>1. Unfinished(p) = {} /\ Unfinished(p)' = {}
      BY <1>1, <2>1, QuietNow, QuietNext
    <3>2. CASE p = pg
      BY <1>1, <1>8, <1>9, <1>20, <2>1, <2>4, <3>1, <3>2, PageSame
    <3>3. CASE p # pg
      <4>1. Counted(p) = Used(flash[p]) /\ Counted(p)' = Used(flash'[p])
        BY <2>1, <3>3, QuietNow, QuietNext
      <4>. QED
        BY <1>1, <1>8, <2>1, <3>1, <3>3, <4>1, PageSame
    <3>. QED
      BY <3>2, <3>3
  <2>6. Stage'
    BY <1>1, <2>1 DEF Stage, InPage
  <2>7. Deleting'
    <3>1. Hdrs(flash'[pg], n) = Hdrs(r, n) /\ End(flash'[pg], rng.lo) = End(r, rng.lo)
      BY <1>8, <1>9, LayoutSame
    <3>2. ASSUME NEW i \in rng.lo .. ((rng.at + 1) - 1) PROVE flash'[pg].es[i] = "UPDATED"
      <4>1. i = rng.at \/ (i \in rng.lo .. (rng.at - 1) /\ i \in rng.lo .. rng.hi /\ i # rng.at)
        BY <1>1, <1>2
      <4>. QED
        BY <1>3, <1>6, <1>8, <4>1
    <3>3. rng.lo <= rng.at + 1
      BY <1>2, <1>3
    <3>. QED
      BY <1>3, <2>1, <2>2, <2>4, <3>1, <3>2, <3>3 DEF Deleting
  <2>8. Phase'
    BY <2>1, <2>7 DEF Phase
  <2>9. ~Deleted
    BY <1>2, <2>1 DEF Deleted
  <2>. QED
    BY <1>13, <2>1, <2>5, <2>6, <2>8, <2>9 DEF LogInv
<1>15. CASE Deleted
  <2>1. /\ rng.at = rng.hi /\ pc' \in {"idle", "room"} /\ rng' = NoRng
        /\ cntUsed' = [cntUsed EXCEPT ![pg] = cntUsed[pg] - RangeSize(rng)]
        /\ UNCHANGED <<used, free, nextFree>>
    BY <1>15 DEF Deleted, Return
  <2>2. \A p \in Pages : Counted(p)' = Used(flash'[p]) /\ Unfinished(p)' = {}
    BY <2>1, QuietNext
  <2> DEFINE D == rng.lo .. End(r, rng.lo)
             C == Counted(pg)
  <2>3. Used(flash'[pg]) = C \ D
    <3>1. D = (rng.lo .. (rng.at - 1)) \cup {rng.at}
      BY <1>2, <1>3, <2>1
    <3>2. \A i \in rng.lo .. (rng.at - 1) : i \notin Used(r)
      BY <1>3 DEF Used
    <3>. QED
      BY <1>10, <1>11, <3>1, <3>2
  <2>4. Layout(r, n, C \ D)
    BY <1>2, <1>3, <1>4, LayoutDeleted
  <2>5. Layout(flash'[pg], n, C \ D) /\ Whole(flash'[pg], n, {})
    BY <1>4, <1>8, <1>9, <2>4, LayoutSame
  <2>6. Cardinality(C \ D) = Cardinality(C) - RangeSize(rng)
    <3>1. IsFiniteSet(C)
      BY <1>2, <1>4, FiniteLayout
    <3>2. C \cap D = D
      BY <1>3, <1>6
    <3>3. Cardinality(D) = RangeSize(rng)
      <4>1. rng.lo \in Int /\ rng.hi \in Int /\ rng.lo <= rng.hi
        BY <1>2, <1>3, <2>1
      <4>2. Cardinality(rng.lo .. rng.hi) = rng.hi - rng.lo + 1
        BY <4>1, FS_Interval
      <4>. QED
        BY <1>3, <4>2 DEF RangeSize
    <3>. HIDE DEF C, D
    <3>4. Cardinality(C \ D) = Cardinality(C) - Cardinality(C \cap D)
      BY <3>1, FS_Difference
    <3>. QED
      BY <3>2, <3>3, <3>4
  <2>7. cntUsed'[pg] = cntUsed[pg] - RangeSize(rng) /\ \A p \in Pages : p # pg => cntUsed'[p] = cntUsed[p]
    BY <1>1, <1>2, <2>1 DEF TypeInv, TypeOK
  <2>8. cntUsed[pg] = Cardinality(C)
    BY <1>1, <1>2 DEF PageInv
  <2>12. Touched(flash'[pg], n, C \ D)
    <3> SUFFICES ASSUME NEW i \in 0..(n - 1), flash'[pg].es[i] = "FREE" PROVE i \in C \ D
      BY DEF Touched
    <3>1. i \in Idx
      BY <1>2 DEF Idx
    <3>2. r.es[i] = "FREE" /\ i # rng.at
      BY <1>8, <1>20, <3>1
    <3>3. i \in C
      BY <1>1, <1>2, <3>2 DEF PageInv, Touched
    <3>4. D = (rng.lo .. (rng.at - 1)) \cup {rng.at}
      BY <1>2, <1>3, <2>1
    <3>. QED
      BY <1>3, <3>2, <3>3, <3>4
  <2>9. ASSUME NEW p \in Pages PROVE PageInv(p)' /\ (p # pg => Keeps(p))
    <3>1. CASE p = pg
      <4>1. Counted(p)' = C \ D /\ Unfinished(p)' = {} /\ nextFree'[p] = n
            /\ cntUsed'[p] = Cardinality(C \ D)
        BY <2>1, <2>2, <2>3, <2>6, <2>7, <2>8, <3>1
      <4>. QED
        BY <2>5, <2>12, <3>1, <4>1 DEF PageInv
    <3>2. CASE p # pg
      <4>1. Counted(p) = Used(flash[p]) /\ Unfinished(p) = {}
        BY <3>2, QuietNow
      <4>. QED
        BY <1>1, <1>8, <2>1, <2>2, <2>7, <3>2, <4>1, PageSame
    <3>. QED
      BY <3>1, <3>2
  <2>10. Stage'
    BY <2>1 DEF Stage, InPage
  <2>11. Phase'
    BY <2>1 DEF Phase
  <2>13. ~MarkUpdated
    BY <1>2, <2>1 DEF MarkUpdated
  <2>14. D = rng.lo .. rng.hi
    BY <1>3
  <2>. QED
    BY <1>8, <1>13, <2>1, <2>3, <2>9, <2>10, <2>11, <2>13, <2>14 DEF LogInv
<1>. QED
  BY <1>14, <1>15

-----------------------------------------------------------------------------
(* A new page                                                               *)

LEMMA HeaderLog ==
  ASSUME LogInv, TypeInv', WriteHeader
  PROVE  /\ LogInv' /\ nextFree'[pg] = 0 /\ flash'[pg].st = "ACTIVE"
         /\ \A p \in Pages : p # pg => Keeps(p) /\ flash'[p] = flash[p]
         /\ \A p : Holds(used', p) <=> Holds(used, p) \/ p = pg
<1>1. /\ pc = "header" /\ TypeInv /\ free # <<>> /\ pg = Head(free) /\ rng = NoRng
      /\ Injective(free) /\ Injective(used) /\ \A p \in Pages : PageInv(p)
      /\ flash \in [Pages -> PageRec] /\ nextFree \in [Pages -> 0..N] /\ cntUsed \in [Pages -> Int]
  BY DEF WriteHeader, LogInv, TypeInv, TypeOK, Prepared, Stage, Lists
<1>2. pg \in Pages /\ used \in Seq(Pages) /\ free \in Seq(Pages)
  BY <1>1, PageTypes
<1>3. free' = Tail(free) /\ used' = Append(used, pg)
  BY DEF WriteHeader
<1>4. /\ Injective(Tail(free)) /\ Holds(free, pg)
      /\ \A x : Holds(Tail(free), x) <=> Holds(free, x) /\ x # pg
  BY <1>1, <1>2, TailList
<1>5. ~Holds(used, pg) /\ flash[pg] = Blank
  BY <1>1, <1>2, <1>4 DEF LogInv, Lists
<1>6. /\ Injective(Append(used, pg))
      /\ \A x : Holds(Append(used, pg), x) <=> Holds(used, x) \/ x = pg
  BY <1>1, <1>2, <1>5, AppendList
<1>7. /\ \A p \in Pages : p # pg => /\ flash'[p] = flash[p] /\ nextFree'[p] = nextFree[p]
                                    /\ cntUsed'[p] = cntUsed[p]
      /\ nextFree'[pg] = 0 /\ cntUsed'[pg] = 0
  BY <1>1, <1>2 DEF WriteHeader
<1>8. flash'[pg].ent = Blank.ent /\ flash'[pg].es = Blank.es /\ flash'[pg].st = "ACTIVE"
  <2> DEFINE n == IF used = <<>> THEN 0 ELSE flash[Cur].seq + 1
  <2>1. flash' = [flash EXCEPT ![pg].st = "ACTIVE", ![pg].seq = n]
    BY DEF WriteHeader
  <2>. HIDE DEF n
  <2>2. flash'[pg] = [flash[pg] EXCEPT !.st = "ACTIVE", !.seq = n]
    BY <1>1, <1>2, <2>1
  <2>3. flash[pg] \in PageRec
    BY <1>1, <1>2
  <2>. QED
    BY <1>5, <2>2, <2>3 DEF PageRec
<1>9. /\ pc' \in {"idle", "candidate", "recheck"} /\ rng' = NoRng
      /\ pc' # "idle" => pg' = pg /\ vic' = vic
      /\ pc' = "candidate" => op.kind = "put" /\ free' = <<>>
  BY <1>1 DEF WriteHeader, Return
<1>10. ASSUME NEW p \in Pages PROVE PageInv(p)' /\ (p # pg => Keeps(p))
  <2>1. Counted(p)' = Used(flash'[p]) /\ Unfinished(p)' = {}
    BY <1>9, QuietNext
  <2>2. CASE p = pg
    <3>1. /\ Layout(flash'[p], 0, {}) /\ Touched(flash'[p], 0, {}) /\ Whole(flash'[p], 0, {})
          /\ Used(flash'[p]) = {}
      BY <1>8, <2>2, LayoutBlank
    <3>2. Cardinality({}) = 0
      BY FS_EmptySet
    <3>. QED
      BY <1>7, <2>1, <2>2, <3>1, <3>2 DEF PageInv
  <2>3. CASE p # pg
    <3>1. Counted(p) = Used(flash[p]) /\ Unfinished(p) = {}
      BY <2>3, QuietNow
    <3>. QED
      BY <1>1, <1>7, <2>1, <2>3, <3>1, PageSame
  <2>. QED
    BY <2>2, <2>3
<1>11. Lists'
  <2>1. Injective(used') /\ Injective(free')
    BY <1>3, <1>4, <1>6
  <2>2. ASSUME NEW p \in Pages PROVE ~(Holds(used', p) /\ Holds(free', p))
    BY <1>3, <1>4, <1>6 DEF LogInv, Lists
  <2>3. ASSUME NEW p \in Pages, Holds(free', p) PROVE flash'[p] = Blank
    BY <1>1, <1>3, <1>4, <1>7, <2>3 DEF LogInv, Lists
  <2>. QED
    BY <2>1, <2>2, <2>3 DEF Lists, Injective, Holds
<1>12. Stage'
  <2>1. pc' # "idle" => Holds(used', pg')
    BY <1>3, <1>6, <1>9
  <2>2. pc' = "candidate" => pg' # vic'
    <3> HAVE pc' = "candidate"
    <3>1. Len(free) = 1
      <4>1. Len(free) \in Nat
        BY <1>2
      <4>2. free \in Seq(Pages) /\ free # <<>>
        BY <1>1, <1>2
      <4>3. Len(Tail(free)) = Len(free) - 1
        BY <4>2
      <4>4. free' = <<>>
        BY <1>9
      <4>5. Len(free') = 0
        BY <4>4
      <4>. QED
        BY <1>3, <4>1, <4>3, <4>5
    <3>2. \E n \in DOMAIN used : used[n] = vic
      BY <1>1, <1>9, <3>1 DEF TypeInv, Prepared
    <3>3. Holds(used, vic)
      BY <3>2 DEF Holds
    <3>. QED
      BY <1>5, <1>9, <3>3
  <2>3. pc' = "candidate" => nextFree'[pg'] = 0
    BY <1>7, <1>9
  <2>. QED
    BY <1>9, <2>1, <2>2, <2>3 DEF Stage, InPage, Holds
<1>13. Phase'
  BY <1>9 DEF Phase
<1>. QED
  BY <1>3, <1>6, <1>7, <1>8, <1>9, <1>10, <1>11, <1>12, <1>13 DEF LogInv

LEMMA CandidateLog ==
  ASSUME LogInv, TypeInv', MarkCandidate
  PROVE  /\ LogInv' /\ \A p \in Pages : Keeps(p)
         /\ \A p : Holds(used', p) <=> Holds(used, p) /\ p # vic
         /\ \A p \in Pages : p # vic => flash'[p] = flash[p]
<1>1. /\ pc = "candidate" /\ pc' = "copy" /\ TypeInv /\ flash \in [Pages -> PageRec]
      /\ used' = Extract(used, vic) /\ free' = Append(free, vic)
      /\ flash' = [flash EXCEPT ![vic].st = "CANDIDATE"]
      /\ UNCHANGED <<nextFree, cntUsed, op, pg, vic, rng>>
      /\ \A p \in Pages : PageInv(p)
  BY DEF MarkCandidate, LogInv, TypeInv, TypeOK
<1>2. vic \in Pages /\ Holds(used, vic) /\ pg # vic /\ nextFree[pg] = 0 /\ rng = NoRng
      /\ Holds(used, pg) /\ Injective(used) /\ Injective(free)
  BY <1>1 DEF LogInv, TypeInv, Prepared, Stage, InPage, Holds, Lists
<1>3. pg \in Pages /\ used \in Seq(Pages) /\ free \in Seq(Pages)
  BY <1>1, PageTypes
<1>4. /\ Injective(used')
      /\ \A x : Holds(used', x) <=> Holds(used, x) /\ x # vic
  BY <1>1, <1>2, <1>3, ExtractList
<1>5. ~Holds(free, vic)
  BY <1>2 DEF LogInv, Lists
<1>6. Injective(free') /\ \A x : Holds(free', x) <=> Holds(free, x) \/ x = vic
  BY <1>1, <1>2, <1>3, <1>5, AppendList
<1>7. \A p \in Pages : /\ flash'[p].ent = flash[p].ent /\ flash'[p].es = flash[p].es
                       /\ p # vic => flash'[p] = flash[p]
  BY <1>1 DEF PageRec
<1>8. \A p \in Pages : /\ Counted(p) = Used(flash[p]) /\ Unfinished(p) = {}
                       /\ Counted(p)' = Used(flash'[p]) /\ Used(flash'[p]) = Used(flash[p])
  BY <1>1, <1>7, QuietNow, QuietNext DEF Used
<1>9. ASSUME NEW p \in Pages PROVE PageInv(p)' /\ Keeps(p)
  BY <1>1, <1>7, <1>8, PageSame
<1>10. Lists'
  <2>1. ASSUME NEW p \in Pages PROVE ~(Holds(used', p) /\ Holds(free', p))
    BY <1>4, <1>6 DEF LogInv, Lists
  <2>2. ASSUME NEW p \in Pages, Holds(free', p) PROVE flash'[p] = Blank \/ p = vic'
    <3>1. CASE p = vic
      BY <1>1, <3>1
    <3>2. CASE p # vic
      <4>1. Holds(free, p)
        BY <1>6, <2>2, <3>2
      <4>. QED
        BY <1>1, <1>7, <3>2, <4>1 DEF LogInv, Lists
    <3>. QED
      BY <3>1, <3>2
  <2>. QED
    BY <1>1, <1>4, <1>6, <2>1, <2>2 DEF Lists, Injective, Holds
<1>11. Stage'
  <2>1. Holds(used', pg') /\ pg' # vic'
    BY <1>1, <1>2, <1>4
  <2>. QED
    BY <1>1, <2>1 DEF Stage, InPage, Holds
<1>12. Copying'
  <2>1. Counted(pg) = {}
    <3>1. Counted(pg) \subseteq 0..(0 - 1)
      BY <1>1, <1>2, <1>3 DEF PageInv, Layout
    <3>. QED
      BY <3>1
  <2>2. Counted(pg)' = {}
    <3>1. Counted(pg)' = Used(flash'[pg'])
      BY <1>1, <1>3 DEF Counted, Pending
    <3>. QED
      BY <1>1, <1>3, <1>8, <2>1, <3>1
  <2>3. 0 .. (nextFree'[pg'] - 1) = {}
    BY <1>1, <1>2
  <2>4. rng'.at = 0
    BY <1>1, <1>2, Idle
  <2>5. \A g \in Hdrs(flash'[vic'], nextFree'[vic']) : ~(g < rng'.at)
    BY <2>4 DEF Hdrs
  <2>. QED
    BY <2>2, <2>3, <2>5 DEF Copying
<1>13. Phase'
  BY <1>1, <1>12 DEF Phase
<1>. QED
  BY <1>1, <1>4, <1>7, <1>9, <1>10, <1>11, <1>13 DEF LogInv

-----------------------------------------------------------------------------
(* Copying                                                                  *)

\* What the copying loop works on.
LEMMA CopyFacts ==
  ASSUME LogInv, pc = "copy"
  PROVE  /\ pg \in Pages /\ vic \in Pages /\ pg # vic /\ ~Holds(free, pg)
         /\ flash \in [Pages -> PageRec]
         /\ flash[pg] \in PageRec /\ flash[vic] \in PageRec
         /\ nextFree[pg] \in 0..N /\ nextFree[vic] \in 0..N
         /\ nextFree[pg] \in Nat /\ nextFree[vic] \in Nat /\ rng.at \in Nat /\ N \in Nat
         /\ nextFree[pg] <= rng.at
         /\ Layout(flash[vic], nextFree[vic], Used(flash[vic])) /\ Whole(flash[vic], nextFree[vic], {})
         /\ Layout(flash[pg], nextFree[pg], 0..(nextFree[pg] - 1))
         /\ Counted(pg) = 0..(nextFree[pg] - 1) /\ Used(flash[pg]) = 0..(nextFree[pg] - 1)
         /\ \A p \in Pages : PageInv(p)
<1>1. TypeInv /\ (\A p \in Pages : PageInv(p)) /\ Copying /\ flash \in [Pages -> PageRec]
  BY DEF LogInv, Phase, TypeInv, TypeOK
<1>2. vic \in Pages /\ nextFree[pg] <= rng.at /\ pg # vic /\ Holds(used, pg)
  BY <1>1 DEF TypeInv, Prepared, LogInv, Stage, InPage
<1>3. /\ pg \in Pages /\ flash[pg] \in PageRec /\ flash[vic] \in PageRec
      /\ nextFree[pg] \in 0..N /\ nextFree[vic] \in 0..N
      /\ nextFree[pg] \in Nat /\ nextFree[vic] \in Nat /\ rng.at \in Nat /\ N \in Nat
  BY <1>1, <1>2, PageTypes
<1>4. Counted(vic) = Used(flash[vic]) /\ Unfinished(vic) = {} /\ Counted(pg) = Used(flash[pg])
  BY <1>2, <1>3, QuietNow
<1>5. ~Holds(free, pg)
  BY <1>2, <1>3 DEF LogInv, Lists
<1>6. Counted(pg) = 0..(nextFree[pg] - 1)
  BY <1>1 DEF Copying
<1>7. Layout(flash[vic], nextFree[vic], Used(flash[vic])) /\ Whole(flash[vic], nextFree[vic], {})
  BY <1>1, <1>2, <1>4 DEF PageInv
<1>8. Layout(flash[pg], nextFree[pg], 0..(nextFree[pg] - 1))
  BY <1>1, <1>3, <1>6 DEF PageInv
<1>. QED
  BY <1>1, <1>2, <1>3, <1>4, <1>5, <1>6, <1>7, <1>8

\* In the middle of an element of the victim, the loop copies its next entry next.
LEMMA Midway ==
  ASSUME LogInv, pc = "copy", NEW g \in Hdrs(flash[vic], nextFree[vic]),
         g \in Used(flash[vic]), g < rng.at, rng.at <= End(flash[vic], g)
  PROVE  /\ rng.at \in ToCopy /\ rng.at \in Used(flash[vic]) /\ rng.at \in Idx
         /\ flash[vic].ent[rng.at] = Data(flash[vic].ent[g].v, rng.at - g)
<1> DEFINE V == flash[vic]
           n == nextFree[vic]
<1>1. V \in PageRec /\ n \in 0..N /\ n \in Nat /\ N \in Nat /\ rng.at \in Nat
      /\ Layout(V, n, Used(V)) /\ Whole(V, n, {})
  BY CopyFacts
<1>2. End(V, g) < n /\ End(V, g) \in Nat
  BY <1>1, EndType DEF Whole
<1>3. rng.at \in 0..(n - 1) /\ rng.at \in Idx
  BY <1>1, <1>2 DEF Idx
<1>4. V.ent[rng.at] = Data(V.ent[g].v, rng.at - g) /\ rng.at \in Used(V)
  BY <1>1, <1>3 DEF Layout
<1>5. rng.at \in rng.at..(N - 1)
  BY <1>1, <1>3 DEF Idx
<1>. QED
  BY <1>3, <1>4, <1>5 DEF ToCopy, Used

\* An element that is not complete in the new page is one the loop is in the middle of.
LEMMA Interrupted ==
  ASSUME LogInv, pc = "copy", NEW h \in Hdrs(flash[pg], nextFree[pg]),
         ~(End(flash[pg], h) < nextFree[pg])
  PROVE  \E g \in Hdrs(flash[vic], nextFree[vic]) :
           g \in Used(flash[vic]) /\ g < rng.at /\ rng.at <= End(flash[vic], g)
<1> DEFINE V == flash[vic]
           D == flash[pg]
           f == nextFree[pg]
<1>1. /\ D \in PageRec /\ V \in PageRec /\ f \in 0..N /\ f \in Nat /\ nextFree[vic] \in 0..N
      /\ rng.at \in Nat /\ pg \in Pages /\ PageInv(pg)
  BY CopyFacts
<1>2. h \in Unfinished(pg)
  BY <1>1 DEF PageInv, Whole
<1>3. CopyOf(h)
  BY <1>2 DEF Unfinished
<1>4. PICK g \in Hdrs(V, nextFree[vic]) :
         g \in Used(V) /\ rng.at - g = f - h /\ V.ent[g] = D.ent[h]
  BY <1>3 DEF CopyOf
<1>5. h \in Nat /\ h < f /\ DataLen[D.ent[h].v] \in Nat /\ End(D, h) = h + DataLen[D.ent[h].v]
  BY <1>1, EndType DEF End
<1>6. g \in Nat /\ End(V, g) = g + DataLen[D.ent[h].v]
  BY <1>1, <1>4, EndType DEF End
<1>7. g < rng.at /\ rng.at <= End(V, g)
  <2>1. h + DataLen[D.ent[h].v] >= f
    BY <1>1, <1>5
  <2>. HIDE DEF D, f, V
  <2>. QED
    BY <1>1, <1>4, <1>5, <1>6, <2>1
<1>. QED
  BY <1>4, <1>7

\* Entry i of the victim, the first one USED from rng.at on, is appended.
Copied(i) ==
    /\ i >= rng.at /\ rng'.at = i + 1
    /\ i < nextFree[vic] /\ i \in Used(flash[vic])
    /\ \A j \in Used(flash[vic]) : j >= rng.at => i <= j
    /\ nextFree[pg] \in Idx /\ nextFree'[pg] = nextFree[pg] + 1
    /\ flash'[pg].ent[nextFree[pg]] = flash[vic].ent[i]
    /\ \A j \in Idx : j # nextFree[pg] => flash'[pg].ent[j] = flash[pg].ent[j]
    /\ Counted(pg) = 0 .. (nextFree[pg] - 1) /\ Counted(pg)' = 0 .. nextFree[pg]

LEMMA CopyLog ==
  ASSUME LogInv, TypeInv', CopyEntry
  PROVE  /\ LogInv'
         /\ \A p \in Pages : p # pg => Keeps(p)
         /\ \E i \in Idx : Copied(i)
<1> DEFINE V == flash[vic]
           D == flash[pg]
           Q == flash'[pg]
           f == nextFree[pg]
           n == nextFree[vic]
           i == Least(ToCopy)
           e == V.ent[i]
<1>1. /\ pc = "copy" /\ pc' = "copied" /\ ToCopy # {} /\ UNCHANGED <<used, free, op, pg, vic>>
      /\ nextFree' = [nextFree EXCEPT ![pg] = f + 1]
      /\ cntUsed' = [cntUsed EXCEPT ![pg] = cntUsed[pg] + 1]
      /\ rng' = [rng EXCEPT !.at = i + 1]
      /\ \E x \in Nor(D.ent[f], e) : flash' = [flash EXCEPT ![pg].ent[f] = x]
  BY DEF CopyEntry
<1>2. /\ pg \in Pages /\ vic \in Pages /\ pg # vic /\ ~Holds(free, pg)
      /\ flash \in [Pages -> PageRec] /\ D \in PageRec /\ V \in PageRec
      /\ f \in 0..N /\ n \in 0..N /\ f \in Nat /\ n \in Nat /\ rng.at \in Nat /\ N \in Nat
      /\ f <= rng.at
      /\ Layout(V, n, Used(V)) /\ Whole(V, n, {})
      /\ Layout(D, f, 0..(f - 1))
      /\ Counted(pg) = 0..(f - 1) /\ Used(D) = 0..(f - 1)
      /\ \A p \in Pages : PageInv(p)
  BY <1>1, CopyFacts
<1>3. ToCopy \subseteq Nat /\ \A j \in ToCopy : j >= rng.at /\ j \in Idx /\ j \in Used(V)
  BY <1>2 DEF ToCopy, Idx, Used
<1>4. i \in ToCopy /\ \A j \in ToCopy : i <= j
  BY <1>1, <1>3, LeastNat
<1>. HIDE DEF i
<1>5. /\ i \in Nat /\ i >= rng.at /\ i \in Idx /\ i \in Used(V) /\ i < N /\ f < N /\ f \in Idx
      /\ i \in 0..(n - 1)
  <2>1. i \in Nat /\ i >= rng.at /\ i \in Idx /\ i \in Used(V)
    BY <1>3, <1>4
  <2>2. i < N /\ f < N /\ f \in Idx
    BY <1>2, <2>1 DEF Idx
  <2>3. i \in 0..(n - 1)
    BY <1>2, <2>1 DEF Layout
  <2>. QED
    BY <2>1, <2>2, <2>3
<1>6. e \in Entries
  BY <1>2, <1>5 DEF PageRec
<1>7. D.ent[f] = Erased /\ D.es[f] = "FREE"
  BY <1>2, <1>5 DEF Layout
<1>8. flash' = [flash EXCEPT ![pg].ent[f] = e]
  BY <1>1, <1>7 DEF Nor
<1>9. /\ Q.ent = [D.ent EXCEPT ![f] = e] /\ Q.es = D.es /\ Q \in PageRec
      /\ \A p \in Pages : p # pg => flash'[p] = flash[p]
  <2>1. flash' = [flash EXCEPT ![pg] = [D EXCEPT !.ent = [D.ent EXCEPT ![f] = e]]]
    BY <1>8
  <2>2. Q = [D EXCEPT !.ent = [D.ent EXCEPT ![f] = e]]
    BY <1>2, <2>1
  <2>3. \A p \in Pages : p # pg => flash'[p] = flash[p]
    BY <1>2, <2>1
  <2>4. D.ent \in [Idx -> Entries]
    BY <1>2 DEF PageRec
  <2>5. [D.ent EXCEPT ![f] = e] \in [Idx -> Entries]
    BY <1>6, <2>4
  <2>6. Q.ent = [D.ent EXCEPT ![f] = e] /\ Q.es = D.es /\ Q \in PageRec
    <3>. HIDE DEF D, e
    <3>. QED
      BY <1>2, <2>2, <2>5 DEF PageRec
  <2>. QED
    BY <2>3, <2>6
<1>10. Q.ent[f] = e /\ \A j \in Idx : j # f => Q.ent[j] = D.ent[j]
  <2>1. D.ent \in [Idx -> Entries]
    BY <1>2 DEF PageRec
  <2>. HIDE DEF D, Q, e
  <2>. QED
    BY <1>5, <1>9, <2>1
<1>11. /\ rng'.at = i + 1 /\ nextFree'[pg] = f + 1 /\ cntUsed'[pg] = cntUsed[pg] + 1
       /\ \A p \in Pages : p # pg => nextFree'[p] = nextFree[p] /\ cntUsed'[p] = cntUsed[p]
  <2>1. rng \in RngRec /\ nextFree \in [Pages -> 0..N] /\ cntUsed \in [Pages -> Int]
    BY DEF LogInv, TypeInv, TypeOK
  <2>. QED
    BY <1>1, <1>2, <2>1 DEF RngRec
<1>12. Counted(pg)' = 0..f
  <2>1. Counted(pg)' = Used(flash'[pg']) \cup {nextFree'[pg'] - 1}
    BY <1>1 DEF Counted, Pending
  <2>2. Used(Q) = Used(D)
    BY <1>9 DEF Used
  <2>3. nextFree'[pg] - 1 = f
    BY <1>2, <1>11
  <2>4. 0..f = 0..(f - 1) \cup {f}
    BY <1>2
  <2>. QED
    BY <1>1, <1>2, <2>1, <2>2, <2>3, <2>4
<1> DEFINE U == {h \in Hdrs(Q, f + 1) :
                   \E g \in Hdrs(V, n) : /\ g \in Used(V) /\ (i + 1) - g = (f + 1) - h
                                         /\ V.ent[g] = Q.ent[h]}
<1>13. Unfinished(pg)' = U
  <2>1. Unfinished(pg)' = {h \in Hdrs(flash'[pg'], nextFree'[pg']) : CopyOf(h)'}
    BY <1>1 DEF Unfinished
  <2>2. flash'[vic] = V /\ nextFree'[vic] = n
    BY <1>2, <1>9, <1>11
  <2>3. \A h : CopyOf(h)' <=> \E g \in Hdrs(V, n) : /\ g \in Used(V)
                                                   /\ (i + 1) - g = (f + 1) - h
                                                   /\ V.ent[g] = Q.ent[h]
    <3>1. /\ flash'[vic'] = V /\ nextFree'[vic'] = n /\ flash'[pg'] = Q
          /\ nextFree'[pg'] = f + 1 /\ rng'.at = i + 1
      BY <1>1, <1>11, <2>2
    <3>2. \A h : CopyOf(h)' <=> \E g \in Hdrs(flash'[vic'], nextFree'[vic']) :
                                   /\ g \in Used(flash'[vic'])
                                   /\ rng'.at - g = nextFree'[pg'] - h
                                   /\ flash'[vic'].ent[g] = flash'[pg'].ent[h]
      BY DEF CopyOf
    <3>. HIDE DEF V, n, Q, f
    <3>. QED
      BY <3>1, <3>2
  <2>. QED
    BY <1>1, <1>11, <2>1, <2>3
<1> DEFINE Next2 == \A g \in Hdrs(V, n) :
                g \in Used(V) /\ g < i + 1 /\ End(V, g) >= i + 1 =>
                   /\ (f + 1) - ((i + 1) - g) \in 0..f
                   /\ Q.ent[(f + 1) - ((i + 1) - g)] = V.ent[g]
<1>14. Layout(Q, f + 1, 0..f) /\ Whole(Q, f + 1, U) /\ Next2
  <2>1. CASE e.t = "hdr"
    <3>1. i \in Hdrs(V, n)
      BY <1>5, <2>1 DEF Hdrs
    <3>2. \A g \in Hdrs(V, n) : ~(g \in Used(V) /\ g < rng.at /\ rng.at <= End(V, g))
      <4> SUFFICES ASSUME NEW g \in Hdrs(V, n), g \in Used(V), g < rng.at, rng.at <= End(V, g)
                   PROVE FALSE
        OBVIOUS
      <4>1. rng.at \in ToCopy /\ V.ent[rng.at] = Data(V.ent[g].v, rng.at - g)
        BY <1>1, Midway
      <4>2. i = rng.at
        BY <1>2, <1>4, <1>5, <4>1
      <4>. QED
        BY <2>1, <4>1, <4>2 DEF Data
    <3>3. Whole(D, f, {})
      <4>1. \A h \in Hdrs(D, f) : End(D, h) < f
        BY <1>1, <3>2, Interrupted
      <4>. QED
        BY <4>1 DEF Whole
    <3>4. Layout(Q, f + 1, 0..(f - 1) \cup {f}) /\ Whole(Q, f + 1, {f}) /\ f \in Hdrs(Q, f + 1)
      <4>. HIDE DEF D, Q, f, e
      <4>. QED
        BY <1>2, <1>5, <1>6, <1>9, <2>1, <3>3, LayoutHeader
    <3>5. 0..f = 0..(f - 1) \cup {f}
      BY <1>2
    <3>6. f \in U
      <4>1. (i + 1) - i = (f + 1) - f
        BY <1>2, <1>5
      <4>. QED
        BY <1>5, <1>10, <3>1, <3>4, <4>1
    <3>7. Whole(Q, f + 1, U)
      BY <3>4, <3>6 DEF Whole
    <3>8. Next2
      <4> SUFFICES ASSUME NEW g \in Hdrs(V, n), g < i + 1, End(V, g) >= i + 1
                   PROVE  /\ (f + 1) - ((i + 1) - g) \in 0..f
                          /\ Q.ent[(f + 1) - ((i + 1) - g)] = V.ent[g]
        OBVIOUS
      <4>1. g \in Nat /\ End(V, g) \in Nat
        BY <1>2, EndType
      <4>2. g = i
        <5> SUFFICES ASSUME g < i PROVE FALSE
          BY <1>5, <4>1
        <5>1. End(V, g) < i
          BY <1>2, <3>1, Apart
        <5>. QED
          BY <1>5, <4>1, <5>1
      <4>3. (f + 1) - ((i + 1) - g) = f
        BY <1>2, <1>5, <4>1, <4>2
      <4>4. f \in 0..f
        BY <1>2
      <4>. QED
        BY <1>10, <4>2, <4>3, <4>4
    <3>. QED
      BY <3>4, <3>5, <3>7, <3>8
  <2>2. CASE e.t # "hdr"
    <3>1. i \notin Hdrs(V, n)
      BY <2>2 DEF Hdrs
    <3>2. PICK g \in Hdrs(V, n) : g < i /\ i <= End(V, g)
      BY <1>2, <1>5, <3>1 DEF Layout
    <3>3. e = Data(V.ent[g].v, i - g) /\ g \in Used(V)
      BY <1>2, <1>5, <3>2 DEF Layout
    <3>4. g \in Nat /\ End(V, g) \in Nat /\ End(V, g) = g + DataLen[V.ent[g].v]
          /\ DataLen[V.ent[g].v] \in Nat /\ g \in Idx /\ V.ent[g].t = "hdr"
      BY <1>2, EndType DEF End
    <3>5. g < rng.at
      <4> SUFFICES ASSUME g >= rng.at PROVE FALSE
        BY <1>2, <3>4
      <4>1. g \in ToCopy
        BY <1>2, <3>3, <3>4 DEF ToCopy, Used, Idx
      <4>. QED
        BY <1>4, <1>5, <3>2, <3>4, <4>1
    <3>6. rng.at <= End(V, g)
      BY <1>2, <1>5, <3>2, <3>4
    <3>7. i = rng.at
      <4>1. rng.at \in ToCopy
        BY <1>1, <3>3, <3>5, <3>6, Midway
      <4>. QED
        BY <1>2, <1>4, <1>5, <4>1
    <3> DEFINE h == f - (rng.at - g)
    <3>8. h \in 0..(f - 1) /\ D.ent[h] = V.ent[g]
      BY <1>1, <3>3, <3>5, <3>6 DEF LogInv, Phase, Copying
    <3>9. h \in Nat /\ h < f /\ f - h = i - g /\ h \in Hdrs(D, f)
      BY <1>2, <3>4, <3>7, <3>8 DEF Hdrs
    <3>. HIDE DEF h
    <3>10. End(D, h) = h + DataLen[V.ent[g].v]
      BY <3>8 DEF End
    <3>11. f <= End(D, h) /\ End(D, h) \in Nat
      <4> DEFINE d == DataLen[V.ent[g].v]
      <4>1. d \in Nat /\ i <= g + d /\ End(D, h) = h + d
        BY <3>2, <3>4, <3>10
      <4>2. f \in Nat /\ i \in Nat /\ g \in Nat /\ h \in Nat /\ f - h = i - g
        BY <1>2, <1>5, <3>4, <3>9
      <4>. HIDE DEF d, f
      <4>3. f <= h + d /\ h + d \in Nat
        BY <4>1, <4>2
      <4>. QED
        BY <4>1, <4>3
    <3>12. Whole(D, f, {h})
      <4> SUFFICES ASSUME NEW x \in Hdrs(D, f), x # h PROVE End(D, x) < f
        BY DEF Whole
      <4>1. x \in Nat /\ x < f /\ End(D, x) \in Nat
        BY <1>2, EndType
      <4>2. CASE x < h
        BY <1>2, <3>9, <4>1, <4>2, Apart
      <4>3. CASE h < x
        <5>1. End(D, h) < x
          BY <1>2, <3>9, <4>3, Apart
        <5>. QED
          BY <1>2, <3>11, <4>1, <5>1
      <4>. QED
        BY <3>9, <4>1, <4>2, <4>3
    <3>13. e = Data(D.ent[h].v, f - h)
      BY <3>3, <3>8, <3>9
    <3>14. \A j \in Idx : Q.ent[j] = IF j \in f..((f + 1) - 1) THEN Data(D.ent[h].v, j - h)
                                     ELSE D.ent[j]
      <4> TAKE j \in Idx
      <4>1. j \in f..((f + 1) - 1) <=> j = f
        BY <1>2, Idle
      <4>. HIDE DEF e, D, Q
      <4>. QED
        BY <1>10, <3>13, <4>1
    <3>15. f + 1 \in 0..N /\ f <= f + 1 /\ f + 1 <= End(D, h) + 1
      BY <1>2, <1>5, <3>11
    <3>16. /\ Layout(Q, f + 1, 0..(f - 1) \cup f..((f + 1) - 1)) /\ Whole(Q, f + 1, {h})
           /\ Hdrs(Q, f + 1) = Hdrs(D, f) /\ \A x \in Hdrs(D, f) : Q.ent[x] = D.ent[x]
      <4> DEFINE m == f + 1
                 C == 0..(f - 1)
      <4>1. D \in PageRec /\ f \in 0..N /\ Layout(D, f, C) /\ Q \in PageRec /\ Q.es = D.es
        BY <1>2, <1>9
      <4>2. m \in 0..N /\ f <= m /\ m <= End(D, h) + 1
        BY <3>15
      <4>3. Grown(Q, D, f, m, h)
        BY <3>14, <4>1 DEF Grown
      <4>4. h \in C /\ h \in Hdrs(D, f)
        BY <3>8, <3>9
      <4>. HIDE DEF D, Q, f, m, C
      <4>5. /\ Layout(Q, m, C \cup f..(m - 1)) /\ Whole(Q, m, {h})
            /\ Hdrs(Q, m) = Hdrs(D, f) /\ \A x \in Hdrs(D, f) : Q.ent[x] = D.ent[x]
        BY <3>12, <4>1, <4>2, <4>3, <4>4, LayoutData
      <4>. QED
        BY <4>5 DEF m, C
    <3>17. 0..f = 0..(f - 1) \cup f..((f + 1) - 1)
      BY <1>2
    <3>18. h \in U
      <4>1. (i + 1) - g = (f + 1) - h
        <5>1. f \in Nat /\ i \in Nat /\ g \in Nat /\ h \in Nat /\ f - h = i - g
          BY <1>2, <1>5, <3>4, <3>9
        <5>. HIDE DEF f
        <5>. QED
          BY <5>1
      <4>. QED
        BY <3>3, <3>8, <3>9, <3>16, <4>1
    <3>19. Whole(Q, f + 1, U)
      BY <3>16, <3>18 DEF Whole
    <3>20. Next2
      <4> SUFFICES ASSUME NEW x \in Hdrs(V, n), x \in Used(V), x < i + 1, End(V, x) >= i + 1
                   PROVE  /\ (f + 1) - ((i + 1) - x) \in 0..f
                          /\ Q.ent[(f + 1) - ((i + 1) - x)] = V.ent[x]
        OBVIOUS
      <4>1. x \in Nat /\ End(V, x) \in Nat /\ x # i
        BY <1>2, <3>1, EndType
      <4>2. x < rng.at /\ End(V, x) >= rng.at
        BY <1>2, <3>7, <4>1
      <4>3. f - (rng.at - x) \in 0..(f - 1) /\ D.ent[f - (rng.at - x)] = V.ent[x]
        BY <1>1, <4>2 DEF LogInv, Phase, Copying
      <4>4. (f + 1) - ((i + 1) - x) = f - (rng.at - x)
        BY <1>2, <3>7, <4>1
      <4>5. f - (rng.at - x) \in 0..f /\ f - (rng.at - x) # f /\ f - (rng.at - x) \in Idx
        BY <1>2, <4>3 DEF Idx
      <4>. QED
        BY <1>10, <4>3, <4>4, <4>5
    <3>. QED
      BY <3>16, <3>17, <3>19, <3>20
  <2>. QED
    BY <2>1, <2>2
<1>. HIDE DEF U
<1>15. ASSUME NEW p \in Pages PROVE PageInv(p)' /\ (p # pg => Keeps(p))
  <2>1. CASE p = pg
    <3>1. Counted(p)' = 0..f /\ Unfinished(p)' = U
      <4>1. p = pg'
        BY <1>1, <2>1
      <4>2. Counted(p)' = Counted(pg)' /\ Unfinished(p)' = Unfinished(pg)'
        BY <4>1 DEF Counted, Unfinished
      <4>. QED
        BY <1>12, <1>13, <4>2
    <3>2. cntUsed'[p] = Cardinality(0..f)
      <4>1. cntUsed[pg] = Cardinality(0..(f - 1))
        BY <1>2 DEF PageInv
      <4>2. Cardinality(0..(f - 1)) = f /\ Cardinality(0..f) = f + 1
        <5>1. f \in Int /\ f - 1 \in Int /\ 0 \in Int
          BY <1>2
        <5>2. Cardinality(0..(f - 1)) = IF 0 > f - 1 THEN 0 ELSE (f - 1) - 0 + 1
          BY <5>1, FS_Interval
        <5>3. Cardinality(0..f) = IF 0 > f THEN 0 ELSE f - 0 + 1
          BY <5>1, FS_Interval
        <5>. QED
          BY <1>2, <5>2, <5>3
      <4>. QED
        BY <1>11, <2>1, <4>1, <4>2
    <3>3. Touched(Q, f + 1, 0..f)
      <4>1. \A m \in Nat : 0..((m + 1) - 1) = 0..m
        OBVIOUS
      <4>. QED
        BY <1>2, <4>1 DEF Touched
    <3>. QED
      BY <1>11, <1>14, <2>1, <3>1, <3>2, <3>3 DEF PageInv
  <2>2. CASE p # pg
    <3>1. Counted(p) = Used(flash[p]) /\ Unfinished(p) = {} /\ Counted(p)' = Used(flash'[p])
          /\ Unfinished(p)' = {}
      BY <1>1, <2>2, QuietNow, QuietNext
    <3>. QED
      BY <1>2, <1>9, <1>11, <2>2, <3>1, PageSame
  <2>. QED
    BY <2>1, <2>2
<1>16. Lists'
  BY <1>1, <1>2, <1>9 DEF LogInv, Lists, Holds, Injective
<1>17. Stage'
  BY <1>1 DEF LogInv, Stage, InPage, Holds
<1>18. Copying'
  <2>1. flash'[vic'] = V /\ nextFree'[vic'] = n /\ nextFree'[pg'] = f + 1 /\ flash'[pg'] = Q
    BY <1>1, <1>2, <1>9, <1>11
  <2>2. 0..(nextFree'[pg'] - 1) = 0..f
    BY <1>2, <2>1
  <2>. QED
    BY <1>11, <1>12, <1>14, <2>1, <2>2 DEF Copying
<1>19. Phase'
  <2>1. flash'[pg'].es[nextFree'[pg'] - 1] = "FREE"
    <3>1. nextFree'[pg'] - 1 = f
      BY <1>1, <1>2, <1>11
    <3>. QED
      BY <1>1, <1>7, <1>9, <3>1
  <2>. QED
    BY <1>1, <1>18, <2>1 DEF Phase
<1>20. Copied(i)
  <2>1. i < n
    BY <1>2, <1>5
  <2>2. \A j \in Used(V) : j >= rng.at => j \in ToCopy
    BY <1>2 DEF Used, ToCopy, Idx
  <2>. QED
    BY <1>2, <1>4, <1>5, <1>10, <1>11, <1>12, <2>1, <2>2 DEF Copied
<1>. QED
  BY <1>1, <1>5, <1>15, <1>16, <1>17, <1>19, <1>20 DEF LogInv

LEMMA CopyMarkLog ==
  ASSUME LogInv, TypeInv', CopyMark
  PROVE  LogInv' /\ \A p \in Pages : Keeps(p)
<1> DEFINE D == flash[pg]
           f == nextFree[pg]
           i == nextFree[pg] - 1
<1>1. /\ pc = "copied" /\ pc' = "copy" /\ SetState(pg, i, "USED") /\ TypeInv
      /\ UNCHANGED <<used, free, nextFree, cntUsed, pg, vic, rng>>
      /\ Copying /\ D.es[i] = "FREE" /\ flash \in [Pages -> PageRec]
      /\ \A p \in Pages : PageInv(p)
  BY DEF CopyMark, ram, LogInv, Phase, TypeInv, TypeOK
<1>2. pg # vic /\ vic \in Pages /\ f >= 1 /\ Holds(used, pg)
  BY <1>1 DEF LogInv, Stage, InPage, TypeInv, Prepared
<1>3. pg \in Pages /\ f \in Nat /\ f \in 0..N /\ N \in Nat
  BY <1>1, PageTypes
<1>4. ~Holds(free, pg)
  BY <1>2, <1>3 DEF LogInv, Lists
<1>5. i \in Idx /\ i \in Nat /\ i < f
  BY <1>2, <1>3 DEF Idx
<1>. HIDE DEF i
<1>6. /\ \A q \in Pages : q # pg => flash'[q] = flash[q]
      /\ flash'[pg].ent = D.ent /\ flash'[pg].es[i] = "USED"
      /\ \A j \in Idx : j # i => flash'[pg].es[j] = D.es[j]
  <2>1. "USED" \in EntryStates
    BY DEF EntryStates
  <2>2. NorState(D.es[i], "USED") = "USED"
    BY <1>1 DEF NorState
  <2>. HIDE DEF D
  <2>. QED
    BY <1>1, <1>3, <1>5, <2>1, <2>2, Marked DEF D
<1>7. Counted(pg) = Used(D) \cup {i}
  BY <1>1 DEF Counted, Pending, i
<1>8. Counted(pg)' = Counted(pg)
  <2>1. Counted(pg)' = Used(flash'[pg])
    BY <1>1 DEF Counted, Pending
  <2>2. Used(flash'[pg]) = Used(D) \cup {i}
    BY <1>5, <1>6 DEF Used
  <2>. QED
    BY <1>7, <2>1, <2>2
<1>9. flash'[vic'] = flash[vic] /\ flash'[pg'].ent = flash[pg].ent
  BY <1>1, <1>2, <1>6
<1>10. \A j \in Idx : j >= f => flash'[pg].es[j] = D.es[j]
  BY <1>3, <1>5, <1>6, Idle
<1>11. \A h : CopyOf(h)' <=> CopyOf(h)
  BY <1>1, <1>9 DEF CopyOf
<1>12. Hdrs(flash'[pg], f) = Hdrs(D, f)
  BY <1>6, <1>10, LayoutSame
<1>13. ASSUME NEW p \in Pages PROVE PageInv(p)' /\ Keeps(p)
  <2>1. CASE p = pg
    <3>1. Unfinished(p)' = Unfinished(p)
      BY <1>1, <1>11, <1>12, <2>1 DEF Unfinished
    <3>2. Counted(p)' = Counted(p)
      <4>1. Counted(p)' = Counted(pg)'
        BY <1>1, <2>1 DEF Counted
      <4>. QED
        BY <1>8, <2>1, <4>1
    <3>. QED
      BY <1>1, <1>6, <1>10, <2>1, <3>1, <3>2, PageSame
  <2>2. CASE p # pg
    <3>1. Counted(p) = Used(flash[p]) /\ Unfinished(p) = {} /\ Counted(p)' = Used(flash'[p])
          /\ Unfinished(p)' = {}
      BY <1>1, <2>2, QuietNow, QuietNext
    <3>. QED
      BY <1>1, <1>6, <2>2, <3>1, PageSame
  <2>. QED
    BY <2>1, <2>2
<1>14. Lists'
  BY <1>1, <1>4, <1>6 DEF LogInv, Lists, Holds, Injective
<1>15. Stage'
  BY <1>1 DEF LogInv, Stage, InPage, Holds
<1>16. Copying'
  BY <1>1, <1>8, <1>9 DEF Copying
<1>17. Phase'
  BY <1>1, <1>16 DEF Phase
<1>. QED
  BY <1>1, <1>13, <1>14, <1>15, <1>17 DEF LogInv

LEMMA EraseLog ==
  ASSUME LogInv, TypeInv', EraseVictim
  PROVE  /\ LogInv' /\ nextFree'[vic] = 0
         /\ \A p \in Pages : p # vic => Keeps(p) /\ flash'[p] = flash[p]
<1>1. /\ pc = "copy" /\ pc' = "recheck" /\ ToCopy = {} /\ rng' = NoRng
      /\ flash' = [flash EXCEPT ![vic] = Blank]
      /\ nextFree' = [nextFree EXCEPT ![vic] = 0] /\ cntUsed' = [cntUsed EXCEPT ![vic] = 0]
      /\ UNCHANGED <<used, free, pg>>
  BY DEF EraseVictim
<1>2. /\ pg \in Pages /\ vic \in Pages /\ pg # vic /\ flash \in [Pages -> PageRec]
      /\ \A p \in Pages : PageInv(p)
  BY <1>1, CopyFacts
<1>3. /\ flash'[vic] = Blank /\ nextFree'[vic] = 0 /\ cntUsed'[vic] = 0
      /\ \A p \in Pages : p # vic => /\ flash'[p] = flash[p] /\ nextFree'[p] = nextFree[p]
                                     /\ cntUsed'[p] = cntUsed[p]
  <2>1. nextFree \in [Pages -> 0..N] /\ cntUsed \in [Pages -> Int]
    BY DEF LogInv, TypeInv, TypeOK
  <2>. QED
    BY <1>1, <1>2, <2>1
<1>4. Whole(flash[pg], nextFree[pg], {})
  <2>1. \A g \in Hdrs(flash[vic], nextFree[vic]) :
          ~(g \in Used(flash[vic]) /\ g < rng.at /\ rng.at <= End(flash[vic], g))
    BY <1>1, Midway
  <2>2. \A h \in Hdrs(flash[pg], nextFree[pg]) : End(flash[pg], h) < nextFree[pg]
    BY <1>1, <2>1, Interrupted
  <2>. QED
    BY <2>2 DEF Whole
<1>5. ASSUME NEW p \in Pages PROVE PageInv(p)' /\ (p # vic => Keeps(p))
  <2>1. Counted(p) = Used(flash[p]) /\ Counted(p)' = Used(flash'[p]) /\ Unfinished(p)' = {}
    BY <1>1, QuietNow, QuietNext
  <2>2. CASE p = vic
    <3>1. /\ Layout(flash'[p], 0, {}) /\ Touched(flash'[p], 0, {}) /\ Whole(flash'[p], 0, {})
          /\ Used(flash'[p]) = {}
      BY <1>3, <2>2, LayoutBlank
    <3>2. Cardinality({}) = 0
      BY FS_EmptySet
    <3>. QED
      BY <1>3, <2>1, <2>2, <3>1, <3>2 DEF PageInv
  <2>3. CASE p # vic
    <3>1. PageInv(p) /\ Whole(flash[p], nextFree[p], {})
      <4>1. p # pg => Unfinished(p) = {}
        BY QuietNow
      <4>. QED
        BY <1>2, <1>4, <4>1 DEF PageInv
    <3>. QED
      BY <1>3, <2>1, <2>3, <3>1 DEF PageInv, Keeps
  <2>. QED
    BY <2>2, <2>3
<1>6. Lists'
  BY <1>1, <1>3 DEF LogInv, Lists, Holds, Injective
<1>7. Stage'
  BY <1>1 DEF LogInv, Stage, InPage, Holds
<1>8. Phase'
  BY <1>1 DEF Phase
<1>. QED
  BY <1>1, <1>3, <1>5, <1>6, <1>7, <1>8 DEF LogInv

-----------------------------------------------------------------------------
(* Writing an element                                                       *)

\* The header of the new element is appended.
Appended ==
    /\ nextFree[pg] \in Idx /\ nextFree'[pg] = nextFree[pg] + 1
    /\ flash'[pg].ent[nextFree[pg]] = Hdr(op.key, op.val)
    /\ \A j \in Idx : j # nextFree[pg] => flash'[pg].ent[j] = flash[pg].ent[j]
    /\ Counted(pg)' = Counted(pg) \cup {nextFree[pg]}

LEMMA EntryLog ==
  ASSUME LogInv, TypeInv', WriteEntry
  PROVE  LogInv' /\ Appended /\ \A p \in Pages : p # pg => Keeps(p)
<1> DEFINE D == flash[pg]
           Q == flash'[pg]
           i == nextFree[pg]
           d == DataLen[op.val]
           e == Hdr(op.key, op.val)
<1>1. /\ pc = "write" /\ pc' = (IF d = 0 THEN "mark" ELSE "data") /\ UNCHANGED <<used, free, op, pg>>
      /\ nextFree' = [nextFree EXCEPT ![pg] = i + 1]
      /\ cntUsed' = [cntUsed EXCEPT ![pg] = cntUsed[pg] + 1]
      /\ rng' = [lo |-> i, at |-> i, hi |-> i + d]
      /\ \E x \in Nor(D.ent[i], e) : flash' = [flash EXCEPT ![pg].ent[i] = x]
  BY DEF WriteEntry
<1>2. /\ TypeInv /\ flash \in [Pages -> PageRec] /\ Holds(used, pg) /\ op.val \in Values
      /\ op.key \in Keys /\ Room(pg, op.val) /\ \A p \in Pages : PageInv(p)
  BY <1>1 DEF LogInv, TypeInv, TypeOK, Prepared, PutSteps, Stage, InPage
<1>3. pg \in Pages /\ D \in PageRec /\ i \in 0..N /\ i \in Nat /\ N \in Nat /\ d \in Nat
  BY <1>2, PageTypes, LenAssumption
<1>4. i < N /\ i \in Idx
  <2>1. N - i >= 1 + d
    BY <1>2 DEF Room
  <2>. HIDE DEF i, d
  <2>. QED
    BY <1>3, <2>1 DEF Idx
<1>5. ~Holds(free, pg)
  BY <1>2, <1>3 DEF LogInv, Lists
<1>6. Counted(pg) = Used(D) /\ Unfinished(pg) = {} /\ Layout(D, i, Used(D)) /\ Whole(D, i, {})
      /\ cntUsed[pg] = Cardinality(Used(D))
  BY <1>1, <1>2, <1>3, QuietNow DEF PageInv
<1>7. D.ent[i] = Erased /\ D.es[i] = "FREE"
  BY <1>3, <1>4, <1>6 DEF Layout
<1>8. flash' = [flash EXCEPT ![pg].ent[i] = e]
  BY <1>1, <1>7 DEF Nor
<1>9. e \in Entries /\ e.t = "hdr" /\ e.v = op.val
  BY <1>2, EntryTypes
<1>. HIDE DEF e
<1>10. /\ Q.ent = [D.ent EXCEPT ![i] = e] /\ Q.es = D.es /\ Q \in PageRec
       /\ \A p \in Pages : p # pg => flash'[p] = flash[p]
  <2>1. flash' = [flash EXCEPT ![pg] = [D EXCEPT !.ent = [D.ent EXCEPT ![i] = e]]]
    BY <1>8
  <2>2. Q = [D EXCEPT !.ent = [D.ent EXCEPT ![i] = e]]
    BY <1>2, <1>3, <2>1
  <2>3. \A p \in Pages : p # pg => flash'[p] = flash[p]
    BY <1>2, <2>1
  <2>4. D.ent \in [Idx -> Entries]
    BY <1>3 DEF PageRec
  <2>5. [D.ent EXCEPT ![i] = e] \in [Idx -> Entries]
    BY <1>9, <2>4
  <2>6. Q.ent = [D.ent EXCEPT ![i] = e] /\ Q.es = D.es /\ Q \in PageRec
    <3>. HIDE DEF D
    <3>. QED
      BY <1>3, <2>2, <2>5 DEF PageRec
  <2>. QED
    BY <2>3, <2>6
<1>11. Q.ent[i] = e
  <2>1. D.ent \in [Idx -> Entries]
    BY <1>3 DEF PageRec
  <2>. HIDE DEF D, Q
  <2>. QED
    BY <1>4, <1>10, <2>1
<1>12. Layout(Q, i + 1, Used(D) \cup {i}) /\ Whole(Q, i + 1, {i}) /\ i \in Hdrs(Q, i + 1)
  <2>. HIDE DEF D, Q, i
  <2>. QED
    BY <1>3, <1>4, <1>6, <1>9, <1>10, LayoutHeader
<1>13. End(Q, i) = i + d
  BY <1>9, <1>11 DEF End
<1>14. /\ nextFree'[pg] = i + 1 /\ cntUsed'[pg] = cntUsed[pg] + 1
       /\ \A p \in Pages : p # pg => nextFree'[p] = nextFree[p] /\ cntUsed'[p] = cntUsed[p]
  BY <1>1, <1>2, <1>3 DEF TypeInv, TypeOK
<1>15. rng'.lo = i /\ rng'.at = i /\ rng'.hi = i + d
  BY <1>1
<1>16. Counted(pg)' = Used(D) \cup {i}
  <2>1. Pending' = {i}
    <3>1. d = 0 => i .. (i + d) = {i}
      BY <1>3
    <3>. QED
      BY <1>1, <1>15, <3>1 DEF Pending
  <2>2. Counted(pg)' = Used(flash'[pg']) \cup Pending'
    BY DEF Counted
  <2>3. Used(Q) = Used(D)
    BY <1>10 DEF Used
  <2>. QED
    BY <1>1, <2>1, <2>2, <2>3
<1>17. Whole(Q, i + 1, Unfinished(pg)')
  <2>1. CASE d = 0
    <3>1. End(Q, i) < i + 1
      BY <1>3, <1>13, <2>1
    <3>. QED
      BY <1>12, <3>1 DEF Whole
  <2>2. CASE d # 0
    <3>1. Unfinished(pg)' = {i}
      BY <1>1, <1>15, <2>2 DEF Unfinished
    <3>. QED
      BY <1>12, <3>1
  <2>. QED
    BY <2>1, <2>2
<1>22. Touched(Q, i + 1, Used(D) \cup {i})
  <2> SUFFICES ASSUME NEW j \in 0..((i + 1) - 1), Q.es[j] = "FREE" PROVE j \in Used(D) \cup {i}
    BY DEF Touched
  <2>1. j = i \/ j \in 0..(i - 1)
    <3>. HIDE DEF i
    <3>. QED
      BY <1>3
  <2>. QED
    BY <1>2, <1>3, <1>6, <1>10, <2>1 DEF PageInv, Touched
<1>18. ASSUME NEW p \in Pages PROVE PageInv(p)' /\ (p # pg => Keeps(p))
  <2>1. CASE p = pg
    <3>1. Counted(p)' = Counted(pg)' /\ Unfinished(p)' = Unfinished(pg)'
      BY <1>1, <2>1 DEF Counted, Unfinished
    <3>2. Cardinality(Used(D) \cup {i}) = Cardinality(Used(D)) + 1
      <4>1. IsFiniteSet(Used(D))
        BY <1>3, <1>6, FiniteLayout
      <4>2. i \notin Used(D)
        BY <1>7 DEF Used
      <4>. QED
        BY <4>1, <4>2, FS_AddElement
    <3>. QED
      BY <1>6, <1>12, <1>14, <1>16, <1>17, <1>22, <2>1, <3>1, <3>2 DEF PageInv
  <2>2. CASE p # pg
    <3>1. Counted(p) = Used(flash[p]) /\ Unfinished(p) = {} /\ Counted(p)' = Used(flash'[p])
          /\ Unfinished(p)' = {}
      BY <1>1, <2>2, QuietNow, QuietNext
    <3>. QED
      BY <1>2, <1>10, <1>14, <2>2, <3>1, PageSame
  <2>. QED
    BY <2>1, <2>2
<1>19. Lists'
  BY <1>1, <1>5, <1>10 DEF LogInv, Lists, Holds, Injective
<1>20. Stage'
  BY <1>1, <1>2 DEF Stage, InPage, Holds
<1>21. Phase'
  <2>1. flash'[pg'] = Q /\ nextFree'[pg'] = i + 1 /\ op' = op /\ Q.es[i] = "FREE"
    BY <1>1, <1>7, <1>10, <1>14
  <2>2. CASE d = 0
    <3>1. i .. (i - 1) = {} /\ \A j \in i .. (i + d) : j = i
      BY <1>3, <2>2
    <3>2. i <= i
      BY <1>3
    <3>3. Marking'
      BY <1>12, <1>13, <1>15, <2>1, <3>1, <3>2 DEF Marking
    <3>. QED
      BY <1>1, <2>2, <3>3 DEF Phase
  <2>3. CASE d # 0
    <3>1. Writing'
      BY <1>9, <1>11, <1>12, <1>15, <2>1 DEF Writing
    <3>. QED
      BY <1>1, <2>3, <3>1 DEF Phase
  <2>. QED
    BY <2>2, <2>3
<1>23. Appended
  <2>1. \A j \in Idx : j # i => Q.ent[j] = D.ent[j]
    <3>1. D.ent \in [Idx -> Entries]
      BY <1>3 DEF PageRec
    <3>. HIDE DEF D, Q
    <3>. QED
      BY <1>10, <3>1
  <2>. QED
    BY <1>4, <1>6, <1>11, <1>14, <1>16, <2>1 DEF Appended, e
<1>. QED
  BY <1>1, <1>18, <1>19, <1>20, <1>21, <1>23 DEF LogInv

LEMMA DataLog ==
  ASSUME LogInv, TypeInv', WriteData
  PROVE  /\ LogInv' /\ LiveIn(pg)' = LiveIn(pg)
         /\ \A h \in LiveIn(pg) : flash'[pg].ent[h] = flash[pg].ent[h]
         /\ \A p \in Pages : p # pg => Keeps(p)
<1> DEFINE D == flash[pg]
           Q == flash'[pg]
           lo == rng.lo
           n == nextFree[pg]
           d == DataLen[op.val]
           m == n + d
<1>1. /\ pc = "data" /\ pc' = "mark" /\ UNCHANGED <<used, free, op, pg, rng>>
      /\ nextFree' = [nextFree EXCEPT ![pg] = n + d]
      /\ cntUsed' = [cntUsed EXCEPT ![pg] = cntUsed[pg] + d]
  BY DEF WriteData
<1>2. /\ TypeInv /\ flash \in [Pages -> PageRec] /\ Holds(used, pg) /\ op.val \in Values
      /\ n = lo + 1 /\ rng.hi = lo + d /\ Writing /\ \A p \in Pages : PageInv(p)
  BY <1>1 DEF LogInv, TypeInv, TypeOK, Prepared, PutSteps, Stage, InPage, Phase
<1>3. pg \in Pages /\ D \in PageRec /\ n \in 0..N /\ n \in Nat /\ N \in Nat /\ d \in Nat /\ lo \in Nat
  BY <1>2, PageTypes, LenAssumption
<1>4. /\ m \in 0..N /\ m \in Nat /\ n <= m /\ m = rng.hi + 1 /\ m - 1 = rng.hi
      /\ lo + 1 .. rng.hi = n .. (m - 1) /\ n .. (m - 1) \subseteq Idx
  <2>1. rng.hi \in Idx
    BY <1>2, PageTypes DEF RngRec
  <2>. HIDE DEF n, d, lo
  <2>. QED
    BY <1>2, <1>3, <2>1 DEF Idx
<1>5. ~Holds(free, pg)
  BY <1>2, <1>3 DEF LogInv, Lists
<1>6. /\ lo \in Hdrs(D, n) /\ D.ent[lo].v = op.val /\ D.es[lo] = "FREE" /\ rng.at = lo
  BY <1>2 DEF Writing
<1>7. Counted(pg) = Used(D) \cup {lo} /\ Unfinished(pg) = {lo}
  BY <1>1 DEF Counted, Pending, Unfinished
<1>8. /\ Layout(D, n, Used(D) \cup {lo}) /\ Whole(D, n, {lo})
      /\ cntUsed[pg] = Cardinality(Used(D) \cup {lo})
  BY <1>2, <1>3, <1>7 DEF PageInv
<1>9. \A i \in n .. (m - 1) : D.ent[i] = Erased /\ D.es[i] = "FREE"
  <2>1. \A i \in Idx : i >= n => D.es[i] = "FREE" /\ D.ent[i] = Erased
    BY <1>8 DEF Layout
  <2>2. \A i \in n .. (m - 1) : i >= n
    BY <1>3, <1>4
  <2>. QED
    BY <1>4, <2>1, <2>2
<1>10. flash' = [flash EXCEPT ![pg].ent = [i \in Idx |->
                   IF i \in n .. (m - 1) THEN Data(op.val, i - lo) ELSE D.ent[i]]]
  <2> DEFINE R == lo + 1 .. rng.hi
  <2>1. PICK e \in [R -> UNION {Nor(D.ent[i], Data(op.val, i - lo)) : i \in R}] :
          /\ \A i \in R : e[i] \in Nor(D.ent[i], Data(op.val, i - lo))
          /\ flash' = [flash EXCEPT ![pg].ent = [i \in Idx |-> IF i \in R THEN e[i] ELSE D.ent[i]]]
    BY DEF WriteData
  <2>2. \A i \in R : e[i] = Data(op.val, i - lo)
    BY <1>4, <1>9, <2>1 DEF Nor
  <2>3. [i \in Idx |-> IF i \in R THEN e[i] ELSE D.ent[i]] =
        [i \in Idx |-> IF i \in R THEN Data(op.val, i - lo) ELSE D.ent[i]]
    BY <2>2
  <2>. QED
    BY <1>4, <2>1, <2>3
<1>11. /\ Q.es = D.es /\ Q \in PageRec /\ Grown(Q, D, n, m, lo)
       /\ \A p \in Pages : p # pg => flash'[p] = flash[p]
  <2> DEFINE E == [i \in Idx |-> IF i \in n .. (m - 1) THEN Data(op.val, i - lo) ELSE D.ent[i]]
  <2>1. flash' = [flash EXCEPT ![pg] = [D EXCEPT !.ent = E]]
    BY <1>10
  <2>. HIDE DEF E
  <2>2. Q = [D EXCEPT !.ent = E] /\ \A p \in Pages : p # pg => flash'[p] = flash[p]
    BY <1>2, <1>3, <2>1
  <2>3. Q \in PageRec
    <3>1. flash' \in [Pages -> PageRec]
      BY DEF TypeInv, TypeOK
    <3>. QED
      BY <1>3, <3>1
  <2>4. Q.es = D.es /\ Q.ent = E
    <3>. HIDE DEF D
    <3>. QED
      BY <1>3, <2>2 DEF PageRec
  <2>5. \A i \in Idx : Q.ent[i] = IF i \in n..(m - 1) THEN Data(D.ent[lo].v, i - lo) ELSE D.ent[i]
    BY <1>6, <2>4 DEF E
  <2>. QED
    BY <2>2, <2>3, <2>4, <2>5 DEF Grown
<1>12. End(D, lo) = lo + d /\ m <= End(D, lo) + 1
  <2>1. End(D, lo) = lo + d
    BY <1>6 DEF End
  <2>. HIDE DEF D, n, lo, d
  <2>. QED
    BY <1>2, <1>3, <2>1
<1>13. /\ Layout(Q, m, (Used(D) \cup {lo}) \cup (n .. (m - 1))) /\ Whole(Q, m, {lo})
       /\ Hdrs(Q, m) = Hdrs(D, n) /\ \A g \in Hdrs(D, n) : Q.ent[g] = D.ent[g]
  <2> DEFINE C == Used(D) \cup {lo}
  <2>1. lo \in C /\ Layout(D, n, C)
    BY <1>8
  <2>. HIDE DEF D, Q, C, n, m, lo
  <2>2. /\ Layout(Q, m, C \cup (n .. (m - 1))) /\ Whole(Q, m, {lo})
        /\ Hdrs(Q, m) = Hdrs(D, n) /\ \A g \in Hdrs(D, n) : Q.ent[g] = D.ent[g]
    <3>1. D \in PageRec /\ n \in 0..N /\ lo \in Hdrs(D, n)
      BY <1>3, <1>6
    <3>2. Whole(D, n, {lo})
      BY <1>8
    <3>3. m \in 0..N /\ n <= m
      BY <1>4
    <3>4. m <= End(D, lo) + 1
      BY <1>12
    <3>5. Q \in PageRec /\ Grown(Q, D, n, m, lo)
      BY <1>11
    <3>. QED
      BY <2>1, <3>1, <3>2, <3>3, <3>4, <3>5, LayoutData
  <2>. QED
    BY <1>6, <2>2 DEF C
<1>14. End(Q, lo) = rng.hi /\ End(Q, lo) < m
  <2>1. Q.ent[lo] = D.ent[lo]
    BY <1>6, <1>13
  <2>2. End(Q, lo) = End(D, lo)
    BY <2>1 DEF End
  <2>3. End(D, lo) = lo + d
    BY <1>12
  <2>. HIDE DEF D, Q, n, d, lo
  <2>4. lo + d = rng.hi /\ lo + d < m
    BY <1>2, <1>3, <1>4
  <2>. QED
    BY <2>2, <2>3, <2>4
<1>15. Whole(Q, m, {})
  BY <1>13, <1>14 DEF Whole
<1>16. /\ nextFree'[pg] = m /\ cntUsed'[pg] = cntUsed[pg] + d
       /\ \A p \in Pages : p # pg => nextFree'[p] = nextFree[p] /\ cntUsed'[p] = cntUsed[p]
  BY <1>1, <1>2, <1>3 DEF TypeInv, TypeOK
<1>17. Counted(pg)' = (Used(D) \cup {lo}) \cup (n .. (m - 1)) /\ Unfinished(pg)' = {}
  <2>1. Pending' = lo .. rng.hi
    BY <1>1 DEF Pending
  <2>2. lo .. rng.hi = {lo} \cup (n .. (m - 1))
    <3>. HIDE DEF n, d, lo
    <3>. QED
      BY <1>2, <1>3, <1>4
  <2>3. Counted(pg)' = Used(flash'[pg']) \cup Pending'
    BY DEF Counted
  <2>4. Used(Q) = Used(D)
    BY <1>11 DEF Used
  <2>5. Unfinished(pg)' = {}
    BY <1>1 DEF Unfinished
  <2>. QED
    BY <1>1, <2>1, <2>2, <2>3, <2>4, <2>5
<1>18. Cardinality((Used(D) \cup {lo}) \cup (n .. (m - 1))) = cntUsed[pg] + d
  <2> DEFINE C == Used(D) \cup {lo}
             R == n .. (m - 1)
  <2>1. IsFiniteSet(C) /\ Cardinality(C) \in Nat
    <3>1. IsFiniteSet(C)
      BY <1>3, <1>8, FiniteLayout
    <3>. QED
      BY <3>1, FS_CardinalityType
  <2>2. IsFiniteSet(R) /\ Cardinality(R) = d
    <3>1. n \in Int /\ m - 1 \in Int
      BY <1>3, <1>4
    <3>2. IsFiniteSet(R) /\ Cardinality(R) = IF n > m - 1 THEN 0 ELSE m - 1 - n + 1
      BY <3>1, FS_Interval
    <3>3. (IF n > m - 1 THEN 0 ELSE m - 1 - n + 1) = d
      <4>. HIDE DEF n, d
      <4>. QED
        BY <1>3
    <3>. QED
      BY <3>2, <3>3
  <2>3. C \cap R = {}
    <3>1. C \subseteq 0 .. (n - 1)
      BY <1>8 DEF Layout
    <3>. HIDE DEF C, n, d
    <3>. QED
      BY <1>3, <1>4, <3>1
  <2>. HIDE DEF C, R
  <2>4. Cardinality(C \cup R) = Cardinality(C) + Cardinality(R) - Cardinality(C \cap R)
    BY <2>1, <2>2, FS_Union
  <2>5. Cardinality(C \cap R) = 0
    BY <2>3, FS_EmptySet
  <2>6. Cardinality(C) = cntUsed[pg]
    BY <1>8 DEF C
  <2>7. Cardinality(C \cup R) = cntUsed[pg] + d
    <3>. HIDE DEF d
    <3>. QED
      BY <1>3, <2>1, <2>2, <2>4, <2>5, <2>6
  <2>. QED
    BY <2>7 DEF C, R
<1>23. Touched(Q, m, (Used(D) \cup {lo}) \cup (n .. (m - 1)))
  <2> SUFFICES ASSUME NEW j \in 0..(m - 1), Q.es[j] = "FREE"
               PROVE  j \in (Used(D) \cup {lo}) \cup (n .. (m - 1))
    BY DEF Touched
  <2>1. j \in n .. (m - 1) \/ j \in 0..(n - 1)
    <3>. HIDE DEF n, d
    <3>. QED
      BY <1>3, <1>4
  <2>. QED
    BY <1>2, <1>3, <1>7, <1>11, <2>1 DEF PageInv, Touched
<1>19. ASSUME NEW p \in Pages PROVE PageInv(p)' /\ (p # pg => Keeps(p))
  <2>1. CASE p = pg
    <3>1. Counted(p)' = Counted(pg)' /\ Unfinished(p)' = Unfinished(pg)'
      BY <1>1, <2>1 DEF Counted, Unfinished
    <3>. QED
      BY <1>13, <1>15, <1>16, <1>17, <1>18, <1>23, <2>1, <3>1 DEF PageInv
  <2>2. CASE p # pg
    <3>1. Counted(p) = Used(flash[p]) /\ Unfinished(p) = {} /\ Counted(p)' = Used(flash'[p])
          /\ Unfinished(p)' = {}
      BY <1>1, <2>2, QuietNow, QuietNext
    <3>. QED
      BY <1>2, <1>11, <1>16, <2>2, <3>1, PageSame
  <2>. QED
    BY <2>1, <2>2
<1>20. Lists'
  BY <1>1, <1>5, <1>11 DEF LogInv, Lists, Holds, Injective
<1>21. Stage'
  BY <1>1, <1>2 DEF Stage, InPage, Holds
<1>22. Phase'
  <2>1. flash'[pg'] = Q /\ nextFree'[pg'] = m /\ rng' = rng
    BY <1>1, <1>16
  <2>2. \A i \in lo .. (lo - 1) : FALSE
    BY <1>3
  <2>3. \A i \in lo .. rng.hi : Q.es[i] = "FREE"
    <3>1. lo .. rng.hi = {lo} \cup (n .. (m - 1))
      <4>. HIDE DEF n, d, lo
      <4>. QED
        BY <1>2, <1>3, <1>4
    <3>. QED
      BY <1>6, <1>9, <1>11, <3>1
  <2>4. lo <= lo
    BY <1>3
  <2>5. Marking'
    <3>. HIDE DEF Q, m, D
    <3>1. lo \in Hdrs(Q, m)
      BY <1>6, <1>13
    <3>2. End(Q, lo) = rng.hi
      BY <1>14
    <3>. QED
      BY <1>6, <2>1, <2>2, <2>3, <2>4, <3>1, <3>2 DEF Marking
  <2>. QED
    BY <1>1, <2>5 DEF Phase
<1>24. LiveIn(pg)' = LiveIn(pg) /\ \A h \in LiveIn(pg) : Q.ent[h] = D.ent[h]
  <2>1. LiveIn(pg)' = Hdrs(flash'[pg'], nextFree'[pg']) \cap Counted(pg)'
    BY DEF LiveIn
  <2>2. Hdrs(flash'[pg'], nextFree'[pg']) = Hdrs(D, n)
    BY <1>1, <1>13, <1>16
  <2>3. \A h \in Hdrs(D, n) : h \notin n .. (m - 1)
    <3>1. Hdrs(D, n) \subseteq 0..(n - 1)
      BY DEF Hdrs
    <3>. HIDE DEF n, d
    <3>. QED
      BY <1>3, <1>4, <3>1
  <2>. QED
    BY <1>7, <1>13, <1>17, <2>1, <2>2, <2>3 DEF LiveIn
<1>. QED
  BY <1>1, <1>19, <1>20, <1>21, <1>22, <1>24 DEF LogInv

LEMMA MarkLog ==
  ASSUME LogInv, TypeInv', MarkUsed \/ Stored
  PROVE  LogInv' /\ \A p \in Pages : Keeps(p)
<1> DEFINE D == flash[pg]
           Q == flash'[pg]
           n == nextFree[pg]
<1>1. /\ pc = "mark" /\ UNCHANGED <<used, free, nextFree, cntUsed>> /\ SetState(pg, rng.at, "USED")
  BY DEF MarkUsed, Stored, ram
<1>2. /\ TypeInv /\ flash \in [Pages -> PageRec] /\ Holds(used, pg) /\ rng.at <= rng.hi
      /\ Marking /\ \A p \in Pages : PageInv(p)
  BY <1>1 DEF LogInv, TypeInv, TypeOK, Prepared, Stage, InPage, Phase
<1>3. /\ pg \in Pages /\ D \in PageRec /\ n \in 0..N /\ n \in Nat /\ N \in Nat
      /\ rng.lo \in Nat /\ rng.at \in Nat /\ rng.hi \in Nat /\ rng.hi \in Idx
  BY <1>2, PageTypes DEF RngRec
<1>4. /\ rng.lo \in Hdrs(D, n) /\ rng.hi = End(D, rng.lo) /\ rng.lo <= rng.at
      /\ \A i \in rng.lo .. (rng.at - 1) : D.es[i] = "USED"
      /\ \A i \in rng.at .. rng.hi : D.es[i] = "FREE"
  BY <1>2 DEF Marking
<1>5. Counted(pg) = Used(D) \cup (rng.lo .. rng.hi) /\ Unfinished(pg) = {}
  BY <1>1 DEF Counted, Pending, Unfinished
<1>6. rng.hi < n /\ rng.at < n /\ rng.at \in Idx /\ rng.lo .. rng.hi \subseteq Idx
  <2>1. Whole(D, n, {})
    BY <1>2, <1>3, <1>5 DEF PageInv
  <2>2. rng.hi < n
    BY <1>4, <2>1 DEF Whole
  <2>. HIDE DEF n
  <2>. QED
    BY <1>2, <1>3, <2>2 DEF Idx
<1>7. D.es[rng.at] = "FREE"
  <2>1. rng.at \in rng.at .. rng.hi
    BY <1>2, <1>3
  <2>. QED
    BY <1>4, <2>1
<1>8. /\ \A p \in Pages : p # pg => flash'[p] = flash[p]
      /\ Q.ent = D.ent /\ Q.es[rng.at] = "USED"
      /\ \A j \in Idx : j # rng.at => Q.es[j] = D.es[j]
  <2>1. /\ \A p \in Pages : p # pg => flash'[p] = flash[p]
        /\ Q.ent = D.ent /\ Q.es[rng.at] = NorState(D.es[rng.at], "USED")
        /\ \A j \in Idx : j # rng.at => Q.es[j] = D.es[j]
    BY <1>1, <1>2, <1>3, <1>6, Marked DEF EntryStates
  <2>. QED
    BY <1>7, <2>1 DEF NorState
<1>9. Used(Q) = Used(D) \cup {rng.at}
  BY <1>6, <1>8 DEF Used
<1>10. ~Holds(free, pg)
  BY <1>2, <1>3 DEF LogInv, Lists
<1>11. Lists'
  <2>1. pc' \notin {"copy", "copied"}
    BY <1>1 DEF MarkUsed, Stored, Return
  <2>2. \A p \in Pages : Holds(free, p) => flash'[p] = flash[p]
    BY <1>8, <1>10
  <2>. QED
    BY <1>1, <2>1, <2>2 DEF LogInv, Lists, Holds, Injective
<1>12. \A i \in Idx : i >= n => Q.es[i] = D.es[i]
  BY <1>3, <1>6, <1>8
<1>13. CASE MarkUsed
  <2>1. /\ rng.at < rng.hi /\ rng' = [rng EXCEPT !.at = rng.at + 1] /\ UNCHANGED <<pc, pg>>
    BY <1>13 DEF MarkUsed
  <2>2. rng'.lo = rng.lo /\ rng'.at = rng.at + 1 /\ rng'.hi = rng.hi
    BY <2>1, <1>2, PageTypes DEF RngRec
  <2>3. Counted(pg)' = Counted(pg) /\ Unfinished(pg)' = {}
    <3>1. Pending' = rng.lo .. rng.hi
      BY <1>1, <2>1, <2>2 DEF Pending
    <3>2. Counted(pg)' = Used(flash'[pg']) \cup Pending'
      BY DEF Counted
    <3>3. rng.at \in rng.lo .. rng.hi
      BY <1>2, <1>3, <1>4
    <3>4. Unfinished(pg)' = {}
      BY <1>1, <2>1 DEF Unfinished
    <3>. QED
      BY <1>5, <1>9, <2>1, <3>1, <3>2, <3>3, <3>4
  <2>4. ASSUME NEW p \in Pages PROVE PageInv(p)' /\ Keeps(p)
    <3>1. CASE p = pg
      <4>1. Counted(p)' = Counted(p) /\ Unfinished(p)' = {} /\ Unfinished(p) = {}
        BY <1>5, <2>1, <2>3, <3>1 DEF Counted, Unfinished
      <4>. QED
        BY <1>1, <1>2, <1>8, <1>12, <3>1, <4>1, PageSame
    <3>2. CASE p # pg
      <4>1. Counted(p) = Used(flash[p]) /\ Unfinished(p) = {} /\ Counted(p)' = Used(flash'[p])
            /\ Unfinished(p)' = {}
        BY <2>1, <3>2, QuietNow, QuietNext
      <4>. QED
        BY <1>1, <1>2, <1>8, <3>2, <4>1, PageSame
    <3>. QED
      BY <3>1, <3>2
  <2>5. Stage'
    BY <1>1, <1>2, <2>1 DEF Stage, InPage, Holds
  <2>6. Marking'
    <3>1. Hdrs(Q, n) = Hdrs(D, n) /\ End(Q, rng.lo) = End(D, rng.lo)
      BY <1>8 DEF Hdrs, End
    <3>2. flash'[pg'] = Q /\ nextFree'[pg'] = n
      BY <1>1, <2>1
    <3>3. ASSUME NEW i \in rng.lo .. ((rng.at + 1) - 1) PROVE Q.es[i] = "USED"
      <4>1. i = rng.at \/ i \in rng.lo .. (rng.at - 1)
        BY <1>3
      <4>2. i \in Idx /\ (i \in rng.lo .. (rng.at - 1) => i # rng.at)
        BY <1>3, <1>6, <4>1 DEF Idx
      <4>. QED
        BY <1>4, <1>8, <4>1, <4>2
    <3>4. ASSUME NEW i \in (rng.at + 1) .. rng.hi PROVE Q.es[i] = "FREE"
      <4>1. i \in rng.at .. rng.hi /\ i # rng.at /\ i \in Idx
        BY <1>3, <1>6 DEF Idx
      <4>. QED
        BY <1>4, <1>8, <4>1
    <3>5. rng.lo <= rng.at + 1
      BY <1>3, <1>4
    <3>. HIDE DEF Q, D, n
    <3>. QED
      BY <1>4, <2>2, <3>1, <3>2, <3>3, <3>4, <3>5 DEF Marking
  <2>7. Phase'
    BY <1>1, <2>1, <2>6 DEF Phase
  <2>. QED
    BY <1>1, <1>11, <2>1, <2>4, <2>5, <2>7 DEF LogInv
<1>14. CASE Stored
  <2>1. rng.at = rng.hi /\ pc' = "idle" /\ rng' = NoRng
    BY <1>14 DEF Stored, Return
  <2>2. ASSUME NEW p \in Pages PROVE PageInv(p)' /\ Keeps(p)
    <3>1. Counted(p)' = Used(flash'[p]) /\ Unfinished(p)' = {}
      BY <2>1, QuietNext
    <3>2. CASE p = pg
      <4>1. Used(Q) = Used(D) \cup (rng.lo .. rng.hi)
        <5>1. rng.lo .. rng.hi = (rng.lo .. (rng.at - 1)) \cup {rng.at}
          BY <1>3, <1>4, <2>1
        <5>2. rng.lo .. (rng.at - 1) \subseteq Used(D)
          BY <1>4, <1>6, <5>1 DEF Used
        <5>. QED
          BY <1>9, <5>1, <5>2
      <4>. QED
        BY <1>1, <1>2, <1>5, <1>8, <1>12, <3>1, <3>2, <4>1, PageSame
    <3>3. CASE p # pg
      <4>1. Counted(p) = Used(flash[p]) /\ Unfinished(p) = {}
        BY <3>3, QuietNow
      <4>. QED
        BY <1>1, <1>2, <1>8, <3>1, <3>3, <4>1, PageSame
    <3>. QED
      BY <3>2, <3>3
  <2>3. Stage'
    BY <2>1 DEF Stage, InPage
  <2>4. Phase'
    BY <2>1 DEF Phase
  <2>. QED
    BY <1>11, <2>2, <2>3, <2>4 DEF LogInv
<1>. QED
  BY <1>13, <1>14

-----------------------------------------------------------------------------
(* Cleaning and loading                                                     *)

\* A blank page.
LEMMA BlankPage ==
  ASSUME NEW p \in Pages, flash'[p] = Blank, nextFree'[p] = 0, cntUsed'[p] = 0,
         Counted(p)' = Used(flash'[p])
  PROVE  PageInv(p)'
<1>1. /\ Layout(flash'[p], 0, {}) /\ Touched(flash'[p], 0, {}) /\ Used(flash'[p]) = {}
      /\ Whole(flash'[p], 0, Unfinished(p)')
  BY LayoutBlank
<1>2. Cardinality({}) = 0
  BY FS_EmptySet
<1>. QED
  BY <1>1, <1>2 DEF PageInv

LEMMA CleanLog ==
  ASSUME LogInv, TypeInv', CleanStart \/ CleanPage
  PROVE  LogInv'
<1>0. flash \in [Pages -> PageRec] /\ pg \in Pages /\ P \in Nat /\ P >= 2
  BY SizeAssumption DEF LogInv, TypeInv, TypeOK
<1>1. CASE CleanStart
  <2>1. /\ pc = "idle" /\ pc' = "clean" /\ pg' = 0
        /\ UNCHANGED <<flash, used, free, nextFree, cntUsed, rng>>
    BY <1>1 DEF CleanStart, ram
  <2>2. Lists'
    BY <2>1 DEF LogInv, Lists, Holds, Injective
  <2>3. rng' = NoRng
    BY <2>1 DEF LogInv, Stage
  <2>4. \A p \in Pages : ~(p < 0)
    BY <1>0 DEF Pages
  <2>5. Stage'
    BY <2>1, <2>3, <2>4 DEF Stage, InPage
  <2>6. Phase'
    BY <2>1 DEF Phase
  <2>. QED
    BY <2>1, <2>2, <2>5, <2>6 DEF LogInv
<1>2. CASE CleanPage
  <2>1. /\ pc = "clean" /\ flash' = [flash EXCEPT ![pg] = Blank] /\ rng' = rng
    BY <1>2 DEF CleanPage
  <2>2. /\ \A p \in Pages : p < pg => flash[p] = Blank
        /\ rng = NoRng
    BY <2>1 DEF LogInv, Stage
  <2>3. \A p \in Pages : p <= pg => flash'[p] = Blank
    <3> TAKE p \in Pages
    <3>1. p <= pg => p < pg \/ p = pg
      BY <1>0 DEF Pages
    <3>. QED
      BY <1>0, <2>1, <2>2, <3>1
  <2>4. CASE pg = P - 1
    <3>1. pg' = 0 /\ pc' = "down" /\ NoRam
      BY <1>2, <2>4 DEF CleanPage
    <3>2. \A p \in Pages : flash'[p] = Blank /\ nextFree'[p] = 0 /\ cntUsed'[p] = 0
      <4>1. \A p \in Pages : p <= pg
        BY <1>0, <2>4 DEF Pages
      <4>. QED
        BY <2>3, <3>1, <4>1 DEF NoRam
    <3>3. used' = <<>> /\ free' = <<>> /\ DOMAIN <<>> = {}
      BY <3>1 DEF NoRam
    <3>4. Lists'
      BY <3>3 DEF Lists, Holds, Injective
    <3>5. Stage'
      BY <2>1, <2>2, <3>1, <3>2 DEF Stage, InPage
    <3>6. Phase'
      BY <3>1 DEF Phase
    <3>7. ASSUME NEW p \in Pages PROVE PageInv(p)'
      BY <3>1, <3>2, QuietNext, BlankPage
    <3>. QED
      BY <3>4, <3>5, <3>6, <3>7 DEF LogInv
  <2>5. CASE pg # P - 1
    <3>1. pg' = pg + 1 /\ pc' = "clean" /\ UNCHANGED <<used, free, nextFree, cntUsed>>
      BY <1>2, <2>1, <2>5 DEF CleanPage, ram
    <3>2. \A p \in Pages : p < pg + 1 => flash'[p] = Blank
      <4>1. \A p \in Pages : p < pg + 1 => p <= pg
        BY <1>0 DEF Pages
      <4>. QED
        BY <2>3, <4>1
    <3>3. Lists'
      <4>1. \A p \in Pages : Holds(free, p) => flash'[p] = Blank
        BY <1>0, <2>1 DEF LogInv, Lists
      <4>. QED
        BY <2>1, <3>1, <4>1 DEF LogInv, Lists, Holds, Injective
    <3>4. Stage'
      BY <2>1, <2>2, <3>1, <3>2 DEF Stage, InPage
    <3>5. Phase'
      BY <3>1 DEF Phase
    <3>. QED
      BY <3>1, <3>3, <3>4, <3>5 DEF LogInv
  <2>. QED
    BY <2>4, <2>5
<1>. QED
  BY <1>1, <1>2

\* The free list of an area without used pages starts with page 0.
LEMMA SectorOrder ==
  ASSUME NEW s \in InSectorOrder(Pages)
  PROVE  s \in Seq(Pages) /\ s # <<>> /\ Injective(s) /\ Head(s) = 0 /\ Len(s) = P
<1>1. P \in Nat /\ P >= 2 /\ IsFiniteSet(Pages) /\ Cardinality(Pages) = P
  <2>1. 0 \in Int /\ P - 1 \in Int /\ P \in Nat /\ P >= 2
    BY SizeAssumption
  <2>2. IsFiniteSet(0..(P - 1)) /\ Cardinality(0..(P - 1)) = IF 0 > P - 1 THEN 0 ELSE P - 1 - 0 + 1
    BY <2>1, FS_Interval
  <2>. QED
    BY <2>1, <2>2 DEF Pages
<1>2. s \in [1..P -> Pages] /\ \A m, n \in 1..P : m < n => s[m] < s[n]
  BY <1>1 DEF InSectorOrder
<1>3. s \in Seq(Pages) /\ Len(s) = P /\ s # <<>> /\ Head(s) = s[1]
  <2>1. s \in Seq(Pages) /\ Len(s) = P
    BY <1>1, <1>2, ListType
  <2>2. s # <<>>
    BY <1>1, <2>1
  <2>. QED
    BY <2>1, <2>2
<1>4. \A m, n \in 1..P : s[m] = s[n] => m = n
  <2> TAKE m, n \in 1..P
  <2>1. m \in Nat /\ n \in Nat /\ (m < n \/ n < m \/ m = n)
    BY <1>1
  <2>2. s[m] \in Nat /\ s[n] \in Nat
    BY <1>1, <1>2 DEF Pages
  <2>3. (m < n => s[m] < s[n]) /\ (n < m => s[n] < s[m])
    BY <1>2
  <2>. QED
    BY <2>1, <2>2, <2>3
<1>5. s \in Surjection(1..P, Pages)
  <2>1. s \in Injection(1..P, Pages)
    BY <1>2, <1>4 DEF Injection, IsInjective
  <2>2. Cardinality(1..P) = P
    <3>1. Cardinality(1..P) = IF 1 > P THEN 0 ELSE P - 1 + 1
      BY <1>1, FS_Interval
    <3>. QED
      BY <1>1, <3>1
  <2>. QED
    BY <1>1, <2>1, <2>2, FS_Injection
<1>6. 0 \in Pages
  BY <1>1 DEF Pages
<1>7. PICK m \in 1..P : s[m] = 0
  BY <1>5, <1>6 DEF Surjection
<1>8. s[1] \in Nat /\ 1 \in 1..P /\ m \in Nat /\ m >= 1
  BY <1>1, <1>2 DEF Pages
<1>9. m = 1
  <2>1. 1 < m => s[1] < s[m]
    BY <1>2, <1>8
  <2>. QED
    BY <1>7, <1>8, <2>1
<1>. QED
  BY <1>2, <1>3, <1>4, <1>7, <1>9 DEF Injective

LEMMA LoadLog ==
  ASSUME LogInv, TypeInv', PagesLoad
  PROVE  LogInv' /\ used' = <<>> /\ Len(free') = P /\ pc' = "header"
<1>1. /\ pc = "down" /\ flash' = MarkedUpdated(BadEntries)
      /\ used' \in InSeqOrder(LoadedPages) /\ free' \in InSectorOrder(Pages \ LoadedPages)
      /\ nextFree' = [p \in Pages |-> IF Loaded(p) THEN LoadNextFree(p) ELSE 0]
      /\ cntUsed'  = [p \in Pages |-> IF Loaded(p) THEN LoadCntUsed(p) ELSE 0]
  BY DEF PagesLoad
<1>2. (\A p \in Pages : flash[p] = Blank) /\ rng = NoRng
  BY <1>1 DEF LogInv, Stage
<1>3. \A p \in Pages : ~Loaded(p)
  BY <1>2 DEF Loaded, Blank
<1>4. LoadedPages = {} /\ BadEntries = {}
  <2>1. LoadedPages = {}
    BY <1>3 DEF LoadedPages
  <2>2. \A x \in Pages \X Idx : x[1] \in Pages
    OBVIOUS
  <2>. QED
    BY <1>3, <2>1, <2>2 DEF BadEntries
<1>5. \A p \in Pages : flash'[p] = Blank
  <2> TAKE p \in Pages
  <2>1. flash'[p] = [flash[p] EXCEPT !.es = [i \in Idx |->
                       IF <<p, i>> \in {} THEN "UPDATED" ELSE flash[p].es[i]]]
    BY <1>1, <1>4 DEF MarkedUpdated
  <2>2. flash[p] = Blank
    BY <1>2
  <2>3. [i \in Idx |-> IF <<p, i>> \in {} THEN "UPDATED" ELSE Blank.es[i]] = Blank.es
    BY DEF Blank
  <2>4. [Blank EXCEPT !.es = Blank.es] = Blank
    BY DEF Blank
  <2>. QED
    BY <2>1, <2>2, <2>3, <2>4
<1>6. \A p \in Pages : nextFree'[p] = 0 /\ cntUsed'[p] = 0
  BY <1>1, <1>3
<1>7. used' = <<>> /\ DOMAIN used' = {}
  <2>1. Cardinality({}) = 0 /\ 1..0 = {}
    BY FS_EmptySet
  <2>2. used' \in [1..Cardinality({}) -> {}] /\ {} \in SUBSET Pages
    BY <1>1, <1>4 DEF InSeqOrder
  <2>3. used' \in Seq(Pages) /\ Len(used') = 0
    BY <2>1, <2>2, ListType
  <2>. QED
    BY <2>1, <2>2, <2>3
<1>8. free' \in Seq(Pages) /\ Injective(free') /\ Head(free') = 0 /\ Len(free') = P
  <2>1. free' \in InSectorOrder(Pages)
    BY <1>1, <1>4
  <2>. QED
    BY <2>1, SectorOrder
<1>9. pg' = 0 /\ pc' = "header" /\ rng' = NoRng
  <2>1. 0 \in Pages
    BY Idle
  <2>2. flash[0].st = "UNINIT"
    BY <1>2, <2>1 DEF Blank
  <2>. QED
    BY <1>2, <1>7, <2>2 DEF PagesLoad
<1>10. Lists'
  BY <1>5, <1>7, <1>8 DEF Lists, Holds, Injective
<1>11. Stage'
  BY <1>8, <1>9 DEF Stage, InPage
<1>12. Phase'
  BY <1>9 DEF Phase
<1>13. ASSUME NEW p \in Pages PROVE PageInv(p)'
  BY <1>5, <1>6, <1>9, QuietNext, BlankPage
<1>. QED
  BY <1>7, <1>8, <1>9, <1>10, <1>11, <1>12, <1>13 DEF LogInv

LEMMA InitLog == Init => LogInv
<1> SUFFICES ASSUME Init PROVE LogInv
  OBVIOUS
<1>1. /\ TypeInv /\ used = <<>> /\ free = <<>> /\ pc = "down" /\ rng = NoRng
      /\ \A p \in Pages : flash[p] = Blank /\ nextFree[p] = 0 /\ cntUsed[p] = 0
  BY InitType DEF Init
<1>2. DOMAIN <<>> = {}
  OBVIOUS
<1>3. Lists
  BY <1>1, <1>2 DEF Lists, Holds, Injective
<1>4. Stage
  BY <1>1 DEF Stage, InPage
<1>5. Phase
  BY <1>1 DEF Phase
<1>6. ASSUME NEW p \in Pages PROVE PageInv(p)
  <2>1. /\ Layout(flash[p], 0, {}) /\ Touched(flash[p], 0, {}) /\ Whole(flash[p], 0, {})
        /\ Used(flash[p]) = {}
    BY <1>1, LayoutBlank
  <2>2. Cardinality({}) = 0
    BY FS_EmptySet
  <2>3. Counted(p) = Used(flash[p]) /\ Unfinished(p) = {}
    BY <1>1, QuietNow
  <2>. QED
    BY <1>1, <2>1, <2>2, <2>3 DEF PageInv
<1>. QED
  BY <1>1, <1>3, <1>4, <1>5, <1>6 DEF LogInv

LEMMA SameLog ==
  ASSUME LogInv, UNCHANGED vars
  PROVE  LogInv'
<1>1. /\ UNCHANGED <<flash, used, free, nextFree, cntUsed, pc, op, pg, vic, rng>>
  BY DEF vars
<1>2. TypeInv'
  BY NextType DEF LogInv
<1>3. Lists'
  BY <1>1 DEF LogInv, Lists, Holds, Injective
<1>4. Stage'
  BY <1>1 DEF LogInv, Stage, Holds
<1>5. Pending' = Pending
  BY <1>1 DEF Pending
<1>6. \A p \in Pages : Counted(p)' = Counted(p) /\ Unfinished(p)' = Unfinished(p)
  BY <1>1, <1>5 DEF Counted, Unfinished, CopyOf
<1>7. Counted(pg)' = Counted(pg)
  BY <1>1, <1>5 DEF Counted
<1>8. Phase'
  BY <1>1, <1>7 DEF LogInv, Phase, Deleting, Writing, Marking, Copying
<1>9. ASSUME pc' # "clean" PROVE \A p \in Pages : PageInv(p)'
  BY <1>1, <1>6, <1>9 DEF LogInv, PageInv
<1>. QED
  BY <1>2, <1>3, <1>4, <1>8, <1>9 DEF LogInv

LEMMA NextLog == LogInv /\ MaxCrashes = 0 /\ [Next]_vars => LogInv'
<1> SUFFICES ASSUME LogInv, MaxCrashes = 0, [Next]_vars PROVE LogInv'
  OBVIOUS
<1>1. TypeInv'
  BY NextType DEF LogInv
<1>2. CASE UNCHANGED vars
  BY <1>2, SameLog
<1>3. ASSUME NEW k \in Keys, NEW v \in Values, PutSame(k, v) \/ PutStart(k, v)
      PROVE  LogInv'
  <2>1. CASE PutSame(k, v) \/ (PutStart(k, v) /\ ~Found(k))
    BY <1>1, <2>1, CalmLog
  <2>2. CASE PutStart(k, v) /\ Found(k)
    BY <1>1, <2>2, DeleteStartLog DEF PutStart, ram
  <2>. QED
    BY <1>3, <2>1, <2>2
<1>4. ASSUME NEW k \in Keys, DelStart(k) \/ DelMissing(k)
      PROVE  LogInv'
  <2>1. CASE DelStart(k)
    BY <1>1, <2>1, DeleteStartLog DEF DelStart, ram
  <2>2. CASE DelMissing(k)
    BY <1>1, <2>2, CalmLog
  <2>. QED
    BY <1>4, <2>1, <2>2
<1>5. ~EraseFree
  BY DEF EraseFree, LogInv, Stage
<1>6. ~(LoadInterrupted \/ Crash \/ CrashTorn)
  <2>1. crashes \in Nat
    BY DEF LogInv, TypeInv, TypeOK
  <2>2. ~(crashes < MaxCrashes)
    BY <2>1
  <2>. QED
    BY <2>2 DEF LoadInterrupted, Crash, CrashTorn, PowerLoss
<1>7. CASE Step
  BY <1>1, <1>5, <1>7, CalmLog, DeleteLog, HeaderLog, CandidateLog, CopyLog, CopyMarkLog,
     EraseLog, EntryLog, DataLog, MarkLog, CleanLog, LoadLog DEF Step
<1>8. CASE Call
  BY <1>1, <1>3, <1>4, <1>8, CleanLog DEF Call
<1>. QED
  BY <1>2, <1>6, <1>7, <1>8 DEF Next

\* Between calls entry_cnt_used of every used page, by which new_page_request
\* chooses the page to reclaim, is the number of its USED entries: whatever puts,
\* deletes, reclaims and cleans came before, for every number of pages, page size
\* and set of values, as long as power stays on.
THEOREM CountsAreExact ==
  ASSUME MaxCrashes = 0
  PROVE  Spec => []CountsExact
<1>1. LogInv => CountsExact
  <2> SUFFICES ASSUME LogInv, pc = "idle", NEW n \in DOMAIN used
               PROVE  cntUsed[used[n]] = LiveCount(used[n])
    BY DEF CountsExact
  <2>1. used[n] \in Pages
    BY DEF LogInv, TypeInv, TypeOK
  <2>2. PageInv(used[n]) /\ Counted(used[n]) = Used(flash[used[n]])
    BY <2>1, QuietNow DEF LogInv
  <2>. QED
    BY <2>2 DEF PageInv, LiveCount, Used
<1>2. LogInv /\ [Next]_vars => LogInv'
  BY NextLog
<1>. QED
  BY <1>1, <1>2, InitLog, PTL DEF Spec
=============================================================================
