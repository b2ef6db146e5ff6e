----------------------------- MODULE RestoreProofs -----------------------------
(***************************************************************************)
(* Checkpoints of Network: what a load that returns has brought back.  The *)
(* file holds what its save began with, as far as it goes, and a load that *)
(* has read n groups and m connections has those of the image in memory.   *)
(* With it, what the format checks on the way: storage is always sound, so *)
(* no file that a save completed is ever found corrupt.  On the same       *)
(* invariant rests the refinement: what each step does to the arrays of    *)
(* the connections is what Synapses says it does to the synapses.          *)
(***************************************************************************)
EXTENDS NetworkProofs, FiniteSetTheorems

\* What is stored of a group and of a connection: a connection is between groups, and
\* has the storage its layout asks for between groups of their sizes.
GroupShape(g) ==
  /\ g = [name |-> g.name, size |-> g.size, v |-> g.v, window |-> g.window, hold |-> g.hold]
  /\ g.size \in Nat
GroupShapes(gs) == \A g \in DOMAIN gs : GroupShape(gs[g])
ConnShape(c) ==
  /\ c = [kind |-> c.kind, src |-> c.src, dst |-> c.dst, plastic |-> c.plastic,
          rowptr |-> c.rowptr, cols |-> c.cols, vals |-> c.vals]
  /\ c.kind # "sparse" => c.rowptr = <<>> /\ c.cols = <<>>
Fits(c, gs) ==
  c.src \in DOMAIN gs /\ c.dst \in DOMAIN gs /\ ConnSound(c, gs[c.src].size, gs[c.dst].size)
ConnShapes(cs, gs) == \A i \in DOMAIN cs : ConnShape(cs[i]) /\ Fits(cs[i], gs)
Distinct(cs) == \A i, k \in DOMAIN cs : cs[i].src = cs[k].src /\ cs[i].dst = cs[k].dst => i = k
Shapes == GroupShapes(groups) /\ ConnShapes(conns, groups) /\ Distinct(conns)

-----------------------------------------------------------------------------
(* The file holds the image, as far as it goes; but for what is learned.    *)

ImageWhole ==
  /\ Listed(image.groups) /\ Listed(image.conns) /\ GroupShapes(image.groups)
  /\ ConnShapes(image.conns, image.groups) /\ Distinct(image.conns)
  /\ file[1].groups = Len(image.groups) /\ file[1].conns = Len(image.conns)
GroupHeld(f, j) ==
  /\ f[j + 1].name = image.groups[j].name /\ f[j + 1].size = image.groups[j].size
  /\ ~image.learned => f[j + 1].v = image.groups[j].v
\* Weights of the image, or what was learned since.
Values(v, w) == v \in Seq(Int) /\ Len(v) = Len(w) /\ (~image.learned => v = w)
ConnHeld(f, i, p) ==
  LET c == image.conns[i]  r == f[p] IN
  /\ r.kind = c.kind /\ r.plastic = c.plastic
  /\ r.src = image.groups[c.src].name /\ r.dst = image.groups[c.dst].name
  /\ c.kind = "sparse" /\ p + 1 <= Len(f) => f[p + 1].a = c.rowptr
  /\ c.kind = "sparse" /\ p + 2 <= Len(f) => f[p + 2].a = c.cols
  /\ p + ChunksOf(r) - 1 <= Len(f) => Values(f[p + ChunksOf(r) - 1].a, c.vals)
GroupsHeld(f) == \A j \in 1 .. f[1].groups : j + 1 <= Len(f) => GroupHeld(f, j)
ConnsHeld(f, at) == \A i \in 1 .. Len(at) : ConnHeld(f, i, at[i])

\* Memory, while a save goes on.
SameGroup(g, h) == g.name = h.name /\ g.size = h.size /\ (~image.learned => g.v = h.v)
SameConn(c, d) ==
  /\ c.kind = d.kind /\ c.src = d.src /\ c.dst = d.dst /\ c.plastic = d.plastic
  /\ c.rowptr = d.rowptr /\ c.cols = d.cols /\ Values(c.vals, d.vals)
Saved ==
  /\ \A j \in 1 .. Len(groups) : SameGroup(groups[j], image.groups[j])
  /\ \A i \in 1 .. Len(conns) : SameConn(conns[i], image.conns[i])
Held ==
  file # <<>> =>
    /\ ImageWhole /\ GroupsHeld(file) /\ \A at : Layout(file, at) => ConnsHeld(file, at)
    /\ saving # Idle => Saved

-----------------------------------------------------------------------------
(* The first n groups and m connections of the image are back in memory.    *)

GroupBack(j) ==
  LET g == ByName(image.groups[j].name) IN
  /\ g # 0 /\ groups[g].size = image.groups[j].size
  /\ NamesDiffer(image.groups) /\ ~image.learned => groups[g].v = image.groups[j].v
IsBack(now, c) ==
  /\ now.src = ByName(image.groups[c.src].name) /\ now.dst = ByName(image.groups[c.dst].name)
  /\ now.kind = c.kind /\ now.plastic = c.plastic /\ now.rowptr = c.rowptr /\ now.cols = c.cols
  /\ ~image.learned => now.vals = c.vals
ConnBack(i) == \E k \in DOMAIN conns : IsBack(conns[k], image.conns[i])
Back(n, m) ==
  /\ \A j \in 1 .. n : GroupBack(j)
  /\ NamesDiffer(image.groups) => \A i \in 1 .. m : ConnBack(i)

\* How far a load is that reads item next.
GroupsIn(item) == IF item[1] = "group" THEN item[2] - 1 ELSE file[1].groups
ConnsIn(item) ==
  IF item[1] = "group" THEN 0 ELSE IF item[1] = "conn" THEN item[2] - 1 ELSE file[1].conns
InLoad == Back(GroupsIn(loading.item), ConnsIn(loading.item))
FileBack == saving = Idle /\ file # <<>> /\ Back(file[1].groups, file[1].conns)
Loaded == (loading # NoLoad => InLoad) /\ (last.op = "load" => FileBack)

RInv == Shapes /\ Held /\ Loaded

-----------------------------------------------------------------------------
(* Groups are found by name.                                                *)

\* The first position of a name in a sequence, 0 if there is none.
First(gs, n) == LET I == {k \in 1 .. Len(gs) : gs[k].name = n} IN IF I # {} THEN Min(I) ELSE 0

LEMMA ByNameIsFirst ==
  ASSUME NEW n
  PROVE  ByName(n) = First(groups, n) /\ ByName(n)' = First(groups', n)
<1>1. ByName(n) = First(groups, n)
  BY DEF ByName, SelectInSeq, First
<1>2. ByName(n)' = First(groups', n)
  BY DEF ByName, SelectInSeq, First
<1> QED
  BY <1>1, <1>2

LEMMA FirstFinds ==
  ASSUME NEW gs, Listed(gs), NEW n
  PROVE  LET i == First(gs, n) IN
         /\ i \in 0 .. Len(gs)
         /\ i # 0 => gs[i].name = n /\ \A k \in 1 .. Len(gs) : gs[k].name = n => i <= k
         /\ i = 0 => \A k \in 1 .. Len(gs) : gs[k].name # n
<1> DEFINE I == {k \in 1 .. Len(gs) : gs[k].name = n}
<1>1. Len(gs) \in Nat /\ I \in SUBSET Nat
  BY ListedLen
<1>2. ASSUME I # {} PROVE Min(I) \in I /\ \A k \in I : Min(I) <= k
  <2> HIDE DEF I
  <2> QED
    BY <1>1, <1>2, LeastNumber
<1> QED
  BY <1>1, <1>2 DEF First

LEMMA FirstLast ==
  ASSUME NEW gs, Listed(gs), NEW x, NEW n, x.name = n, \A k \in 1 .. Len(gs) : gs[k].name # n
  PROVE  First(Append(gs, x), n) = Len(gs) + 1
<1>1. PICK hs, i : hs = Append(gs, x) /\ i = First(hs, n)
  OBVIOUS
<1>2. /\ Listed(hs) /\ Len(hs) = Len(gs) + 1 /\ hs[Len(gs) + 1] = x /\ Len(gs) \in Nat
      /\ \A k \in 1 .. Len(gs) : hs[k] = gs[k]
  BY <1>1, AppendListed, ListedLen
<1>3. /\ i \in 0 .. Len(hs)
      /\ i # 0 => hs[i].name = n /\ \A k \in 1 .. Len(hs) : hs[k].name = n => i <= k
      /\ i = 0 => \A k \in 1 .. Len(hs) : hs[k].name # n
  <2>1. /\ First(hs, n) \in 0 .. Len(hs)
        /\ First(hs, n) # 0 => hs[First(hs, n)].name = n /\ \A k \in 1 .. Len(hs) : hs[k].name = n => First(hs, n) <= k
        /\ First(hs, n) = 0 => \A k \in 1 .. Len(hs) : hs[k].name # n
    <3>1. Listed(hs)
      BY <1>2
    <3> QED
      BY <3>1, FirstFinds
  <2>2. i = First(hs, n)
    BY <1>1
  <2> QED
    BY <2>1, <2>2, Zenon
<1>4. i # 0
  BY <1>2, <1>3
<1> QED
  BY <1>1, <1>2, <1>3, <1>4

\* What a name stands for does not change while groups keep their names and sizes.
GroupsKept ==
  /\ Len(groups) <= Len(groups')
  /\ \A i \in 1 .. Len(groups) : groups'[i].name = groups[i].name /\ groups'[i].size = groups[i].size
LEMMA NameStays ==
  ASSUME Lists, Lists', GroupsKept, NEW n, ByName(n) # 0
  PROVE  ByName(n)' = ByName(n)
<1>1. Len(groups) \in Nat /\ Len(groups') \in Nat /\ Len(groups) <= Len(groups')
  BY ListedLen DEF Lists, GroupsKept
<1> DEFINE i == First(groups, n)
           k == First(groups', n)
<1>2. /\ i \in 1 .. Len(groups) /\ groups[i].name = n
      /\ \A m \in 1 .. Len(groups) : groups[m].name = n => i <= m
  BY FirstFinds, ByNameIsFirst DEF Lists
<1>3. /\ k \in 0 .. Len(groups')
      /\ k # 0 => groups'[k].name = n /\ \A m \in 1 .. Len(groups') : groups'[m].name = n => k <= m
      /\ k = 0 => \A m \in 1 .. Len(groups') : groups'[m].name # n
  BY FirstFinds DEF Lists
<1>4. ByName(n) = i /\ ByName(n)' = k
  BY ByNameIsFirst
<1> HIDE DEF i, k
<1>5. i \in 1 .. Len(groups') /\ groups'[i].name = n
  BY <1>1, <1>2 DEF GroupsKept
<1>6. k # 0 /\ k <= i
  BY <1>3, <1>5
<1>7. k \in 1 .. Len(groups) /\ groups[k].name = n
  BY <1>1, <1>2, <1>3, <1>6 DEF GroupsKept
<1>8. i = k
  BY <1>1, <1>2, <1>6, <1>7
<1> QED
  BY <1>4, <1>8

-----------------------------------------------------------------------------
(* Connections are found by their pair.                                     *)

\* drop_conns leaves those of other pairs, and each pair once.
LEMMA Dropped ==
  ASSUME Listed(conns), Distinct(conns), NEW src, NEW dst
  PROVE  LET d == DropConns(src, dst) IN
         /\ Listed(d) /\ Distinct(d)
         /\ \A k \in DOMAIN d : ~(d[k].src = src /\ d[k].dst = dst) /\ \E m \in DOMAIN conns : d[k] = conns[m]
         /\ \A m \in DOMAIN conns : (conns[m].src = src /\ conns[m].dst = dst) \/ \E k \in DOMAIN d : d[k] = conns[m]
<1> DEFINE i == FindConn(src, dst)
           d == DropConns(src, dst)
           S == {conns[k] : k \in DOMAIN conns}
<1>1. /\ i \in 0 .. Len(conns)
      /\ i # 0 => conns[i].src = src /\ conns[i].dst = dst
      /\ i = 0 => \A k \in 1 .. Len(conns) : ~(conns[k].src = src /\ conns[k].dst = dst)
  BY Finds
<1>2. Len(conns) \in Nat /\ DOMAIN conns = 1 .. Len(conns) /\ conns \in Seq(S) /\ Listed(d)
  BY ListedLen, Drops DEF Listed
<1>3. d = IF i = 0 THEN conns ELSE SubSeq(conns, 1, i - 1) \o SubSeq(conns, i + 1, Len(conns))
  BY DEF DropConns, RemoveAt
<1> HIDE DEF i, d, S
<1>4. CASE i = 0
  BY <1>1, <1>2, <1>3, <1>4 DEF d
<1>5. CASE i # 0
  <2> DEFINE a == SubSeq(conns, 1, i - 1)
             b == SubSeq(conns, i + 1, Len(conns))
  <2>1. a \in Seq(S) /\ Len(a) = i - 1 /\ \A k \in 1 .. i - 1 : a[k] = conns[k]
    BY <1>1, <1>2, <1>5, SubSeqProperties
  <2>2. b \in Seq(S) /\ Len(b) = Len(conns) - i /\ \A k \in 1 .. Len(conns) - i : b[k] = conns[i + k]
    <3>1. i + 1 \in 1 .. Len(conns) + 1 /\ Len(conns) \in (i + 1) - 1 .. Len(conns)
      BY <1>1, <1>2, <1>5
    <3>2. /\ b \in Seq(S) /\ Len(b) = Len(conns) - (i + 1) + 1
          /\ \A k \in 1 .. Len(conns) - (i + 1) + 1 : b[k] = conns[(i + 1) + k - 1]
      BY <1>2, <3>1, SubSeqProperties
    <3>3. Len(conns) - (i + 1) + 1 = Len(conns) - i /\ \A k \in 1 .. Len(conns) - i : (i + 1) + k - 1 = i + k
      BY <1>1, <1>2, <1>5
    <3> QED
      BY <3>2, <3>3
  <2> HIDE DEF a, b
  <2>3. /\ Len(d) = Len(conns) - 1 /\ DOMAIN d = 1 .. Len(d)
        /\ \A k \in 1 .. Len(d) : d[k] = IF k < i THEN conns[k] ELSE conns[k + 1]
    <3>1. d = a \o b
      BY <1>3, <1>5 DEF a, b
    <3>2. /\ Len(a \o b) = Len(a) + Len(b)
          /\ \A k \in 1 .. Len(a) + Len(b) : (a \o b)[k] = IF k <= Len(a) THEN a[k] ELSE b[k - Len(a)]
      BY <2>1, <2>2, ConcatProperties
    <3> QED
      BY <1>1, <1>2, <1>5, <2>1, <2>2, <3>1, <3>2, ListedLen
  <2>4. \A k \in DOMAIN d : \E m \in DOMAIN conns : m # i /\ d[k] = conns[m] /\ m = IF k < i THEN k ELSE k + 1
    BY <1>1, <1>2, <1>5, <2>3
  <2>5. \A m \in DOMAIN conns : m # i => \E k \in DOMAIN d : d[k] = conns[m]
    <3> SUFFICES ASSUME NEW m \in DOMAIN conns, m # i PROVE \E k \in DOMAIN d : d[k] = conns[m]
      OBVIOUS
    <3>1. CASE m < i
      BY <1>1, <1>2, <1>5, <2>3, <3>1
    <3>2. CASE m > i
      <4>1. m - 1 \in DOMAIN d /\ d[m - 1] = conns[m]
        BY <1>1, <1>2, <1>5, <2>3, <3>2
      <4> QED
        BY <4>1
    <3> QED
      BY <1>1, <1>2, <3>1, <3>2
  <2>6. \A m \in DOMAIN conns : conns[m].src = src /\ conns[m].dst = dst <=> m = i
    BY <1>1, <1>2, <1>5 DEF Distinct
  <2>7. Distinct(d)
    <3> SUFFICES ASSUME NEW k \in DOMAIN d, NEW l \in DOMAIN d, d[k].src = d[l].src, d[k].dst = d[l].dst PROVE k = l
      BY DEF Distinct
    <3>1. PICK m \in DOMAIN conns : d[k] = conns[m] /\ m = IF k < i THEN k ELSE k + 1
      BY <2>4
    <3>2. PICK n \in DOMAIN conns : d[l] = conns[n] /\ n = IF l < i THEN l ELSE l + 1
      BY <2>4
    <3>3. m = n
      BY <3>1, <3>2 DEF Distinct
    <3> QED
      BY <1>1, <1>2, <2>3, <3>1, <3>2, <3>3
  <2> QED
    BY <1>2, <2>4, <2>5, <2>6, <2>7 DEF d
<1> QED
  BY <1>4, <1>5

\* A connection that is linked in is there, and those of other pairs stay.
LEMMA Linked ==
  ASSUME Lists, Shapes, groups' = groups, NEW c, ConnShape(c), Fits(c, groups),
         conns' = Append(DropConns(c.src, c.dst), c)
  PROVE  /\ Shapes'
         /\ \E k \in DOMAIN conns' : conns'[k] = c
         /\ \A m \in DOMAIN conns : (conns[m].src = c.src /\ conns[m].dst = c.dst) \/ \E k \in DOMAIN conns' : conns'[k] = conns[m]
<1> DEFINE d == DropConns(c.src, c.dst)
<1>1. /\ Listed(d) /\ Distinct(d)
      /\ \A k \in DOMAIN d : ~(d[k].src = c.src /\ d[k].dst = c.dst) /\ \E m \in DOMAIN conns : d[k] = conns[m]
      /\ \A m \in DOMAIN conns : (conns[m].src = c.src /\ conns[m].dst = c.dst) \/ \E k \in DOMAIN d : d[k] = conns[m]
  BY Dropped DEF Lists, Shapes
<1> HIDE DEF d
<1>2. /\ conns' = Append(d, c) /\ Len(d) \in Nat /\ DOMAIN d = 1 .. Len(d)
      /\ DOMAIN conns' = 1 .. Len(d) + 1 /\ conns'[Len(d) + 1] = c
      /\ \A k \in 1 .. Len(d) : conns'[k] = d[k]
  <2>1. conns' = Append(d, c)
    BY DEF d
  <2> QED
    BY <1>1, <2>1, AppendListed, ListedLen
<1>3. \A k \in DOMAIN conns' : (conns'[k] = c /\ k = Len(d) + 1) \/ (k \in DOMAIN d /\ conns'[k] = d[k])
  <2>1. \A k \in 1 .. Len(d) + 1 : k = Len(d) + 1 \/ k \in 1 .. Len(d)
    BY <1>2
  <2> QED
    BY <1>2, <2>1
<1>4. ConnShapes(conns', groups)
  BY <1>1, <1>3 DEF ConnShapes, Shapes
<1>5. Distinct(conns')
  BY <1>1, <1>3 DEF Distinct
<1> QED
  BY <1>1, <1>2, <1>4, <1>5 DEF Shapes

\* Where groups keep their sizes, connections fit.
LEMMA FitsStill ==
  ASSUME DOMAIN groups \subseteq DOMAIN groups', \A g \in DOMAIN groups : groups'[g].size = groups[g].size,
         NEW c, Fits(c, groups)
  PROVE  Fits(c, groups')
  BY DEF Fits

\* A stored connection takes another's place if it is of the same pair.
LEMMA Replaced ==
  ASSUME Lists, Shapes, DOMAIN groups' = DOMAIN groups, GroupShapes(groups'),
         \A g \in DOMAIN groups : groups'[g].size = groups[g].size,
         NEW i \in DOMAIN conns, NEW c, ConnShape(c), Fits(c, groups),
         c.src = conns[i].src, c.dst = conns[i].dst, conns' = [conns EXCEPT ![i] = c]
  PROVE  Shapes'
<1>1. DOMAIN conns' = DOMAIN conns /\ \A k \in DOMAIN conns : conns'[k] = IF k = i THEN c ELSE conns[k]
  OBVIOUS
<1>2. ConnShapes(conns', groups')
  BY <1>1, FitsStill DEF ConnShapes, Shapes
<1>3. Distinct(conns')
  BY <1>1 DEF Distinct, Shapes
<1> QED
  BY <1>2, <1>3 DEF Shapes

\* A group goes last, or changes in its membrane and window.
LEMMA GroupAdded ==
  ASSUME Lists, Shapes, NEW r, GroupShape(r),
         groups' = Append(groups, r), conns' = conns
  PROVE  /\ Shapes' /\ GroupsKept /\ \A i \in 1 .. Len(groups) : groups'[i] = groups[i]
         /\ Len(groups') = Len(groups) + 1 /\ groups'[Len(groups) + 1] = r
<1>1. /\ Len(groups) \in Nat /\ DOMAIN groups = 1 .. Len(groups) /\ DOMAIN groups' = 1 .. Len(groups) + 1
      /\ Len(groups') = Len(groups) + 1 /\ groups'[Len(groups) + 1] = r
      /\ \A i \in 1 .. Len(groups) : groups'[i] = groups[i]
  BY AppendListed, ListedLen DEF Lists
<1>2. \A i \in DOMAIN groups' : i = Len(groups) + 1 \/ i \in DOMAIN groups
  BY <1>1
<1>3. GroupShapes(groups')
  BY <1>1, <1>2 DEF GroupShapes, Shapes
<1>4. DOMAIN groups \subseteq DOMAIN groups'
  BY <1>1
<1>5. ConnShapes(conns', groups')
  BY <1>1, <1>4, FitsStill DEF ConnShapes, Shapes
<1>6. GroupsKept
  BY <1>1 DEF GroupsKept
<1> QED
  BY <1>1, <1>3, <1>5, <1>6 DEF Shapes

Patched(g, h) ==
  h = [name |-> g.name, size |-> g.size, v |-> h.v, window |-> h.window, hold |-> g.hold]
LEMMA GroupsPatched ==
  ASSUME Lists, Shapes, DOMAIN groups' = DOMAIN groups, Len(groups') = Len(groups), conns' = conns,
         \A i \in DOMAIN groups : Patched(groups[i], groups'[i])
  PROVE  Shapes' /\ GroupsKept
<1>1. Len(groups) \in Nat /\ DOMAIN groups = 1 .. Len(groups)
  BY ListedLen DEF Lists
<1>2. /\ GroupShapes(groups')
      /\ \A i \in DOMAIN groups : groups'[i].name = groups[i].name /\ groups'[i].size = groups[i].size
  BY DEF GroupShapes, GroupShape, Patched, Shapes
<1>3. ConnShapes(conns', groups')
  BY <1>2, FitsStill DEF ConnShapes, Shapes
<1> QED
  BY <1>1, <1>2, <1>3 DEF Shapes, GroupsKept

LEMMA WindowsPatched ==
  ASSUME Lists, Shapes, NEW src, NEW dst, NEW window, groups' = WindowSet(groups, src, dst, window), conns' = conns
  PROVE  Shapes' /\ GroupsKept /\ \A i \in DOMAIN groups : groups'[i].v = groups[i].v
<1>1. DOMAIN groups' = DOMAIN groups /\ Len(groups') = Len(groups)
  BY WindowListed DEF WindowSet, Lists
<1>2. \A i \in DOMAIN groups : Patched(groups[i], groups'[i]) /\ groups'[i].v = groups[i].v
  <2> SUFFICES ASSUME NEW i \in DOMAIN groups
               PROVE  Patched(groups[i], groups'[i]) /\ groups'[i].v = groups[i].v
    OBVIOUS
  <2>1. groups'[i] = IF i \in {src, dst} THEN [groups[i] EXCEPT !.window = window] ELSE groups[i]
    BY DEF WindowSet
  <2>2. groups[i] = [name |-> groups[i].name, size |-> groups[i].size, v |-> groups[i].v,
                     window |-> groups[i].window, hold |-> groups[i].hold]
    BY DEF Shapes, GroupShapes, GroupShape
  <2> QED
    BY <2>1, <2>2 DEF Patched
<1> QED
  BY <1>1, <1>2, GroupsPatched

\* A connection of these fields; without rows, it has the shape of one.
Fields(c, kind, src, dst, plastic, r, k, v) ==
  c = [kind |-> kind, src |-> src, dst |-> dst, plastic |-> plastic, rowptr |-> r, cols |-> k, vals |-> v]
LEMMA FieldsShape ==
  ASSUME NEW c, NEW kind, NEW src, NEW dst, NEW plastic, NEW r, NEW k, NEW v,
         Fields(c, kind, src, dst, plastic, r, k, v), kind # "sparse" => r = <<>> /\ k = <<>>
  PROVE  /\ ConnShape(c) /\ c.kind = kind /\ c.src = src /\ c.dst = dst /\ c.plastic = plastic
         /\ c.rowptr = r /\ c.cols = k /\ c.vals = v
<1>1. /\ c.kind = kind /\ c.src = src /\ c.dst = dst /\ c.plastic = plastic
      /\ c.rowptr = r /\ c.cols = k /\ c.vals = v
  BY DEF Fields
<1> QED
  BY <1>1 DEF Fields, ConnShape

\* One whose weights are replaced, and one whose arrays are.
WithValues(d, c, v) == d = [c EXCEPT !.vals = v]
WithRows(d, c, r, k, v) == d = [c EXCEPT !.rowptr = r, !.cols = k, !.vals = v]
LEMMA ValuesPut ==
  ASSUME NEW c, ConnShape(c), NEW v, NEW d, WithValues(d, c, v)
  PROVE  /\ ConnShape(d) /\ d.kind = c.kind /\ d.src = c.src /\ d.dst = c.dst /\ d.plastic = c.plastic
         /\ d.rowptr = c.rowptr /\ d.cols = c.cols /\ d.vals = v
  BY DEF ConnShape, WithValues

LEMMA RowsPut ==
  ASSUME NEW c, ConnShape(c), c.kind = "sparse", NEW r, NEW k, NEW v,
         NEW d, WithRows(d, c, r, k, v)
  PROVE  /\ ConnShape(d) /\ d.kind = "sparse" /\ d.src = c.src /\ d.dst = c.dst /\ d.plastic = c.plastic
         /\ d.rowptr = r /\ d.cols = k /\ d.vals = v
<1>1. PICK d1 : d1 = [c EXCEPT !.rowptr = r]
  OBVIOUS
<1>2. PICK d2 : d2 = [d1 EXCEPT !.cols = k]
  OBVIOUS
<1>3. PICK d3 : d3 = [d2 EXCEPT !.vals = v]
  OBVIOUS
<1>4. d = d3
  BY <1>1, <1>2, <1>3 DEF WithRows
<1>5. PICK kind, src, dst, plastic : kind = c.kind /\ src = c.src /\ dst = c.dst /\ plastic = c.plastic
  OBVIOUS
<1>6. d1 = [kind |-> kind, src |-> src, dst |-> dst, plastic |-> plastic,
            rowptr |-> r, cols |-> c.cols, vals |-> c.vals]
  BY <1>1, <1>5 DEF ConnShape
<1>7. d2 = [kind |-> kind, src |-> src, dst |-> dst, plastic |-> plastic,
            rowptr |-> r, cols |-> k, vals |-> c.vals]
  BY <1>2, <1>6
<1>8. d3 = [kind |-> kind, src |-> src, dst |-> dst, plastic |-> plastic,
            rowptr |-> r, cols |-> k, vals |-> v]
  BY <1>3, <1>7
<1>9. Fields(d, kind, src, dst, plastic, r, k, v)
  BY <1>4, <1>8, Zenon DEF Fields
<1> QED
  BY <1>5, <1>9, FieldsShape

\* What the operations make of a connection is one of the same pair, that fits.
Reshaped(c, d) == ConnShape(d) /\ d.src = c.src /\ d.dst = c.dst /\ Fits(d, groups)

LEMMA FitsSizes ==
  ASSUME GroupShapes(groups), NEW c, Fits(c, groups)
  PROVE  SizeOf(c.src) \in Nat /\ SizeOf(c.dst) \in Nat /\ ConnSound(c, SizeOf(c.src), SizeOf(c.dst))
  BY DEF GroupShapes, GroupShape, Fits, SizeOf

LEMMA ValuesFit ==
  ASSUME NEW c, ConnShape(c), Fits(c, groups), NEW v \in Seq(Int), Len(v) = Len(c.vals)
  PROVE  Reshaped(c, [c EXCEPT !.vals = v])
<1>1. PICK d : WithValues(d, c, v)
  BY DEF WithValues
<1>2. /\ ConnShape(d) /\ d.kind = c.kind /\ d.src = c.src /\ d.dst = c.dst
      /\ d.rowptr = c.rowptr /\ d.cols = c.cols /\ d.vals = v
  BY <1>1, ValuesPut
<1>3. PICK m, n : m = groups[c.src].size /\ n = groups[c.dst].size
  OBVIOUS
<1>4. ConnSound(c, m, n)
  BY <1>3 DEF Fits
<1>5. RowsSound(c, m, n) => RowsSound(d, m, n)
  BY <1>2 DEF RowsSound
<1>6. ConnSound(d, m, n)
  BY <1>2, <1>4, <1>5 DEF ConnSound
<1> QED
  BY <1>1, <1>2, <1>3, <1>6 DEF Reshaped, Fits, WithValues

LEMMA RowsFit ==
  ASSUME NEW c, ConnShape(c), Fits(c, groups), c.kind = "sparse", NEW a, RowsSound(a, SizeOf(c.src), SizeOf(c.dst)),
         NEW r, NEW k, NEW v, r = a.rowptr, k = a.cols, v = a.vals
  PROVE  Reshaped(c, [c EXCEPT !.rowptr = r, !.cols = k, !.vals = v])
<1>1. PICK d : WithRows(d, c, r, k, v)
  BY DEF WithRows
<1>2. /\ ConnShape(d) /\ d.kind = "sparse" /\ d.src = c.src /\ d.dst = c.dst
      /\ d.rowptr = r /\ d.cols = k /\ d.vals = v
  BY <1>1, RowsPut
<1>3. PICK m, n : m = groups[c.src].size /\ n = groups[c.dst].size
  OBVIOUS
<1>4. RowsSound(a, m, n)
  BY <1>3 DEF SizeOf
<1>5. RowsSound(d, m, n)
  BY <1>2, <1>4 DEF RowsSound
<1>6. ConnSound(d, m, n)
  BY <1>2, <1>5 DEF ConnSound, RowsSound
<1> QED
  BY <1>1, <1>2, <1>3, <1>6 DEF Reshaped, Fits, WithRows

\* prune cuts to zero or leaves, or compacts the rows.
LEMMA PrunedFits ==
  ASSUME GroupShapes(groups), NEW c, ConnShape(c), Fits(c, groups), NEW t
  PROVE  Reshaped(c, Pruned(c, t))
<1>1. SizeOf(c.src) \in Nat /\ SizeOf(c.dst) \in Nat /\ ConnSound(c, SizeOf(c.src), SizeOf(c.dst))
  BY FitsSizes
<1>2. CASE t = 0
  BY <1>2 DEF Pruned, Reshaped
<1>3. CASE t # 0 /\ c.kind = "sparse"
  <2>1. RowsSound(c, SizeOf(c.src), SizeOf(c.dst))
    BY <1>1, <1>3 DEF ConnSound
  <2>2. PICK a : a = CompactRows(c, t)
    OBVIOUS
  <2>3. PICK r, k, v : /\ r = [a.rowptr EXCEPT ![SizeOf(c.dst) + 1] = a.out]
                       /\ k = SubSeq(a.cols, 1, a.out) /\ v = SubSeq(a.vals, 1, a.out)
    OBVIOUS
  <2>4. PICK d : d = [rowptr |-> r, cols |-> k, vals |-> v]
    OBVIOUS
  <2>5. r = d.rowptr /\ k = d.cols /\ v = d.vals
    BY <2>4
  <2>6. LET b == CompactRows(c, t) IN
          /\ d.rowptr = [b.rowptr EXCEPT ![SizeOf(c.dst) + 1] = b.out]
          /\ d.cols = SubSeq(b.cols, 1, b.out) /\ d.vals = SubSeq(b.vals, 1, b.out)
    BY <2>2, <2>3, <2>5, Zenon
  <2>7. RowsSound(d, SizeOf(c.src), SizeOf(c.dst))
    BY <1>1, <2>1, <2>6, CompactedSound
  <2>8. Reshaped(c, [c EXCEPT !.rowptr = r, !.cols = k, !.vals = v])
    BY <1>3, <2>5, <2>7, RowsFit
  <2>9. Compacted(c, t) = [c EXCEPT !.rowptr = r, !.cols = k, !.vals = v]
    BY <2>2, <2>3, Zenon DEF Compacted
  <2>10. Pruned(c, t) = Compacted(c, t)
    BY <1>3 DEF Pruned
  <2> QED
    BY <2>8, <2>9, <2>10, Zenon
<1>4. CASE t # 0 /\ c.kind # "sparse"
  <2>1. PICK v : v = [k \in DOMAIN c.vals |-> IF Abs(c.vals[k]) < t THEN 0 ELSE c.vals[k]]
    OBVIOUS
  <2>2. c.vals \in Seq(Int) /\ Len(c.vals) \in Nat /\ DOMAIN c.vals = 1 .. Len(c.vals)
    BY <1>1, LenProperties DEF ConnSound
  <2>3. v \in [1 .. Len(c.vals) -> Int]
    BY <2>1, <2>2, Element
  <2>4. v \in Seq(Int) /\ Len(v) = Len(c.vals)
    BY <2>2, <2>3, MadeSeq
  <2>5. Pruned(c, t) = [c EXCEPT !.vals = v]
    BY <1>4, <2>1 DEF Pruned
  <2> QED
    BY <2>4, <2>5, ValuesFit
<1> QED
  BY <1>2, <1>3, <1>4

LEMMA NormalizedFits ==
  ASSUME GroupShapes(groups), NEW c, ConnShape(c), Fits(c, groups), NEW t \in Targets
  PROVE  Reshaped(c, Normalized(c, t))
<1>1. SizeOf(c.src) \in Nat /\ SizeOf(c.dst) \in Nat /\ ConnSound(c, SizeOf(c.src), SizeOf(c.dst)) /\ t \in Nat \ {0}
  BY FitsSizes, TargetAssumption
<1>2. PICK m : m = SizeOf(c.src)
  OBVIOUS
<1>3. PICK v \in Seq(Int) : Len(v) = Len(c.vals) /\ Normalized(c, t) = [c EXCEPT !.vals = v]
  BY <1>1, <1>2, NormalizedNumbers
<1> QED
  BY <1>3, ValuesFit

\* grow merges the list of what it may connect, in order.
LEMMA GrownFits ==
  ASSUME GroupShapes(groups), NEW c, ConnShape(c), Fits(c, groups), c.kind = "sparse",
         NEW pre, NEW Q, NEW x \in Weights
  PROVE  Reshaped(c, Grown(c, Sanitized(pre, c.src), Q, x))
<1>1. PICK m, n, P : m = SizeOf(c.src) /\ n = SizeOf(c.dst) /\ P = Sanitized(pre, c.src)
  OBVIOUS
<1>2. m \in Nat /\ SizeOf(c.dst) \in Nat /\ RowsSound(c, m, SizeOf(c.dst)) /\ x \in Int
  BY <1>1, FitsSizes, WeightAssumption DEF ConnSound
<1>3. P \in Seq(0 .. m - 1) /\ Climbs(P)
  <2>1. PICK S : S = Range(pre) \cap Neuron(c.src)
    OBVIOUS
  <2>2. S \in SUBSET (0 .. m) /\ S \subseteq 0 .. m - 1
    BY <1>1, <1>2, <2>1 DEF Neuron
  <2>3. P = Ascending(S)
    BY <1>1, <2>1 DEF Sanitized
  <2>4. P \in Seq(S) /\ Climbs(P)
    BY <1>2, <2>2, <2>3, AscendingLists
  <2>5. \A i \in DOMAIN P : P[i] \in 0 .. m - 1
    BY <2>2, <2>4, Element
  <2> QED
    BY <2>4, <2>5, Widened
<1>4. PICK a : a = MergeRows(c, P, Q, x)
  OBVIOUS
<1>5. RowsSound(a, m, SizeOf(c.dst))
  BY <1>2, <1>3, <1>4, MergedSound
<1>6. PICK r, k, v : r = a.rowptr /\ k = a.cols /\ v = a.vals
  OBVIOUS
<1>7. Reshaped(c, [c EXCEPT !.rowptr = r, !.cols = k, !.vals = v])
  BY <1>1, <1>5, <1>6, RowsFit
<1>8. Grown(c, P, Q, x) = [c EXCEPT !.rowptr = r, !.cols = k, !.vals = v]
  BY <1>4, <1>6, Zenon DEF Grown
<1> QED
  BY <1>1, <1>7, <1>8, Zenon

LEMMA FlagFits ==
  ASSUME NEW c, ConnShape(c), Fits(c, groups), NEW on
  PROVE  Reshaped(c, [c EXCEPT !.plastic = on])
<1>1. PICK d : d = [c EXCEPT !.plastic = on]
  OBVIOUS
<1>2. /\ ConnShape(d) /\ d.kind = c.kind /\ d.src = c.src /\ d.dst = c.dst
      /\ d.rowptr = c.rowptr /\ d.cols = c.cols /\ d.vals = c.vals
  BY <1>1 DEF ConnShape
<1>3. PICK m, n : m = groups[c.src].size /\ n = groups[c.dst].size
  OBVIOUS
<1>4. ConnSound(d, m, n)
  <2>1. ConnSound(c, m, n)
    BY <1>3 DEF Fits
  <2>2. RowsSound(c, m, n) => RowsSound(d, m, n)
    BY <1>2 DEF RowsSound
  <2> QED
    BY <1>2, <2>1, <2>2 DEF ConnSound
<1> QED
  BY <1>1, <1>2, <1>3, <1>4 DEF Reshaped, Fits

\* A pair in the network has a connection where it is found.
LEMMA PairFound ==
  ASSUME Lists, NEW p \in Pairs
  PROVE  FindConn(p[1], p[2]) \in DOMAIN conns
<1>1. PICK c \in Range(conns) : p = <<c.src, c.dst>>
  BY DEF Pairs
<1>2. PICK k \in DOMAIN conns : c = conns[k]
  BY DEF Range
<1> QED
  BY <1>1, <1>2, Finds, ListedLen DEF Lists

-----------------------------------------------------------------------------
(* The operations of a program.                                             *)

\* Groups keep their names, sizes and membranes, and connections are as they were.
Tame == conns' = conns /\ GroupsKept /\ \A i \in 1 .. Len(groups) : groups'[i].v = groups[i].v

\* What the three ways to connect make.
LEMMA NewShape ==
  ASSUME NEW kind, NEW src, NEW dst, NEW plastic
  PROVE  LET c == NewConn(kind, src, dst, plastic) IN ConnShape(c) /\ c.kind = kind /\ c.src = src /\ c.dst = dst
<1>1. PICK c : c = NewConn(kind, src, dst, plastic)
  OBVIOUS
<1>2. Fields(c, kind, src, dst, plastic, <<>>, <<>>, <<>>)
  BY <1>1 DEF NewConn, Fields
<1>3. ConnShape(c) /\ c.kind = kind /\ c.src = src /\ c.dst = dst
  BY <1>2, FieldsShape
<1> QED
  BY <1>1, <1>3

LEMMA DrawnSound ==
  ASSUME NEW n \in Nat, NEW draw \in Draws
  PROVE  Drawn(n, draw) \in Seq(Int) /\ Len(Drawn(n, draw)) = n
<1>1. draw[1] \in Int /\ draw[2] \in Int
  BY WeightAssumption
<1>2. \A k \in 1 .. n : (k % 2) + 1 \in {1, 2}
  OBVIOUS
<1>3. Drawn(n, draw) \in [1 .. n -> Int]
  BY <1>1, <1>2 DEF Drawn
<1> QED
  BY <1>3, MadeSeq

\* A new connection fits, if its weights are those of its layout.
New(c, src, dst) == ConnShape(c) /\ c.src = src /\ c.dst = dst /\ Fits(c, groups)
LEMMA NewValues ==
  ASSUME NEW src \in DOMAIN groups, NEW dst \in DOMAIN groups, NEW plastic, NEW kind, NEW v \in Seq(Int),
         \/ kind = "dense" /\ Len(v) = SizeOf(src) * SizeOf(dst)
         \/ kind = "one2one" /\ Len(v) = SizeOf(src) /\ SizeOf(src) = SizeOf(dst),
         NEW c, WithValues(c, NewConn(kind, src, dst, plastic), v)
  PROVE  New(c, src, dst)
<1>1. PICK e : e = NewConn(kind, src, dst, plastic)
  OBVIOUS
<1>2. ConnShape(e) /\ e.kind = kind /\ e.src = src /\ e.dst = dst
  BY <1>1, NewShape
<1>3. WithValues(c, e, v)
  BY <1>1
<1>4. ConnShape(c) /\ c.kind = kind /\ c.src = src /\ c.dst = dst /\ c.vals = v
  BY <1>2, <1>3, ValuesPut
<1>5. ConnSound(c, groups[src].size, groups[dst].size)
  BY <1>4 DEF ConnSound, SizeOf
<1> QED
  BY <1>4, <1>5 DEF New, Fits

LEMMA NewRows ==
  ASSUME GroupShapes(groups), NEW src \in DOMAIN groups, NEW dst \in DOMAIN groups, NEW plastic,
         NEW wired \in SUBSET (Neuron(src) \X Neuron(dst)), NEW weight \in Weights,
         NEW a, a = Compressed(wired, SizeOf(dst), weight),
         NEW c, WithRows(c, NewConn("sparse", src, dst, plastic), a.rowptr, a.cols, a.vals)
  PROVE  New(c, src, dst)
<1>1. PICK e : e = NewConn("sparse", src, dst, plastic)
  OBVIOUS
<1>2. ConnShape(e) /\ e.kind = "sparse" /\ e.src = src /\ e.dst = dst
  BY <1>1, NewShape
<1>3. PICK r, k, v : r = a.rowptr /\ k = a.cols /\ v = a.vals
  OBVIOUS
<1>4. WithRows(c, e, r, k, v)
  BY <1>1, <1>3, Zenon
<1>5. /\ ConnShape(c) /\ c.kind = "sparse" /\ c.src = src /\ c.dst = dst
      /\ c.rowptr = r /\ c.cols = k /\ c.vals = v
  BY <1>2, <1>4, RowsPut
<1>6. PICK m, n : m = SizeOf(src) /\ n = SizeOf(dst)
  OBVIOUS
<1>7. m \in Nat /\ n \in Nat /\ weight \in Int /\ wired \in SUBSET ((0 .. m - 1) \X (0 .. n - 1))
  BY <1>6, WeightAssumption DEF GroupShapes, GroupShape, SizeOf, Neuron
<1>8. RowsSound(a, m, n)
  BY <1>6, <1>7, CompressedSound
<1>9. RowsSound(c, m, n)
  BY <1>3, <1>5, <1>8 DEF RowsSound
<1>10. ConnSound(c, m, n)
  BY <1>5, <1>9 DEF ConnSound, RowsSound
<1> QED
  BY <1>5, <1>6, <1>10 DEF New, Fits, SizeOf

\* An edit leaves shapes, and what a load brought back if it leaves that for the last operation.
Edited == Shapes' /\ loading = NoLoad /\ (Tame \/ last'.op # "load")

\* The connect functions link a new connection in.
LEMMA ConnectLinks ==
  ASSUME Shapes, NEW src \in Group, NEW dst \in Group, NEW plastic,
         DenseConnect(src, dst, plastic) \/ SparseConnect(src, dst, plastic) \/ OneToOneConnect(src, dst, plastic)
  PROVE  MainFree /\ groups' = groups /\ \E c : Link(c) /\ New(c, src, dst)
<1>1. src \in DOMAIN groups /\ dst \in DOMAIN groups /\ GroupShapes(groups)
  BY DEF Group, Shapes
<1>2. SizeOf(src) \in Nat /\ SizeOf(dst) \in Nat
  BY <1>1 DEF GroupShapes, GroupShape, SizeOf
<1>3. CASE DenseConnect(src, dst, plastic)
  <2>1. /\ MainFree /\ groups' = groups
        /\ \E draw \in Draws : Link([NewConn("dense", src, dst, plastic) EXCEPT
                                       !.vals = Drawn(SizeOf(src) * SizeOf(dst), draw)])
    BY <1>3, Zenon DEF DenseConnect
  <2>2. PICK draw \in Draws : Link([NewConn("dense", src, dst, plastic) EXCEPT
                                      !.vals = Drawn(SizeOf(src) * SizeOf(dst), draw)])
    BY <2>1, Zenon
  <2>3. PICK n : n = SizeOf(src) * SizeOf(dst)
    OBVIOUS
  <2>4. n \in Nat
    BY <1>2, <2>3
  <2>5. PICK v \in Seq(Int) : v = Drawn(n, draw) /\ Len(v) = SizeOf(src) * SizeOf(dst)
    BY <2>3, <2>4, DrawnSound, Zenon
  <2>6. PICK c : c = [NewConn("dense", src, dst, plastic) EXCEPT !.vals = v]
    OBVIOUS
  <2>7. Link(c)
    BY <2>2, <2>3, <2>5, <2>6, Zenon
  <2>8. New(c, src, dst)
    BY <1>1, <2>5, <2>6, NewValues DEF WithValues
  <2> QED
    BY <2>1, <2>7, <2>8
<1>4. CASE SparseConnect(src, dst, plastic)
  <2>1. /\ MainFree /\ groups' = groups
        /\ \E wired \in SUBSET (Neuron(src) \X Neuron(dst)), weight \in Weights :
             \E a : /\ a = Compressed(wired, SizeOf(dst), weight)
                    /\ Link([NewConn("sparse", src, dst, plastic) EXCEPT
                               !.rowptr = a.rowptr, !.cols = a.cols, !.vals = a.vals])
    BY <1>4, Zenon DEF SparseConnect
  <2>2. PICK wired \in SUBSET (Neuron(src) \X Neuron(dst)), weight \in Weights :
          \E a : /\ a = Compressed(wired, SizeOf(dst), weight)
                 /\ Link([NewConn("sparse", src, dst, plastic) EXCEPT
                            !.rowptr = a.rowptr, !.cols = a.cols, !.vals = a.vals])
    BY <2>1, Zenon
  <2>3. PICK a : /\ a = Compressed(wired, SizeOf(dst), weight)
                 /\ Link([NewConn("sparse", src, dst, plastic) EXCEPT
                            !.rowptr = a.rowptr, !.cols = a.cols, !.vals = a.vals])
    BY <2>2, Zenon
  <2>4. PICK c : c = [NewConn("sparse", src, dst, plastic) EXCEPT
                        !.rowptr = a.rowptr, !.cols = a.cols, !.vals = a.vals]
    OBVIOUS
  <2>5. Link(c)
    BY <2>3, <2>4, Zenon
  <2>6. a = Compressed(wired, SizeOf(dst), weight)
    BY <2>3, Zenon
  <2>7. New(c, src, dst)
    BY <1>1, <2>4, <2>6, NewRows, Zenon DEF WithRows
  <2> QED
    BY <2>1, <2>5, <2>7
<1>5. CASE OneToOneConnect(src, dst, plastic)
  <2>1. /\ MainFree /\ groups' = groups /\ SizeOf(src) = SizeOf(dst)
        /\ \E weight \in Weights : Link([NewConn("one2one", src, dst, plastic) EXCEPT
                                           !.vals = [k \in 1 .. SizeOf(src) |-> weight]])
    BY <1>5, Zenon DEF OneToOneConnect
  <2>2. PICK weight \in Weights : Link([NewConn("one2one", src, dst, plastic) EXCEPT
                                          !.vals = [k \in 1 .. SizeOf(src) |-> weight]])
    BY <2>1, Zenon
  <2>3. PICK n \in Nat : n = SizeOf(src)
    BY <1>2, Zenon
  <2>4. PICK v : v = [k \in 1 .. n |-> weight]
    OBVIOUS
  <2>5. v \in Seq(Int) /\ Len(v) = SizeOf(src)
    <3>1. v \in [1 .. n -> Int]
      BY <2>4, WeightAssumption
    <3> QED
      BY <2>3, <3>1, MadeSeq
  <2>6. PICK c : c = [NewConn("one2one", src, dst, plastic) EXCEPT !.vals = v]
    OBVIOUS
  <2>7. Link(c)
    BY <2>2, <2>3, <2>4, <2>6, Zenon
  <2>8. New(c, src, dst)
    BY <1>1, <2>1, <2>5, <2>6, NewValues DEF WithValues
  <2> QED
    BY <2>1, <2>7, <2>8
<1> QED
  BY <1>3, <1>4, <1>5

LEMMA ConnectEdits ==
  ASSUME Lists, Shapes, NEW src \in Group, NEW dst \in Group, NEW plastic,
         DenseConnect(src, dst, plastic) \/ SparseConnect(src, dst, plastic) \/ OneToOneConnect(src, dst, plastic)
  PROVE  Edited
<1>1. MainFree /\ groups' = groups
  BY ConnectLinks
<1>2. PICK c : Link(c) /\ New(c, src, dst)
  BY ConnectLinks
<1>3. Shapes'
  BY <1>1, <1>2, Linked DEF Link, New
<1> QED
  BY <1>1, <1>2, <1>3 DEF Edited, MainFree, Link

LEMMA EditEdits == ASSUME Lists, Shapes, Edits PROVE Edited
<1>1. ASSUME NEW n \in Names, NEW size \in Sizes[n], GroupCreate(n, size) PROVE Edited
  <2> DEFINE r == [name |-> n, size |-> size, v |-> 0, window |-> 20, hold |-> TRUE]
  <2>1. MainFree /\ groups' = Append(groups, r) /\ conns' = conns
    BY <1>1 DEF GroupCreate
  <2>2. GroupShape(r)
    <3>1. size \in Nat
      BY SizeAssumption
    <3> QED
      BY <3>1 DEF GroupShape
  <2> HIDE DEF r
  <2>3. Shapes' /\ GroupsKept /\ \A i \in 1 .. Len(groups) : groups'[i] = groups[i]
    BY <2>1, <2>2, GroupAdded
  <2> QED
    BY <2>1, <2>3 DEF Edited, MainFree, Tame
<1>2. ASSUME NEW src, NEW dst, NEW w, ConfigureStdp(src, dst, w) PROVE Edited
  <2>1. MainFree /\ groups' = WindowSet(groups, src, dst, w) /\ conns' = conns
    BY <1>2 DEF ConfigureStdp
  <2>2. Shapes' /\ GroupsKept /\ \A i \in DOMAIN groups : groups'[i].v = groups[i].v
    BY <2>1, WindowsPatched
  <2> QED
    BY <2>1, <2>2, ListedLen DEF Edited, MainFree, Tame, Lists
<1>3. ASSUME NEW p \in Pairs PROVE ConnShape(ConnOf(p)) /\ Fits(ConnOf(p), groups) /\ GroupShapes(groups)
  BY PairFound DEF ConnOf, Shapes, ConnShapes
<1>4. ASSUME NEW p, NEW c, NEW request, Rewrite(p, c, request), p \in Pairs => Reshaped(ConnOf(p), c),
             request.op # "load"
      PROVE  Edited
  <2>1. /\ Unlocked /\ p \in Pairs /\ groups' = groups /\ last' = request
        /\ conns' = [conns EXCEPT ![FindConn(p[1], p[2])] = c]
    BY <1>4 DEF Rewrite
  <2>2. FindConn(p[1], p[2]) \in DOMAIN conns
    BY <2>1, PairFound
  <2>3. Reshaped(conns[FindConn(p[1], p[2])], c)
    BY <1>4, <2>1 DEF ConnOf
  <2>4. Shapes'
    BY <2>1, <2>2, <2>3, Replaced DEF Reshaped, Shapes
  <2> QED
    BY <1>4, <2>1, <2>4 DEF Edited, Unlocked
<1>5. CASE Building
  BY <1>1, <1>2, <1>5, ConnectEdits DEF Building
<1>6. ASSUME NEW p, NEW on, SetPlasticity(p, on) PROVE Edited
  BY <1>3, <1>4, <1>6, FlagFits DEF SetPlasticity
<1>7. ASSUME NEW p, NEW t, Prune(p, t) PROVE Edited
  BY <1>3, <1>4, <1>7, PrunedFits DEF Prune
<1>8. ASSUME NEW p, NEW t \in Targets, Normalize(p, t) PROVE Edited
  BY <1>3, <1>4, <1>8, NormalizedFits DEF Normalize
<1>9. ASSUME NEW p, NEW pre, NEW post, NEW x \in Weights, Grow(p, pre, post, x) PROVE Edited
  <2> DEFINE c == ConnOf(p)
             P == Sanitized(pre, c.src)
             Q == Sanitized(post, c.dst)
             d == IF P = <<>> \/ Q = <<>> THEN c ELSE Grown(c, P, Q, x)
             r == [op |-> "grow", pair |-> p, pre |-> Range(P), post |-> Range(Q), weight |-> x]
  <2>1. c.kind = "sparse" /\ Rewrite(p, d, r)
    BY <1>9, Zenon DEF Grow
  <2>2. r.op # "load"
    OBVIOUS
  <2>3. ASSUME p \in Pairs PROVE Reshaped(c, d)
    <3>1. ConnShape(c) /\ Fits(c, groups) /\ GroupShapes(groups)
      BY <1>3, <2>3
    <3>2. Reshaped(c, c)
      BY <3>1 DEF Reshaped
    <3>3. Reshaped(c, Grown(c, P, Q, x))
      BY <2>1, <3>1, GrownFits
    <3> HIDE DEF c, P, Q
    <3> QED
      BY <3>2, <3>3
  <2> HIDE DEF d, P, Q, r
  <2> QED
    BY <1>4, <2>1, <2>2, <2>3
<1> QED
  BY <1>5, <1>6, <1>7, <1>8, <1>9 DEF Edits

\* A tick of the loop touches one weight and one membrane, and a save that is in
\* progress takes note.
ImageStays ==
  /\ image'.groups = image.groups /\ image'.conns = image.conns
  /\ ~image'.learned => ~image.learned
LEMMA LearnEdits ==
  ASSUME Lists, Shapes, ImageShape, Learns
  PROVE  Shapes' /\ ImageStays /\ loading = NoLoad /\ (saving # Idle /\ Saved => Saved')
<1>1. PICK p \in Pairs : \E k \in DOMAIN ConnOf(p).vals, x \in Weights : \E v : Learn(p, k, x, v)
  BY DEF Learns
<1>2. PICK k \in DOMAIN ConnOf(p).vals, x \in Weights : \E v : Learn(p, k, x, v)
  BY <1>1
<1>3. PICK v : Learn(p, k, x, v)
  BY <1>2
<1>4. PICK i : i = FindConn(p[1], p[2])
  OBVIOUS
<1>5. PICK c : c = [conns[i] EXCEPT !.vals = [@ EXCEPT ![k] = x]]
  OBVIOUS
<1>6. PICK w : w = [conns[i].vals EXCEPT ![k] = x]
  OBVIOUS
<1>7. c = [conns[i] EXCEPT !.vals = w] /\ WithValues(c, conns[i], w)
  BY <1>5, <1>6 DEF WithValues
<1>8. /\ conns' = [conns EXCEPT ![i] = c] /\ groups' = [groups EXCEPT ![p[2]].v = v]
      /\ loading = NoLoad /\ image' = [image EXCEPT !.learned = @ \/ saving # Idle]
  BY <1>3, <1>4, <1>5 DEF Learn, TickLock
<1>9. ImageStays /\ (saving # Idle => image'.learned = TRUE)
  BY <1>8 DEF ImageStays, ImageShape
<1>10. /\ i \in DOMAIN conns /\ ConnShape(conns[i]) /\ Fits(conns[i], groups)
       /\ k \in DOMAIN conns[i].vals
  BY <1>4, PairFound DEF Shapes, ConnShapes, ConnOf
<1>11. w \in Seq(Int) /\ Len(w) = Len(conns[i].vals)
  <2>1. PICK u : u = conns[i].vals
    OBVIOUS
  <2>2. u \in Seq(Int) /\ Len(u) \in Nat /\ DOMAIN u = 1 .. Len(u)
    BY <1>10, <2>1, LenProperties DEF Fits, ConnSound
  <2>3. x \in Int /\ \A j \in DOMAIN u : u[j] \in Int
    BY <2>2, Element, WeightAssumption
  <2>4. w = [u EXCEPT ![k] = x]
    BY <1>6, <2>1
  <2>5. w \in [1 .. Len(u) -> Int]
    BY <2>2, <2>3, <2>4
  <2> QED
    BY <2>1, <2>2, <2>5, MadeSeq
<1>12. /\ ConnShape(c) /\ c.src = conns[i].src /\ c.dst = conns[i].dst
       /\ c.kind = conns[i].kind /\ c.plastic = conns[i].plastic
       /\ c.rowptr = conns[i].rowptr /\ c.cols = conns[i].cols /\ c.vals = w
  BY <1>7, <1>10, ValuesPut
<1>13. Fits(c, groups)
  BY <1>7, <1>10, <1>11, ValuesFit DEF Reshaped
<1>14. /\ DOMAIN groups' = DOMAIN groups
       /\ \A j \in DOMAIN groups : Patched(groups[j], groups'[j])
       /\ \A j \in DOMAIN groups : groups'[j].name = groups[j].name /\ groups'[j].size = groups[j].size
  <2>1. \A j \in DOMAIN groups : groups'[j] = IF j = p[2] THEN [groups[j] EXCEPT !.v = v] ELSE groups[j]
    BY <1>8
  <2>2. \A j \in DOMAIN groups : Patched(groups[j], groups'[j])
    BY <2>1 DEF Patched, Shapes, GroupShapes, GroupShape
  <2> QED
    BY <1>8, <2>2 DEF Patched
<1>15. Shapes'
  <2>1. GroupShapes(groups')
    BY <1>14 DEF GroupShapes, GroupShape, Patched, Shapes
  <2> QED
    BY <1>8, <1>10, <1>12, <1>13, <1>14, <2>1, Replaced
<1>16. ASSUME saving # Idle, Saved PROVE Saved'
  <2>1. Len(groups') = Len(groups) /\ Len(conns') = Len(conns) /\ image'.learned = TRUE
    BY <1>9, <1>16, LearnLists
  <2>2. \A m \in 1 .. Len(conns) : conns'[m] = IF m = i THEN c ELSE conns[m]
    BY <1>8, ListedLen DEF Lists
  <2>3. \A j \in 1 .. Len(groups) : groups'[j].name = image'.groups[j].name /\ groups'[j].size = image'.groups[j].size
    BY <1>9, <1>14, <1>16, ListedLen DEF Saved, SameGroup, ImageStays, Lists
  <2>4. ASSUME NEW m \in 1 .. Len(conns)
        PROVE  /\ conns'[m].kind = image'.conns[m].kind /\ conns'[m].src = image'.conns[m].src
               /\ conns'[m].dst = image'.conns[m].dst /\ conns'[m].plastic = image'.conns[m].plastic
               /\ conns'[m].rowptr = image'.conns[m].rowptr /\ conns'[m].cols = image'.conns[m].cols
               /\ conns'[m].vals \in Seq(Int) /\ Len(conns'[m].vals) = Len(image'.conns[m].vals)
    <3>1. SameConn(conns[m], image.conns[m])
      BY <1>16 DEF Saved
    <3> QED
      BY <1>9, <1>11, <1>12, <2>2, <3>1 DEF SameConn, Values, ImageStays
  <2> QED
    BY <2>1, <2>3, <2>4 DEF Saved, SameGroup, SameConn, Values
<1> QED
  BY <1>8, <1>9, <1>15, <1>16

-----------------------------------------------------------------------------
(* What is held and what is back stays so.                                  *)

LEMMA HeldStays ==
  ASSUME Held, UNCHANGED file, ImageStays, saving' # Idle => Saved'
  PROVE  Held'
<1>1. ASSUME NEW at, ConnsHeld(file, at) PROVE ConnsHeld(file, at)'
  BY <1>1 DEF ConnsHeld, ConnHeld, Values, ImageStays
<1>2. ImageWhole => ImageWhole'
  BY DEF ImageWhole, ImageStays
<1>3. GroupsHeld(file) => GroupsHeld(file)'
  BY DEF GroupsHeld, GroupHeld, ImageStays
<1>4. ASSUME NEW at PROVE Layout(file, at)' => Layout(file, at)
  BY DEF Layout, Start
<1> QED
  BY <1>1, <1>2, <1>3, <1>4 DEF Held

LEMMA ByNameIn ==
  ASSUME Lists, NEW n, ByName(n) # 0
  PROVE  ByName(n) \in DOMAIN groups /\ groups[ByName(n)].name = n
  BY ByNameIsFirst, FirstFinds, ListedLen DEF Lists

LEMMA ConnBackStays ==
  ASSUME Lists, Lists', Shapes, ImageStays, conns' = conns, GroupsKept, NEW i, ConnBack(i)
  PROVE  ConnBack(i)'
<1>1. PICK k \in DOMAIN conns : IsBack(conns[k], image.conns[i])
  BY DEF ConnBack
<1>2. conns[k].src \in 1 .. Len(groups) /\ conns[k].dst \in 1 .. Len(groups)
  BY ListedLen DEF Shapes, ConnShapes, Fits, Lists
<1>3. PICK a, b : a = image.groups[image.conns[i].src].name /\ b = image.groups[image.conns[i].dst].name
  OBVIOUS
<1>4. ByName(a)' = ByName(a) /\ ByName(b)' = ByName(b)
  BY <1>1, <1>2, <1>3, NameStays DEF IsBack
<1>5. IsBack(conns[k], image.conns[i])'
  BY <1>1, <1>3, <1>4 DEF IsBack, ImageStays
<1> QED
  BY <1>5 DEF ConnBack

LEMMA BackStays ==
  ASSUME Lists, Lists', Shapes, ImageStays, Tame, NEW n, NEW m, Back(n, m)
  PROVE  Back(n, m)'
<1>1. ASSUME NEW j \in 1 .. n PROVE GroupBack(j)'
  <2>1. GroupBack(j)
    BY <1>1 DEF Back
  <2>2. PICK a : a = image.groups[j].name
    OBVIOUS
  <2>3. ByName(a) # 0 /\ ByName(a)' = ByName(a) /\ ByName(a) \in 1 .. Len(groups)
    BY <2>1, <2>2, NameStays, ByNameIn, ListedLen DEF GroupBack, Tame, Lists
  <2>4. groups'[ByName(a)].v = groups[ByName(a)].v /\ groups'[ByName(a)].size = groups[ByName(a)].size
    BY <2>3 DEF Tame, GroupsKept
  <2>5. PICK g : g = ByName(a)
    OBVIOUS
  <2> QED
    BY <2>1, <2>2, <2>3, <2>4, <2>5 DEF GroupBack, ImageStays
<1>2. \A i : ConnBack(i) => ConnBack(i)'
  BY ConnBackStays DEF Tame
<1> QED
  BY <1>1, <1>2 DEF Back, ImageStays

-----------------------------------------------------------------------------
(* A save fills the file with the image.                                    *)

\* Connections come after the groups.
LEMMA AfterGroups ==
  ASSUME NEW f, NEW at, Layout(f, at)
  PROVE  \A i \in 1 .. Len(at) + 1 : Start(f, at, i) >= f[1].groups + 2
<1> DEFINE I == {i \in 1 .. Len(at) + 1 : ~(Start(f, at, i) >= f[1].groups + 2)}
<1>1. /\ Len(at) \in Nat /\ f[1].groups \in Nat
      /\ \A i \in 1 .. Len(at) + 1 : Start(f, at, i) \in Nat
      /\ \A i \in 1 .. Len(at) : at[i] = Start(f, at, i)
  BY StartNumber DEF Layout, Counts
<1>2. I \in SUBSET Nat
  BY <1>1
<1>3. SUFFICES ASSUME I # {} PROVE FALSE
  OBVIOUS
<1>4. PICK m : m \in I /\ \A k \in I : m <= k
  <2> HIDE DEF I
  <2> QED
    BY <1>2, <1>3, LeastNumber
<1>5. CASE m = 1
  BY <1>1, <1>4, <1>5 DEF Start
<1>6. CASE m # 1
  <2>1. m - 1 \in 1 .. Len(at) /\ m - 1 \notin I
    BY <1>1, <1>4, <1>6
  <2>2. at[m - 1] >= f[1].groups + 2 /\ at[m - 1] \in Nat
    BY <1>1, <2>1
  <2>3. Start(f, at, m) = at[m - 1] + ChunksOf(f[at[m - 1]]) /\ ChunksOf(f[at[m - 1]]) \in Nat
    BY <1>6 DEF Start, ChunksOf
  <2>4. Start(f, at, m) >= f[1].groups + 2
    BY <1>1, <2>2, <2>3
  <2> QED
    BY <1>4, <2>4
<1> QED
  BY <1>5, <1>6

\* A connection has one place in a file.
LEMMA OnePlace ==
  ASSUME NEW f, NEW a, NEW b, Layout(f, a), Layout(f, b)
  PROVE  \A i : i \in 1 .. Len(a) /\ i \in 1 .. Len(b) => a[i] = b[i]
<1> DEFINE I == {i \in 1 .. Len(a) : i \in 1 .. Len(b) /\ a[i] # b[i]}
<1>1. Len(a) \in Nat /\ Len(b) \in Nat
  BY LenProperties DEF Layout
<1>2. I \in SUBSET Nat
  BY <1>1
<1>3. SUFFICES ASSUME I # {} PROVE FALSE
  OBVIOUS
<1>4. PICK m : m \in I /\ \A k \in I : m <= k
  <2> HIDE DEF I
  <2> QED
    BY <1>2, <1>3, LeastNumber
<1>5. a[m] = Start(f, a, m) /\ b[m] = Start(f, b, m)
  BY <1>4 DEF Layout
<1>6. m # 1
  BY <1>4, <1>5 DEF Start
<1>7. m - 1 \in 1 .. Len(a) /\ m - 1 \in 1 .. Len(b) /\ m - 1 \notin I
  BY <1>1, <1>4, <1>6
<1>8. a[m - 1] = b[m - 1]
  BY <1>7
<1>9. Start(f, a, m) = Start(f, b, m)
  BY <1>6, <1>8 DEF Start
<1> QED
  BY <1>4, <1>5, <1>9

\* The places known where the file ends are all there are.
LEMMA AllPlaces ==
  ASSUME NEW f, NEW a, NEW b, NEW w, Layout(f, a), Layout(f, b), EndsBefore(f, b, w)
  PROVE  \A i \in 1 .. Len(a) : i \in 1 .. Len(b) /\ a[i] = b[i]
<1>1. /\ Len(a) \in Nat /\ Len(b) \in Nat /\ f[1].conns \in Nat
      /\ Len(a) <= f[1].conns /\ Len(b) <= f[1].conns
      /\ \A i \in 1 .. Len(a) : a[i] = Start(f, a, i) /\ a[i] <= Len(f)
  BY LenProperties DEF Layout, Counts
<1>2. ASSUME Len(a) > Len(b) PROVE FALSE
  <2>1. PICK i : i = Len(b) + 1
    OBVIOUS
  <2>2. i \in 1 .. Len(a) /\ i \in 1 .. f[1].conns /\ i <= Len(b) + 1
    BY <1>1, <1>2, <2>1
  <2>3. ASSUME i # 1 PROVE Start(f, a, i) = Start(f, b, i)
    <3>1. i - 1 \in 1 .. Len(a) /\ i - 1 \in 1 .. Len(b)
      BY <1>1, <1>2, <2>1, <2>3
    <3>2. a[i - 1] = b[i - 1]
      BY <3>1, OnePlace
    <3> QED
      BY <2>3, <3>2 DEF Start
  <2>4. Start(f, a, i) = Start(f, b, i)
    <3>1. i = 1 => Start(f, a, i) = Start(f, b, i)
      BY DEF Start
    <3> QED
      BY <2>3, <3>1
  <2>5. Start(f, b, i) <= Len(f)
    BY <1>1, <2>2, <2>4
  <2>6. i \in 1 .. Len(b)
    BY <2>2, <2>5, InFile
  <2> QED
    BY <1>1, <2>1, <2>6
<1>3. \A i \in 1 .. Len(a) : i \in 1 .. Len(b)
  BY <1>1, <1>2
<1> QED
  BY <1>3, OnePlace

\* What comes next in a file tells where a connection ends in it.
LEMMA Ends ==
  ASSUME NEW f, NEW at, NEW w, Layout(f, at), EndsBefore(f, at, w), NEW i \in 1 .. Len(at)
  PROVE  \/ at[i] + ChunksOf(f[at[i]]) <= Len(f) + 1
         \/ w = <<"rowptr", i>> /\ f[at[i]].kind = "sparse" /\ Len(f) = at[i]
         \/ w = <<"cols", i>> /\ f[at[i]].kind = "sparse" /\ Len(f) = at[i] + 1
         \/ w = <<"vals", i>> /\ Len(f) + 2 = at[i] + ChunksOf(f[at[i]])
<1>1. /\ Len(f) \in Nat /\ Len(at) \in Nat
      /\ \A k \in 1 .. Len(at) : at[k] \in Nat /\ at[k] = Start(f, at, k) /\ at[k] <= Len(f)
      /\ ChunksOf(f[at[i]]) \in {2, 4} /\ (ChunksOf(f[at[i]]) = 4 <=> f[at[i]].kind = "sparse")
  BY ListedLen, LenProperties, ElementOfSeq DEF Layout, ChunksOf
<1>2. Start(f, at, i + 1) = at[i] + ChunksOf(f[at[i]])
  BY <1>1 DEF Start
<1>3. CASE i < Len(at)
  <2>1. i + 1 \in 1 .. Len(at)
    BY <1>1, <1>3
  <2>2. at[i + 1] = Start(f, at, i + 1) /\ at[i + 1] <= Len(f)
    BY <1>1, <2>1
  <2> QED
    BY <1>1, <1>2, <2>2
<1>4. CASE i = Len(at)
  <2>1. ASSUME NEW k, EndsAtGroup(f, at, k) PROVE FALSE
    BY <1>1, <2>1 DEF EndsAtGroup
  <2>2. ASSUME NEW k, EndsAtConn(f, at, k) PROVE Len(f) + 1 = at[i] + ChunksOf(f[at[i]])
    <3>1. k = i + 1
      BY <1>1, <1>4, <2>2 DEF EndsAtConn
    <3> QED
      BY <1>2, <2>2, <3>1 DEF EndsAtConn
  <2>3. ASSUME NEW k \in 1 .. f[1].stdps + 1, EndsAtStdp(f, at, k), f[1].stdps \in Nat
        PROVE  at[i] + ChunksOf(f[at[i]]) <= Len(f) + 1
    <3>1. Len(f) + 1 = Start(f, at, i + 1) + k - 1
      BY <1>4, <2>3 DEF EndsAtStdp
    <3> QED
      BY <1>1, <1>2, <2>3, <3>1
  <2>4. ASSUME NEW k, NEW left, EndsInConn(f, at, k, left)
        PROVE  /\ k = i /\ Len(f) + 1 + left = at[i] + ChunksOf(f[at[i]]) /\ left \in {1, 2, 3}
               /\ (left > 1 => f[at[i]].kind = "sparse")
    BY <1>4, <2>4 DEF EndsInConn
  <2>5. f[1].stdps \in Nat
    BY DEF Layout, Counts
  <2>6. ASSUME NEW k, w = <<"rowptr", k>>, EndsInConn(f, at, k, 3)
        PROVE  w = <<"rowptr", i>> /\ f[at[i]].kind = "sparse" /\ Len(f) = at[i]
    BY <1>1, <2>4, <2>6
  <2>7. ASSUME NEW k, w = <<"cols", k>>, EndsInConn(f, at, k, 2)
        PROVE  w = <<"cols", i>> /\ f[at[i]].kind = "sparse" /\ Len(f) = at[i] + 1
    BY <1>1, <2>4, <2>7
  <2>8. ASSUME NEW k, w = <<"vals", k>>, EndsInConn(f, at, k, 1)
        PROVE  w = <<"vals", i>> /\ Len(f) + 2 = at[i] + ChunksOf(f[at[i]])
    BY <1>1, <2>4, <2>8
  <2>9. ASSUME NEW k, EndsAtConn(f, at, k) PROVE at[i] + ChunksOf(f[at[i]]) <= Len(f) + 1
    BY <1>1, <2>2, <2>9
  <2>10. ASSUME NEW k \in 1 .. f[1].stdps, EndsAtStdp(f, at, k) PROVE at[i] + ChunksOf(f[at[i]]) <= Len(f) + 1
    BY <2>3, <2>5, <2>10
  <2>11. ASSUME EndsAtStdp(f, at, f[1].stdps + 1) PROVE at[i] + ChunksOf(f[at[i]]) <= Len(f) + 1
    BY <2>3, <2>5, <2>11
  <2> QED
    BY <2>1, <2>6, <2>7, <2>8, <2>9, <2>10, <2>11, Zenon DEF EndsBefore
<1> QED
  BY <1>1, <1>3, <1>4

\* If a file ends among the groups, a group comes next.
LEMMA NextGroup ==
  ASSUME NEW f, NEW at, NEW w, Layout(f, at), EndsBefore(f, at, w), Len(f) <= f[1].groups
  PROVE  w = <<"group", Len(f)>>
<1>1. /\ Len(f) \in Nat /\ Len(at) \in Nat /\ Counts(f)
      /\ \A k \in 1 .. Len(at) + 1 : Start(f, at, k) \in Nat /\ Start(f, at, k) >= f[1].groups + 2
      /\ \A k \in 1 .. Len(at) : at[k] = Start(f, at, k) /\ at[k] <= Len(f)
  BY ListedLen, StartNumber, AfterGroups DEF Layout
<1>2. Len(at) = 0
  <2>1. ASSUME 1 \in 1 .. Len(at) PROVE FALSE
    BY <1>1, <2>1 DEF Counts
  <2> QED
    BY <1>1, <2>1
<1>3. Start(f, at, 1) >= f[1].groups + 2
  BY <1>1, <1>2
<1>4. ASSUME NEW k, EndsAtConn(f, at, k) PROVE FALSE
  BY <1>1, <1>2, <1>3, <1>4 DEF EndsAtConn, Counts
<1>5. ASSUME NEW k, NEW left, EndsInConn(f, at, k, left) PROVE FALSE
  BY <1>1, <1>2, <1>5 DEF EndsInConn, Counts
<1>6. ASSUME NEW k \in 1 .. f[1].stdps + 1, EndsAtStdp(f, at, k) PROVE FALSE
  <2>1. Len(f) + 1 = Start(f, at, 1) + k - 1
    BY <1>2, <1>6 DEF EndsAtStdp
  <2> QED
    BY <1>1, <1>3, <2>1 DEF Counts
<1>7. ASSUME NEW k, EndsAtGroup(f, at, k) PROVE k = Len(f)
  BY <1>7 DEF EndsAtGroup
<1>8. \A k \in 1 .. f[1].stdps : k \in 1 .. f[1].stdps + 1
  BY <1>1 DEF Counts
<1>9. f[1].stdps + 1 \in 1 .. f[1].stdps + 1
  BY <1>1 DEF Counts
<1> QED
  BY <1>4, <1>5, <1>6, <1>7, <1>8, <1>9 DEF EndsBefore

\* The arrays of connection i come from its fields.
LEMMA Arrays ==
  ASSUME NEW i
  PROVE  /\ Chunk(<<"rowptr", i>>).a = conns[i].rowptr
         /\ Chunk(<<"cols", i>>).a = conns[i].cols
         /\ Chunk(<<"vals", i>>).a = conns[i].vals
         /\ Chunk(<<"conn", i>>).kind = conns[i].kind /\ Chunk(<<"conn", i>>).plastic = conns[i].plastic
         /\ Chunk(<<"conn", i>>).src = groups[conns[i].src].name
         /\ Chunk(<<"conn", i>>).dst = groups[conns[i].dst].name
         /\ Chunk(<<"group", i>>).name = groups[i].name /\ Chunk(<<"group", i>>).v = groups[i].v
         /\ Chunk(<<"group", i>>).size = groups[i].size
<1>1. /\ Chunk(<<"rowptr", i>>) = [k |-> "rowptr", a |-> conns[i]["rowptr"]]
      /\ Chunk(<<"cols", i>>) = [k |-> "cols", a |-> conns[i]["cols"]]
      /\ Chunk(<<"vals", i>>) = [k |-> "vals", a |-> conns[i]["vals"]]
  BY DEF Chunk
<1>2. Chunk(<<"conn", i>>) = [k |-> "conn", kind |-> conns[i].kind, plastic |-> conns[i].plastic,
                              src |-> groups[conns[i].src].name, dst |-> groups[conns[i].dst].name]
  BY DEF Chunk
<1>3. Chunk(<<"group", i>>) = [k |-> "group", name |-> groups[i].name, size |-> groups[i].size,
                               v |-> groups[i].v, window |-> groups[i].window]
  BY DEF Chunk
<1> QED
  BY <1>1, <1>2, <1>3

LEMMA SaveWriteHeld == ASSUME ImageShape, OnFile, Held, SaveWrite PROVE Held'
<1>1. PICK w : w = saving
  OBVIOUS
<1>2. /\ w # Idle /\ w # Done /\ file' = Append(file, Chunk(w))
      /\ UNCHANGED <<groups, conns>> /\ file # <<>>
      /\ image'.groups = image.groups /\ image'.conns = image.conns /\ image'.learned = image.learned
  BY <1>1 DEF SaveWrite, OnFile, ImageShape
<1>3. /\ file[1].groups = Len(groups) /\ file[1].conns = Len(conns) /\ file[1].stdps = Len(stdps)
      /\ Saved /\ ImageWhole /\ GroupsHeld(file) /\ \A at : Layout(file, at) => ConnsHeld(file, at)
  BY <1>1, <1>2 DEF OnFile, Held
<1>4. PICK at : Layout(file, at) /\ EndsBefore(file, at, w)
  BY <1>1, <1>2 DEF OnFile, Filed
<1>5. PICK b, v : b = NextAt(at, w) /\ v = Following(w)
  OBVIOUS
<1>6. Layout(file', b) /\ EndsBefore(file', b, v)
  BY <1>2, <1>3, <1>4, <1>5, SaveWriteEnds
<1>7. /\ Len(file) \in Nat /\ Len(file) >= 1 /\ Len(file') = Len(file) + 1
      /\ \A i \in 1 .. Len(file) : file'[i] = file[i]
      /\ file'[Len(file) + 1] = Chunk(w) /\ file'[1] = file[1]
  <2>1. Listed(file) /\ file # <<>>
    BY <1>4 DEF Layout
  <2>2. Len(file) \in Nat /\ Len(file) >= 1
    BY <2>1, ListedLen, EmptySeq DEF Listed
  <2> QED
    BY <1>2, <2>1, <2>2, AppendListed
<1>8. ImageWhole'
  BY <1>2, <1>3, <1>7 DEF ImageWhole
<1>9. GroupsHeld(file)'
  <2> SUFFICES ASSUME NEW j \in 1 .. file[1].groups, j + 1 <= Len(file) + 1 PROVE GroupHeld(file, j)'
    BY <1>7 DEF GroupsHeld
  <2>1. CASE j + 1 <= Len(file)
    <3>1. GroupHeld(file, j)
      BY <1>3, <2>1 DEF GroupsHeld
    <3>2. file'[j + 1] = file[j + 1]
      BY <1>7, <2>1
    <3> QED
      BY <1>2, <3>1, <3>2 DEF GroupHeld
  <2>2. CASE j = Len(file)
    <3>1. w = <<"group", j>>
      BY <1>4, <1>7, <2>2, NextGroup
    <3>2. file'[j + 1].name = groups[j].name /\ file'[j + 1].v = groups[j].v /\ file'[j + 1].size = groups[j].size
      BY <1>7, <2>2, <3>1, Arrays
    <3>3. SameGroup(groups[j], image.groups[j])
      BY <1>3 DEF Saved
    <3> QED
      BY <1>2, <3>2, <3>3 DEF GroupHeld, SameGroup
  <2> QED
    BY <1>7, <2>1, <2>2
<1>10. ASSUME NEW i \in 1 .. Len(at), NEW p, p = at[i] PROVE ConnHeld(file, i, p)'
  <2>1. ConnHeld(file, i, p)
    BY <1>3, <1>4, <1>10 DEF ConnsHeld
  <2>2. p \in 1 .. Len(file) /\ i \in 1 .. Len(conns)
    <3>1. p \in Nat \ {0} /\ p <= Len(file) /\ Len(at) \in Nat /\ Len(at) <= file[1].conns /\ file[1].conns \in Nat
      BY <1>4, <1>10, LenProperties, ElementOfSeq DEF Layout, Counts
    <3> QED
      BY <1>3, <1>7, <3>1
  <2>3. SameConn(conns[i], image.conns[i])
    BY <1>3, <2>2 DEF Saved
  <2>4. PICK n : n = ChunksOf(file[p])
    OBVIOUS
  <2>5. file'[p] = file[p] /\ n \in {2, 4} /\ (file[p].kind = "sparse" <=> n = 4)
    BY <1>7, <2>2, <2>4 DEF ChunksOf
  <2>6. /\ file'[p].kind = image'.conns[i].kind /\ file'[p].plastic = image'.conns[i].plastic
        /\ file'[p].src = image'.groups[image'.conns[i].src].name /\ file'[p].dst = image'.groups[image'.conns[i].dst].name
        /\ file'[p].kind = file[p].kind /\ image.conns[i].kind = file[p].kind
    BY <1>2, <2>1, <2>5 DEF ConnHeld
  <2>7. /\ n = 4 /\ p + 1 <= Len(file) => file[p + 1].a = image.conns[i].rowptr
        /\ n = 4 /\ p + 2 <= Len(file) => file[p + 2].a = image.conns[i].cols
        /\ p + n - 1 <= Len(file) => Values(file[p + n - 1].a, image.conns[i].vals)
    BY <2>1, <2>4, <2>5 DEF ConnHeld
  <2>8. SUFFICES /\ n = 4 /\ p + 1 <= Len(file) + 1 => file'[p + 1].a = image.conns[i].rowptr
                 /\ n = 4 /\ p + 2 <= Len(file) + 1 => file'[p + 2].a = image.conns[i].cols
                 /\ p + n - 1 <= Len(file) + 1 => Values(file'[p + n - 1].a, image.conns[i].vals)
    <3>1. ChunksOf(file'[p]) = n
      BY <2>4, <2>5
    <3>2. ChunksOf(file[p])' = n
      BY <3>1 DEF ChunksOf
    <3> QED
      BY <1>2, <1>7, <2>5, <2>6, <3>2, <2>8 DEF ConnHeld, Values
  <2>9. \/ p + n <= Len(file) + 1
        \/ w = <<"rowptr", i>> /\ n = 4 /\ Len(file) = p
        \/ w = <<"cols", i>> /\ n = 4 /\ Len(file) = p + 1
        \/ w = <<"vals", i>> /\ Len(file) + 2 = p + n
    BY <1>4, <1>10, <2>4, <2>5, Ends
  <2>10. CASE p + n <= Len(file) + 1
    BY <1>7, <2>2, <2>5, <2>7, <2>10
  <2>11. CASE w = <<"rowptr", i>> /\ n = 4 /\ Len(file) = p
    <3>1. file'[p + 1].a = image.conns[i].rowptr
      BY <1>7, <2>3, <2>11, Arrays DEF SameConn
    <3> QED
      BY <1>7, <2>2, <2>11, <3>1
  <2>12. CASE w = <<"cols", i>> /\ n = 4 /\ Len(file) = p + 1
    <3>1. file'[p + 2].a = image.conns[i].cols
      <4>1. Len(file) + 1 = p + 2
        BY <2>2, <2>12
      <4>2. file'[p + 2] = Chunk(w)
        BY <1>7, <4>1
      <4>3. Chunk(w).a = conns[i].cols
        BY <2>12, Arrays
      <4> QED
        BY <2>3, <4>2, <4>3 DEF SameConn
    <3>2. file'[p + 1] = file[p + 1]
      BY <1>7, <2>2, <2>12
    <3> QED
      BY <1>7, <2>2, <2>7, <2>12, <3>1, <3>2
  <2>13. CASE w = <<"vals", i>> /\ Len(file) + 2 = p + n
    <3>1. Values(file'[p + n - 1].a, image.conns[i].vals)
      <4>1. Len(file) + 1 = p + n - 1
        BY <1>7, <2>2, <2>5, <2>13
      <4>2. file'[p + n - 1] = Chunk(w)
        BY <1>7, <4>1
      <4>3. Chunk(w).a = conns[i].vals
        BY <2>13, Arrays
      <4> QED
        BY <2>3, <4>2, <4>3 DEF SameConn
    <3>2. n = 4 => file'[p + 1] = file[p + 1] /\ file'[p + 2] = file[p + 2] /\ p + 1 <= Len(file) /\ p + 2 <= Len(file)
      BY <1>7, <2>2, <2>13
    <3> QED
      BY <2>7, <3>1, <3>2
  <2> QED
    BY <2>9, <2>10, <2>11, <2>12, <2>13
<1>11. ASSUME w[1] = "conn", NEW k, k = Len(at) + 1, NEW q, q = Len(file) + 1 PROVE ConnHeld(file, k, q)'
  <2>1. PICK i : i \in 1 .. file[1].conns /\ w = <<"conn", i>> /\ EndsAtConn(file, at, i)
    BY <1>4, <1>11 DEF EndsBefore, Done
  <2>2. Len(at) + 1 = i
    <3>1. Len(at) \in Nat /\ file[1].conns \in Nat
      BY <1>4, LenProperties DEF Layout, Counts
    <3> QED
      BY <2>1, <3>1 DEF EndsAtConn
  <2>3. PICK c : c = image.conns[i]
    OBVIOUS
  <2>4. SameConn(conns[i], c)
    BY <1>3, <2>1, <2>3 DEF Saved
  <2>5. c.src \in 1 .. Len(groups) /\ c.dst \in 1 .. Len(groups)
    <3>1. i \in DOMAIN image.conns /\ DOMAIN image.groups = 1 .. Len(groups)
      BY <1>3, <2>1, ListedLen DEF ImageWhole
    <3> QED
      BY <1>3, <2>3, <3>1 DEF ImageWhole, ConnShapes, Fits
  <2>6. groups[c.src].name = image.groups[c.src].name /\ groups[c.dst].name = image.groups[c.dst].name
    BY <1>3, <2>5 DEF Saved, SameGroup
  <2>7. file'[q] = Chunk(<<"conn", i>>)
    BY <1>7, <1>11, <2>1
  <2>8. /\ file'[q].kind = c.kind /\ file'[q].plastic = c.plastic
        /\ file'[q].src = image.groups[c.src].name /\ file'[q].dst = image.groups[c.dst].name
    <3>1. /\ file'[q].kind = conns[i].kind /\ file'[q].plastic = conns[i].plastic
          /\ file'[q].src = groups[conns[i].src].name /\ file'[q].dst = groups[conns[i].dst].name
      <4>1. PICK g : g = Chunk(<<"conn", i>>)
        OBVIOUS
      <4>2. /\ g.kind = conns[i].kind /\ g.plastic = conns[i].plastic
            /\ g.src = groups[conns[i].src].name /\ g.dst = groups[conns[i].dst].name
        BY <4>1, Arrays
      <4>3. file'[q] = g
        BY <2>7, <4>1
      <4> QED
        BY <4>2, <4>3
    <3> QED
      BY <2>4, <2>6, <3>1 DEF SameConn
  <2>9. ChunksOf(file[q])' \in {2, 4}
    BY DEF ChunksOf
  <2>10. ~(q + 1 <= Len(file')) /\ ~(q + 2 <= Len(file')) /\ ~(q + ChunksOf(file[q])' - 1 <= Len(file'))
    BY <1>7, <1>11, <2>9
  <2>11. ConnHeld(file, i, q)'
    BY <1>2, <2>3, <2>8, <2>10 DEF ConnHeld
  <2> QED
    BY <1>11, <2>2, <2>11
<1>12. ConnsHeld(file, b)'
  <2> SUFFICES ASSUME NEW i \in 1 .. Len(b) PROVE ConnHeld(file, i, b[i])'
    BY DEF ConnsHeld
  <2>1. Len(at) \in Nat /\ at \in Seq(Nat \ {0})
    BY <1>4, LenProperties DEF Layout
  <2>2. CASE w[1] # "conn"
    BY <1>5, <1>10, <2>2 DEF NextAt
  <2>3. CASE w[1] = "conn"
    <3>1. b = Append(at, Len(file) + 1)
      BY <1>5, <2>3 DEF NextAt
    <3>2. Len(b) = Len(at) + 1 /\ b[Len(at) + 1] = Len(file) + 1 /\ \A k \in 1 .. Len(at) : b[k] = at[k]
      BY <1>7, <2>1, <3>1, AppendProperties
    <3>3. i = Len(at) + 1 \/ i \in 1 .. Len(at)
      BY <2>1, <3>2
    <3>4. PICK p : p = b[i]
      OBVIOUS
    <3>5. ConnHeld(file, i, p)'
      BY <1>10, <1>11, <2>3, <3>2, <3>3, <3>4
    <3> QED
      BY <3>4, <3>5
  <2> QED
    BY <2>2, <2>3
<1>13. \A a : Layout(file, a)' => ConnsHeld(file, a)'
  <2> SUFFICES ASSUME NEW a, Layout(file', a) PROVE ConnsHeld(file, a)'
    BY DEF Layout, Start
  <2>1. \A i \in 1 .. Len(a) : i \in 1 .. Len(b) /\ a[i] = b[i]
    BY <1>6, AllPlaces
  <2> QED
    BY <1>12, <2>1 DEF ConnsHeld
<1>14. Saved'
  BY <1>2, <1>3 DEF Saved, SameGroup, SameConn, Values
<1> QED
  BY <1>8, <1>9, <1>13, <1>14 DEF Held

LEMMA SaveBeginHeld == ASSUME Lists, Shapes, SaveBegin PROVE Held'
<1>1. /\ file' = <<Header>> /\ UNCHANGED <<groups, conns>>
      /\ image'.groups = groups /\ image'.conns = conns
  BY DEF SaveBegin
<1>2. /\ file'[1] = Header /\ Len(file') = 1 /\ file' # <<>>
      /\ Header.groups = Len(groups) /\ Header.conns = Len(conns)
      /\ Len(groups) \in Nat /\ Len(conns) \in Nat
  BY <1>1, ListedLen DEF Header, Lists
<1>3. ImageWhole'
  BY <1>1, <1>2 DEF ImageWhole, Lists, Shapes
<1>4. GroupsHeld(file)'
  BY <1>2 DEF GroupsHeld
<1>5. ASSUME NEW a, Layout(file, a)' PROVE ConnsHeld(file, a)'
  <2>1. Layout(file', a)
    BY <1>5 DEF Layout, Start
  <2>2. Len(a) \in Nat /\ \A i \in 1 .. Len(a) : a[i] = Start(file', a, i) /\ a[i] <= 1
    BY <1>2, <2>1, LenProperties DEF Layout
  <2>3. 1 \notin 1 .. Len(a)
    BY <1>2, <2>2 DEF Start
  <2>4. Len(a) = 0
    BY <2>2, <2>3
  <2> QED
    BY <2>4 DEF ConnsHeld
<1>6. Saved'
  <2>1. \A i \in 1 .. Len(conns) : conns[i].vals \in Seq(Int)
    BY ListedLen DEF Lists, Shapes, ConnShapes, Fits, ConnSound
  <2> QED
    BY <1>1, <2>1 DEF Saved, SameGroup, SameConn, Values
<1> QED
  BY <1>3, <1>4, <1>5, <1>6 DEF Held

-----------------------------------------------------------------------------
(* A load brings back one item after the other.                             *)

\* How far a load is at each item of its walk.
LEMMA InItems ==
  ASSUME Counts(file)
  PROVE  /\ \A i \in 0 .. file[1].groups :
              GroupsIn(GroupItem(file[1], i + 1)) = i /\ ConnsIn(GroupItem(file[1], i + 1)) = 0
         /\ \A i \in 0 .. file[1].conns :
              GroupsIn(ConnItem(file[1], i + 1)) = file[1].groups /\ ConnsIn(ConnItem(file[1], i + 1)) = i
         /\ \A i : GroupsIn(StdpItem(file[1], i)) = file[1].groups /\ ConnsIn(StdpItem(file[1], i)) = file[1].conns
<1>1. file[1].groups \in Nat /\ file[1].conns \in Nat
  BY DEF Counts
<1>2. \A i : GroupsIn(StdpItem(file[1], i)) = file[1].groups /\ ConnsIn(StdpItem(file[1], i)) = file[1].conns
  BY DEF GroupsIn, ConnsIn, StdpItem, Done
<1>3. ASSUME NEW i \in 0 .. file[1].conns
      PROVE  GroupsIn(ConnItem(file[1], i + 1)) = file[1].groups /\ ConnsIn(ConnItem(file[1], i + 1)) = i
  <2>1. CASE i + 1 <= file[1].conns
    BY <1>1, <2>1 DEF GroupsIn, ConnsIn, ConnItem
  <2>2. CASE i = file[1].conns
    <3>1. ConnItem(file[1], i + 1) = StdpItem(file[1], 1)
      BY <1>1, <2>2 DEF ConnItem
    <3> QED
      BY <1>2, <2>2, <3>1
  <2> QED
    BY <1>1, <2>1, <2>2
<1>4. ASSUME NEW i \in 0 .. file[1].groups
      PROVE  GroupsIn(GroupItem(file[1], i + 1)) = i /\ ConnsIn(GroupItem(file[1], i + 1)) = 0
  <2>1. CASE i + 1 <= file[1].groups
    BY <1>1, <2>1 DEF GroupsIn, ConnsIn, GroupItem
  <2>2. CASE i = file[1].groups
    <3>1. GroupItem(file[1], i + 1) = ConnItem(file[1], 0 + 1)
      BY <1>1, <2>2 DEF GroupItem
    <3> QED
      BY <1>1, <1>3, <2>2, <3>1
  <2> QED
    BY <1>1, <2>1, <2>2
<1> QED
  BY <1>2, <1>3, <1>4

\* The group of name i in the image is patched, or made.
LEMMA GroupComes ==
  ASSUME Lists, Lists', Shapes, UNCHANGED <<conns, image>>, NEW r, NEW i \in DOMAIN image.groups,
         r.name = image.groups[i].name, ~image.learned => r.v = image.groups[i].v,
         r.size = image.groups[i].size, r.size \in Nat, ByName(r.name) # 0 => groups[ByName(r.name)].size = r.size,
         groups' = IF ByName(r.name) # 0 THEN [groups EXCEPT ![ByName(r.name)].v = r.v, ![ByName(r.name)].window = r.window]
                   ELSE Append(groups, [name |-> r.name, size |-> r.size, v |-> r.v,
                                        window |-> r.window, hold |-> FALSE])
  PROVE  /\ Shapes' /\ GroupBack(i)'
         /\ \A n, m : 1 .. n \subseteq DOMAIN image.groups /\ Back(n, m) => Back(n, m)'
<1>1. PICK g, a : g = ByName(r.name) /\ a = r.name
  OBVIOUS
<1>2. /\ g # 0 => g \in DOMAIN groups /\ groups[g].name = r.name
      /\ Len(groups) \in Nat /\ DOMAIN groups = 1 .. Len(groups)
  BY <1>1, ByNameIn, ListedLen DEF Lists
<1> DEFINE Outcome == /\ Shapes' /\ GroupsKept /\ ByName(a)' # 0 /\ groups'[ByName(a)'].v = r.v
                      /\ groups'[ByName(a)'].size = r.size
                      /\ \A k \in 1 .. Len(groups) : k # g => groups'[k].v = groups[k].v
<1>3. ASSUME g # 0 PROVE Outcome
  <2>1. PICK x : x = [groups[g] EXCEPT !.v = r.v]
    OBVIOUS
  <2>2. PICK y : y = [x EXCEPT !.window = r.window]
    OBVIOUS
  <2>3. groups' = [groups EXCEPT ![g] = y]
    BY <1>1, <1>3, <2>1, <2>2
  <2>4. Patched(groups[g], y) /\ y.v = r.v
    <3>1. groups[g] = [name |-> groups[g].name, size |-> groups[g].size, v |-> groups[g].v,
                       window |-> groups[g].window, hold |-> groups[g].hold]
      BY <1>2, <1>3 DEF Shapes, GroupShapes, GroupShape
    <3>2. x = [name |-> groups[g].name, size |-> groups[g].size, v |-> r.v,
               window |-> groups[g].window, hold |-> groups[g].hold]
      BY <2>1, <3>1
    <3>3. y = [name |-> groups[g].name, size |-> groups[g].size, v |-> r.v,
               window |-> r.window, hold |-> groups[g].hold]
      BY <2>2, <3>2
    <3> QED
      BY <3>3 DEF Patched
  <2>5. /\ DOMAIN groups' = DOMAIN groups /\ Len(groups') = Len(groups)
        /\ \A k \in DOMAIN groups : groups'[k] = IF k = g THEN y ELSE groups[k]
    BY <2>3, ExceptListed DEF Lists
  <2>6. \A k \in DOMAIN groups : Patched(groups[k], groups'[k])
    BY <2>4, <2>5 DEF Shapes, GroupShapes, GroupShape, Patched
  <2>7. Shapes' /\ GroupsKept
    BY <2>5, <2>6, GroupsPatched
  <2>8. ByName(a)' = g
    BY <1>1, <1>3, <2>7, NameStays
  <2>9. y.size = r.size
    BY <1>1, <1>3, <2>4 DEF Patched
  <2> QED
    BY <1>2, <1>3, <2>4, <2>5, <2>7, <2>8, <2>9
<1>4. ASSUME g = 0 PROVE Outcome
  <2> DEFINE q == [name |-> r.name, size |-> r.size, v |-> r.v, window |-> r.window, hold |-> FALSE]
  <2>1. /\ q.name = a /\ q.v = r.v /\ q.size = r.size /\ GroupShape(q)
        /\ groups' = Append(groups, q)
    BY <1>1, <1>4 DEF GroupShape
  <2> HIDE DEF q
  <2>2. /\ Shapes' /\ GroupsKept /\ \A k \in 1 .. Len(groups) : groups'[k] = groups[k]
        /\ Len(groups') = Len(groups) + 1 /\ groups'[Len(groups) + 1] = q
    BY <2>1, GroupAdded
  <2>3. \A m \in 1 .. Len(groups) : groups[m].name # a
    BY <1>1, <1>4, ByNameIsFirst, FirstFinds, ZenonT(30) DEF Lists
  <2>4. First(Append(groups, q), a) = Len(groups) + 1
    BY <2>1, <2>3, FirstLast DEF Lists
  <2>5. ByName(a)' = Len(groups) + 1
    BY <2>1, <2>4, ByNameIsFirst
  <2> QED
    <3>1. ByName(a)' # 0
      BY <1>2, <2>5
    <3>2. groups'[ByName(a)'].v = r.v /\ groups'[ByName(a)'].size = r.size
      BY <2>1, <2>2, <2>5
    <3>3. \A m \in 1 .. Len(groups) : m # g => groups'[m].v = groups[m].v
      BY <2>2
    <3> QED
      BY <2>2, <3>1, <3>2, <3>3
<1>5. Outcome
  BY <1>3, <1>4
<1> HIDE DEF Outcome
<1>6. /\ Shapes' /\ GroupsKept /\ ByName(a)' # 0 /\ groups'[ByName(a)'].v = r.v /\ groups'[ByName(a)'].size = r.size
      /\ \A k \in 1 .. Len(groups) : k # g => groups'[k].v = groups[k].v
  BY <1>5 DEF Outcome
<1>7. GroupBack(i)'
  <2>1. PICK k : k = ByName(a)'
    OBVIOUS
  <2> QED
    BY <1>1, <1>6, <2>1 DEF GroupBack
<1>8. ASSUME NEW n, NEW m, 1 .. n \subseteq DOMAIN image.groups, Back(n, m) PROVE Back(n, m)'
  <2>1. ASSUME NEW j \in 1 .. n PROVE GroupBack(j)'
    <3>1. PICK b, h : b = image.groups[j].name /\ h = ByName(b)
      OBVIOUS
    <3>2. /\ h # 0 /\ groups[h].size = image.groups[j].size
          /\ NamesDiffer(image.groups) /\ ~image.learned => groups[h].v = image.groups[j].v
      BY <1>8, <3>1 DEF Back, GroupBack
    <3>3. ByName(b)' = h
      BY <1>6, <3>1, <3>2, NameStays
    <3>4. h \in DOMAIN groups /\ groups[h].name = b
      BY <3>1, <3>2, ByNameIn
    <3>5. ASSUME NamesDiffer(image.groups), ~image.learned PROVE groups'[h].v = image.groups[j].v
      <4>1. CASE h # g
        BY <1>2, <1>6, <3>2, <3>4, <3>5, <4>1
      <4>2. CASE h = g
        <5>1. b = a
          BY <1>1, <1>2, <3>2, <3>4, <4>2
        <5>2. j = i
          BY <1>1, <1>8, <3>1, <3>5, <5>1 DEF NamesDiffer
        <5>3. groups'[ByName(a)'].v = r.v /\ ByName(a)' = h
          BY <1>6, <3>3, <5>1
        <5> QED
          BY <3>5, <5>2, <5>3
      <4> QED
        BY <4>1, <4>2
    <3>6. groups'[h].size = image.groups[j].size
      BY <1>2, <1>6, <3>2, <3>4 DEF GroupsKept
    <3> QED
      BY <3>1, <3>2, <3>3, <3>5, <3>6 DEF GroupBack
  <2>2. \A c : ConnBack(c) => ConnBack(c)'
    BY <1>6, ConnBackStays DEF ImageStays
  <2> QED
    BY <1>8, <2>1, <2>2 DEF Back
<1> QED
  BY <1>6, <1>7, <1>8

\* A load that reads a connection is at the place of that connection.
LEMMA ConnAt ==
  ASSUME OnFile, LoadConn
  PROVE  /\ loading # NoLoad /\ saving = Idle /\ file # <<>> /\ Counts(file)
         /\ \E at, i : /\ Layout(file, at) /\ i \in 1 .. Len(at) /\ i \in 1 .. file[1].conns
                      /\ loading.item = <<"conn", i>> /\ at[i] = loading.at
                      /\ loading.at + ChunksOf(file[loading.at]) - 1 <= Len(file) /\ loading.at \in Nat
                      /\ loading' = [item |-> ConnItem(file[1], i + 1), at |-> loading.at + ChunksOf(file[loading.at])]
<1>1. /\ Reads("conn") /\ loading.at + ChunksOf(file[loading.at]) - 1 <= Len(file) /\ loading.at + 1 - 1 <= Len(file)
      /\ loading' = [item |-> ConnItem(file[1], loading.item[2] + 1), at |-> loading.at + ChunksOf(file[loading.at])]
  BY DEF LoadConn, Found, Advance, Index
<1>2. loading # NoLoad /\ saving = Idle /\ file # <<>>
  BY <1>1, Loads
<1>3. PICK at, w : Layout(file, at) /\ EndsBefore(file, at, w) /\ Stands(file, at, loading)
  BY <1>2 DEF OnFile, Filed
<1>4. PICK i : i \in 1 .. file[1].conns /\ loading.item = <<"conn", i>> /\ AtConn(file, at, loading, i)
  BY <1>1, <1>3 DEF Stands, Reads, Done
<1>5. Len(file) \in Nat /\ Counts(file) /\ Len(at) \in Nat /\ \A k \in 1 .. Len(at) + 1 : Start(file, at, k) \in Nat
  BY <1>3, ListedLen, StartNumber DEF Layout
<1>6. loading.at = Start(file, at, i) /\ i <= Len(at) + 1 /\ loading.at \in Nat /\ loading.at <= Len(file)
  BY <1>1, <1>4, <1>5 DEF AtConn, Counts
<1>7. i \in 1 .. Len(at) /\ at[i] = loading.at
  BY <1>3, <1>4, <1>6, InFile DEF Layout
<1>8. loading' = [item |-> ConnItem(file[1], i + 1), at |-> loading.at + ChunksOf(file[loading.at])]
  BY <1>1, <1>4
<1> QED
  BY <1>1, <1>2, <1>3, <1>4, <1>5, <1>6, <1>7, <1>8

\* What it reads is connection i of the image.
LEMMA StoredIsBack ==
  ASSUME NEW i \in DOMAIN image.conns, ConnHeld(file, i, loading.at), ImageWhole,
         loading.at \in Nat, loading.at + ChunksOf(file[loading.at]) - 1 <= Len(file), Len(file) \in Nat
  PROVE  ConnShape(Stored) /\ IsBack(Stored, image.conns[i]) /\ Values(Stored.vals, image.conns[i].vals)
<1>1. PICK p, r, c, n : p = loading.at /\ r = file[p] /\ c = image.conns[i] /\ n = ChunksOf(r)
  OBVIOUS
<1>2. /\ r.kind = c.kind /\ r.plastic = c.plastic
      /\ r.src = image.groups[c.src].name /\ r.dst = image.groups[c.dst].name
      /\ n \in {2, 4} /\ (c.kind = "sparse" <=> n = 4) /\ p \in Nat /\ p + n - 1 <= Len(file)
  BY <1>1 DEF ConnHeld, ChunksOf
<1>3. /\ c.kind = "sparse" => file[p + 1].a = c.rowptr /\ file[p + 2].a = c.cols
      /\ Values(file[p + n - 1].a, c.vals)
  BY <1>1, <1>2 DEF ConnHeld
<1>4. ConnShape(c)
  BY <1>1 DEF ImageWhole, ConnShapes
<1>5. PICK v, k, x : /\ v = (IF r.kind = "sparse" THEN file[p + 1].a ELSE <<>>)
                     /\ k = (IF r.kind = "sparse" THEN file[p + 2].a ELSE <<>>)
                     /\ x = file[p + (n - 1)].a
  OBVIOUS
<1>6. PICK src, dst : src = ByName(r.src) /\ dst = ByName(r.dst)
  OBVIOUS
<1>7. Stored = [kind |-> r.kind, src |-> src, dst |-> dst, plastic |-> r.plastic, rowptr |-> v, cols |-> k, vals |-> x]
  BY <1>1, <1>5, <1>6, Zenon DEF Stored
<1>8. Fields(Stored, r.kind, src, dst, r.plastic, v, k, x)
  BY <1>7, Zenon DEF Fields
<1>9. r.kind # "sparse" => v = <<>> /\ k = <<>>
  BY <1>5
<1>10. ConnShape(Stored)
  BY <1>8, <1>9, FieldsShape
<1>11. PICK d : d = Stored
  OBVIOUS
<1>12. /\ d.kind = r.kind /\ d.src = src /\ d.dst = dst /\ d.plastic = r.plastic
       /\ d.rowptr = v /\ d.cols = k /\ d.vals = x
  BY <1>7, <1>11
<1>13. v = c.rowptr /\ k = c.cols
  BY <1>2, <1>3, <1>4, <1>5 DEF ConnShape
<1>14. Values(x, c.vals)
  <2>1. p + (n - 1) = p + n - 1
    BY <1>2
  <2> QED
    BY <1>3, <1>5, <2>1
<1>15. IsBack(d, c)
  BY <1>2, <1>6, <1>12, <1>13, <1>14 DEF IsBack, Values
<1> QED
  BY <1>1, <1>10, <1>11, <1>12, <1>14, <1>15

\* It fits the groups that are back: they have the sizes of those of the image.
LEMMA StoredFits ==
  ASSUME Lists, NEW i \in DOMAIN image.conns, ConnHeld(file, i, loading.at), ImageWhole,
         loading.at \in Nat, loading.at + ChunksOf(file[loading.at]) - 1 <= Len(file), Len(file) \in Nat,
         NEW n, \A j \in DOMAIN image.groups : j \in 1 .. n, NEW m, Back(n, m)
  PROVE  Fits(Stored, groups)
<1>1. PICK c, d : c = image.conns[i] /\ d = Stored
  OBVIOUS
<1>2. IsBack(d, c) /\ Values(d.vals, c.vals)
  BY <1>1, StoredIsBack
<1>3. /\ c.src \in DOMAIN image.groups /\ c.dst \in DOMAIN image.groups
      /\ ConnSound(c, image.groups[c.src].size, image.groups[c.dst].size)
  BY <1>1 DEF ImageWhole, ConnShapes, Fits
<1>4. ASSUME NEW g, NEW j \in DOMAIN image.groups, g = ByName(image.groups[j].name)
      PROVE  g \in DOMAIN groups /\ groups[g].size = image.groups[j].size
  <2>1. GroupBack(j)
    BY DEF Back
  <2>2. g # 0 /\ groups[g].size = image.groups[j].size
    BY <1>4, <2>1 DEF GroupBack
  <2> QED
    BY <1>4, <2>2, ByNameIn
<1>5. /\ d.src \in DOMAIN groups /\ d.dst \in DOMAIN groups
      /\ groups[d.src].size = image.groups[c.src].size /\ groups[d.dst].size = image.groups[c.dst].size
  BY <1>2, <1>3, <1>4 DEF IsBack
<1>6. PICK x, y : x = image.groups[c.src].size /\ y = image.groups[c.dst].size
  OBVIOUS
<1>7. /\ d.kind = c.kind /\ d.rowptr = c.rowptr /\ d.cols = c.cols
      /\ d.vals \in Seq(Int) /\ Len(d.vals) = Len(c.vals)
  BY <1>2 DEF IsBack, Values
<1>8. RowsSound(c, x, y) => RowsSound(d, x, y)
  BY <1>7 DEF RowsSound
<1>9. ConnSound(d, x, y)
  BY <1>3, <1>6, <1>7, <1>8 DEF ConnSound
<1> QED
  BY <1>1, <1>5, <1>6, <1>9 DEF Fits

\* It takes its place; connections of other pairs have other names, and stay.
LEMMA ConnComes ==
  ASSUME Lists, Shapes, UNCHANGED <<groups, image>>, ImageWhole, NEW i \in DOMAIN image.conns, NEW c,
         ConnShape(c), Fits(c, groups), IsBack(c, image.conns[i]), conns' = Append(DropConns(c.src, c.dst), c),
         NEW n, \A j \in DOMAIN image.groups : j \in 1 .. n, Back(n, i - 1)
  PROVE  Shapes' /\ Back(n, i)'
<1>1. PICK d : d = image.conns[i]
  OBVIOUS
<1>2. d.src \in DOMAIN image.groups /\ d.dst \in DOMAIN image.groups
  BY <1>1 DEF ImageWhole, ConnShapes, Fits
<1>3. /\ c.src = ByName(image.groups[d.src].name) /\ c.dst = ByName(image.groups[d.dst].name)
      /\ c.src # 0 /\ c.dst # 0
  BY <1>1, <1>2 DEF IsBack, Back, GroupBack
<1>4. /\ c.src \in DOMAIN groups /\ c.dst \in DOMAIN groups
      /\ groups[c.src].name = image.groups[d.src].name /\ groups[c.dst].name = image.groups[d.dst].name
  BY <1>3, ByNameIn
<1>5. /\ Shapes'
      /\ \E k \in DOMAIN conns' : conns'[k] = c
      /\ \A m \in DOMAIN conns : (conns[m].src = c.src /\ conns[m].dst = c.dst) \/ \E k \in DOMAIN conns' : conns'[k] = conns[m]
  BY Linked
<1>6. ASSUME NEW e, NEW a PROVE ByName(a)' = ByName(a) /\ (IsBack(e, a) => IsBack(e, a)')
  <2>1. \A b : ByName(b)' = ByName(b)
    BY ByNameIsFirst
  <2> QED
    BY <2>1 DEF IsBack
<1>7. ASSUME NEW j \in 1 .. n PROVE GroupBack(j)'
  <2>1. PICK a : a = image.groups[j].name
    OBVIOUS
  <2>2. ByName(a)' = ByName(a)
    BY <1>6
  <2>3. GroupBack(j)
    BY DEF Back
  <2> QED
    BY <2>1, <2>2, <2>3 DEF GroupBack
<1>8. ConnBack(i)'
  <2>1. PICK k \in DOMAIN conns' : conns'[k] = c
    BY <1>5
  <2>2. IsBack(c, d)'
    BY <1>1, <1>6
  <2>3. IsBack(conns[k], image.conns[i])'
    BY <1>1, <2>1, <2>2 DEF IsBack
  <2> QED
    BY <2>3 DEF ConnBack
<1>9. ASSUME NEW l \in 1 .. i - 1, NamesDiffer(image.groups) PROVE ConnBack(l)'
  <2>1. PICK k \in DOMAIN conns : IsBack(conns[k], image.conns[l])
    BY <1>9 DEF Back, ConnBack
  <2>2. PICK e, b : e = conns[k] /\ b = image.conns[l]
    OBVIOUS
  <2>3. l \in DOMAIN image.conns /\ l # i /\ b.src \in DOMAIN image.groups /\ b.dst \in DOMAIN image.groups
    <3>1. Len(image.conns) \in Nat /\ DOMAIN image.conns = 1 .. Len(image.conns)
      BY ListedLen DEF ImageWhole
    <3>2. l \in DOMAIN image.conns /\ l # i
      BY <3>1
    <3> QED
      BY <2>2, <3>2 DEF ImageWhole, ConnShapes, Fits
  <2>4. ~(e.src = c.src /\ e.dst = c.dst)
    <3>1. SUFFICES ASSUME e.src = c.src, e.dst = c.dst PROVE FALSE
      OBVIOUS
    <3>2. e.src = ByName(image.groups[b.src].name) /\ e.dst = ByName(image.groups[b.dst].name)
      BY <2>1, <2>2 DEF IsBack
    <3>3. groups[e.src].name = image.groups[b.src].name /\ groups[e.dst].name = image.groups[b.dst].name
      BY <1>3, <3>1, <3>2, ByNameIn
    <3>4. b.src = d.src /\ b.dst = d.dst
      BY <1>2, <1>4, <1>9, <2>3, <3>1, <3>3 DEF NamesDiffer
    <3> QED
      BY <1>1, <2>2, <2>3, <3>4 DEF ImageWhole, Distinct
  <2>5. PICK m \in DOMAIN conns' : conns'[m] = e
    BY <1>5, <2>2, <2>4
  <2>6. IsBack(e, b)'
    BY <1>6, <2>1, <2>2
  <2>7. IsBack(conns[m], image.conns[l])'
    BY <2>2, <2>5, <2>6 DEF IsBack
  <2> QED
    BY <2>7 DEF ConnBack
<1>10. \A l \in 1 .. i : l = i \/ l \in 1 .. i - 1
  <2>1. i \in Nat
    BY ListedLen DEF ImageWhole
  <2> QED
    BY <2>1
<1>11. Back(n, i)'
  BY <1>7, <1>8, <1>9, <1>10 DEF Back
<1> QED
  BY <1>5, <1>11

-----------------------------------------------------------------------------
(* What each step leaves of what is back.                                   *)

LEMMA FileBackStays ==
  ASSUME Lists, Lists', Shapes, ImageStays, Tame, UNCHANGED <<file, saving>>, FileBack
  PROVE  FileBack'
<1>1. PICK n, m : n = file[1].groups /\ m = file[1].conns
  OBVIOUS
<1>2. Back(n, m)'
  BY <1>1, BackStays DEF FileBack
<1> QED
  BY <1>1, <1>2 DEF FileBack, Back

\* A load goes on from what was back to what its next item needs.
LEMMA InLoadBegins ==
  ASSUME UNCHANGED file, NEW n, NEW m, Back(n, m)', GroupsIn(loading'.item) = n, ConnsIn(loading'.item) = m
  PROVE  InLoad'
<1>1. GroupsIn(loading.item)' = n /\ ConnsIn(loading.item)' = m
  BY DEF GroupsIn, ConnsIn
<1> QED
  BY <1>1 DEF InLoad, Back

LEMMA EditBack == ASSUME Lists, Lists', RInv, Edits PROVE RInv'
<1>1. Shapes /\ Held /\ Loaded /\ Quiet /\ Edited
  BY EditDisk, EditEdits DEF RInv
<1>2. ImageStays /\ UNCHANGED <<file, saving>> /\ saving' = Idle /\ loading' = NoLoad
  BY <1>1 DEF Quiet, Edited, ImageStays
<1>3. Held'
  BY <1>1, <1>2, HeldStays
<1>4. ASSUME last'.op = "load" PROVE FileBack'
  <2>1. Tame /\ last' = last
    BY <1>1, <1>4 DEF Quiet, Edited
  <2>2. FileBack
    BY <1>1, <1>4, <2>1 DEF Loaded
  <2> QED
    BY <1>1, <1>2, <2>1, <2>2, FileBackStays
<1> QED
  BY <1>1, <1>2, <1>3, <1>4 DEF Edited, Loaded, RInv

LEMMA LearnBack == ASSUME Lists, ImageShape, RInv, Learns PROVE RInv'
<1>1. Shapes /\ Held
  BY DEF RInv
<1>2. Shapes' /\ ImageStays /\ loading = NoLoad /\ (saving # Idle /\ Saved => Saved')
  BY <1>1, LearnEdits
<1>3. UNCHANGED <<file, saving, loading>> /\ last'.op # "load"
  BY LearnDisk
<1>4. Held'
  BY <1>1, <1>2, <1>3, HeldStays DEF Held
<1> QED
  BY <1>2, <1>3, <1>4 DEF Loaded, RInv

LEMMA SaveBack == ASSUME IInv, RInv, SaveBegin \/ SaveWrite \/ SaveEnd PROVE RInv'
<1>1. Lists /\ ImageShape /\ OnFile /\ Shapes /\ Held /\ Loaded
  BY DEF IInv, RInv
<1>2. UNCHANGED <<groups, conns>>
  BY DEF SaveBegin, SaveWrite, SaveEnd
<1>3. Shapes'
  BY <1>1, <1>2 DEF Shapes
<1>4. loading' = NoLoad /\ last'.op # "load"
  <2>1. CASE SaveBegin
    BY <2>1 DEF SaveBegin, MainFree
  <2>2. CASE SaveWrite \/ SaveEnd
    <3>1. saving # Idle /\ UNCHANGED <<loading, last>>
      BY <2>2 DEF SaveWrite, SaveEnd, Done, Idle
    <3> QED
      BY <1>1, <3>1 DEF OnFile, Loaded, FileBack
  <2> QED
    BY <2>1, <2>2
<1>5. Held'
  <2>1. CASE SaveBegin
    BY <1>1, <2>1, SaveBeginHeld
  <2>2. CASE SaveWrite
    BY <1>1, <2>2, SaveWriteHeld
  <2>3. CASE SaveEnd
    <3>1. UNCHANGED <<file, image>> /\ saving' = Idle
      BY <2>3 DEF SaveEnd
    <3> QED
      BY <1>1, <3>1, HeldStays DEF ImageStays
  <2> QED
    BY <2>1, <2>2, <2>3
<1> QED
  BY <1>3, <1>4, <1>5 DEF Loaded, RInv

LEMMA StillBack ==
  ASSUME Lists, Lists', RInv, UNCHANGED <<groups, conns, file, saving, loading, last, image>>
  PROVE  RInv'
<1>1. Shapes /\ Held /\ Loaded /\ ImageStays
  BY DEF RInv, ImageStays
<1>2. Tame
  BY ListedLen DEF Tame, GroupsKept, Lists
<1>3. Shapes'
  BY <1>1 DEF Shapes
<1>4. Held'
  BY <1>1 DEF Held, Saved, SameGroup, SameConn, Values, ImageWhole, GroupsHeld, GroupHeld, ConnsHeld, ConnHeld, Layout, Start
<1>5. last'.op = "load" => FileBack'
  BY <1>1, <1>2, FileBackStays DEF Loaded
<1>6. ASSUME loading' # NoLoad PROVE InLoad'
  <2>1. PICK n, m : n = GroupsIn(loading.item) /\ m = ConnsIn(loading.item)
    OBVIOUS
  <2>2. Back(n, m)'
    BY <1>1, <1>2, <1>6, <2>1, BackStays DEF Loaded, InLoad
  <2> QED
    BY <2>1, <2>2, InLoadBegins
<1> QED
  BY <1>3, <1>4, <1>5, <1>6 DEF Loaded, RInv

LEMMA GoneBack == ASSUME RInv, NEW how, Gone(how) PROVE RInv'
<1>1. /\ groups' = <<>> /\ conns' = <<>> /\ saving' = Idle /\ loading' = NoLoad
      /\ last'.op # "load" /\ UNCHANGED <<file, image>>
  BY DEF Gone
<1>2. Shapes'
  BY <1>1 DEF Shapes, GroupShapes, ConnShapes, Distinct
<1>3. Held'
  BY <1>1, HeldStays DEF RInv, ImageStays
<1> QED
  BY <1>1, <1>2, <1>3 DEF Loaded, RInv

LEMMA FileCounts == ASSUME OnFile, file # <<>> PROVE Counts(file) /\ Len(file) \in Nat
  BY ListedLen DEF OnFile, Filed, Layout

LEMMA LoadBeginBack == ASSUME Lists, Lists', OnFile, RInv, LoadBegin PROVE RInv'
<1>1. Shapes /\ Held /\ Loaded /\ ImageStays
      /\ UNCHANGED <<groups, conns, file, saving, last, image>> /\ saving = Idle /\ file # <<>>
      /\ loading'.item = GroupItem(file[1], 0 + 1)
  BY DEF RInv, ImageStays, LoadBegin, MainFree
<1>2. Tame
  BY <1>1, ListedLen DEF Tame, GroupsKept, Lists
<1>3. Shapes' /\ Held'
  BY <1>1, HeldStays DEF Shapes
<1>4. last'.op = "load" => FileBack'
  BY <1>1, <1>2, FileBackStays DEF Loaded
<1>5. Counts(file)
  BY <1>1, FileCounts
<1>6. GroupsIn(GroupItem(file[1], 0 + 1)) = 0 /\ ConnsIn(GroupItem(file[1], 0 + 1)) = 0
  <2>1. 0 \in 0 .. file[1].groups
    BY <1>5 DEF Counts
  <2> QED
    BY <1>5, <2>1, InItems
<1>7. GroupsIn(loading'.item) = 0 /\ ConnsIn(loading'.item) = 0
  BY <1>1, <1>6
<1>8. Back(0, 0)'
  BY DEF Back
<1>9. InLoad'
  BY <1>1, <1>7, <1>8, InLoadBegins
<1> QED
  BY <1>3, <1>4, <1>9 DEF Loaded, RInv

LEMMA LoadGroupBack == ASSUME Lists, Lists', OnFile, RInv, LoadGroup PROVE RInv'
<1>1. PICK r : r = file[loading.at]
  OBVIOUS
<1>2. /\ Reads("group") /\ loading.at + 1 - 1 <= Len(file)
      /\ loading' = [item |-> GroupItem(file[1], loading.item[2] + 1), at |-> loading.at + 1]
      /\ UNCHANGED <<conns, file, saving, last, image>>
      /\ ByName(r.name) # 0 => groups[ByName(r.name)].size = r.size
      /\ groups' = IF ByName(r.name) # 0
                   THEN [groups EXCEPT ![ByName(r.name)].v = r.v, ![ByName(r.name)].window = r.window]
                   ELSE Append(groups, [name |-> r.name, size |-> r.size, v |-> r.v,
                                        window |-> r.window, hold |-> FALSE])
  BY <1>1, Zenon DEF LoadGroup, Found, Advance, Index
<1>3. loading # NoLoad /\ saving = Idle /\ file # <<>> /\ Counts(file) /\ Len(file) \in Nat
  BY <1>2, Loads, FileCounts
<1>4. Shapes /\ Held /\ InLoad /\ (last.op = "load" => FileBack)
  BY <1>3 DEF RInv, Loaded
<1>5. PICK i : i \in 1 .. file[1].groups /\ loading.item = <<"group", i>> /\ loading.at = i + 1
  <2>1. PICK at, w : Filed(at, w)
    BY <1>3 DEF OnFile
  <2> QED
    BY <1>2, <1>3, <2>1 DEF Filed, Stands, AtGroup, Reads, Done
<1>6. ImageWhole /\ GroupHeld(file, i) /\ i + 1 <= Len(file)
  BY <1>2, <1>3, <1>4, <1>5 DEF Held, GroupsHeld, Counts
<1>7. i \in DOMAIN image.groups /\ DOMAIN image.groups = 1 .. file[1].groups /\ i \in Nat
  BY <1>3, <1>5, <1>6, ListedLen DEF ImageWhole, Counts
<1>8. /\ r.name = image.groups[i].name /\ (~image.learned => r.v = image.groups[i].v)
      /\ r.size = image.groups[i].size /\ r.size \in Nat
  BY <1>1, <1>5, <1>6, <1>7 DEF GroupHeld, ImageWhole, GroupShapes, GroupShape
<1>9. /\ Shapes' /\ GroupBack(i)'
      /\ \A n, m : 1 .. n \subseteq DOMAIN image.groups /\ Back(n, m) => Back(n, m)'
  BY <1>2, <1>4, <1>7, <1>8, GroupComes
<1>10. Held'
  BY <1>2, <1>3, <1>4, HeldStays DEF ImageStays
<1>11. ASSUME last'.op = "load" PROVE FileBack'
  <2>1. PICK n, m : n = file[1].groups /\ m = file[1].conns
    OBVIOUS
  <2>2. Back(n, m)
    BY <1>2, <1>4, <1>11, <2>1 DEF FileBack
  <2>3. Back(n, m)'
    BY <1>7, <1>9, <2>1, <2>2
  <2> QED
    BY <1>2, <1>3, <2>1, <2>3 DEF FileBack, Back
<1>12. InLoad'
  <2>1. Back(i - 1, 0)
    BY <1>4, <1>5 DEF InLoad, GroupsIn, ConnsIn
  <2>2. 1 .. i - 1 \subseteq DOMAIN image.groups
    BY <1>3, <1>5, <1>7 DEF Counts
  <2>3. Back(i - 1, 0)'
    BY <1>9, <2>1, <2>2
  <2>4. \A j \in 1 .. i : j = i \/ j \in 1 .. i - 1
    BY <1>7
  <2>5. Back(i, 0)'
    BY <1>9, <2>3, <2>4 DEF Back
  <2>6. GroupsIn(GroupItem(file[1], i + 1)) = i /\ ConnsIn(GroupItem(file[1], i + 1)) = 0
    BY <1>3, <1>5, <1>7, InItems
  <2>7. loading'.item = GroupItem(file[1], i + 1)
    BY <1>2, <1>5
  <2> QED
    BY <1>2, <2>5, <2>6, <2>7, InLoadBegins
<1> QED
  BY <1>9, <1>10, <1>11, <1>12 DEF Loaded, RInv

\* What a load makes of the chunks of a connection is one that fits.
LEMMA LoadConnFits == ASSUME Lists, OnFile, RInv, LoadConn PROVE ConnShape(Stored) /\ Fits(Stored, groups)
<1>1. /\ loading # NoLoad /\ saving = Idle /\ file # <<>> /\ Counts(file) /\ Len(file) \in Nat
      /\ \E at, i : /\ Layout(file, at) /\ i \in 1 .. Len(at) /\ i \in 1 .. file[1].conns
                   /\ loading.item = <<"conn", i>> /\ at[i] = loading.at
                   /\ loading.at + ChunksOf(file[loading.at]) - 1 <= Len(file) /\ loading.at \in Nat
                   /\ loading' = [item |-> ConnItem(file[1], i + 1), at |-> loading.at + ChunksOf(file[loading.at])]
  BY ConnAt, FileCounts
<1>2. PICK at, i : /\ Layout(file, at) /\ i \in 1 .. Len(at) /\ i \in 1 .. file[1].conns
                   /\ loading.item = <<"conn", i>> /\ at[i] = loading.at
                   /\ loading.at + ChunksOf(file[loading.at]) - 1 <= Len(file) /\ loading.at \in Nat
  BY <1>1
<1>3. ImageWhole /\ ConnHeld(file, i, loading.at) /\ InLoad
  BY <1>1, <1>2 DEF RInv, Loaded, Held, ConnsHeld
<1>4. i \in DOMAIN image.conns /\ DOMAIN image.groups = 1 .. file[1].groups
  BY <1>1, <1>2, <1>3, ListedLen DEF ImageWhole, Counts
<1>5. PICK n : n = file[1].groups
  OBVIOUS
<1>6. Back(n, i - 1) /\ \A j \in DOMAIN image.groups : j \in 1 .. n
  BY <1>2, <1>3, <1>4, <1>5 DEF InLoad, GroupsIn, ConnsIn
<1>7. Fits(Stored, groups)
  BY <1>1, <1>2, <1>3, <1>4, <1>6, StoredFits
<1>8. ConnShape(Stored)
  BY <1>1, <1>2, <1>3, <1>4, StoredIsBack
<1> QED
  BY <1>7, <1>8

LEMMA LoadConnBack == ASSUME Lists, Lists', OnFile, RInv, LoadConn PROVE RInv'
<1>1. /\ conns' = Append(DropConns(Stored.src, Stored.dst), Stored) /\ last'.op = "connect"
      /\ UNCHANGED <<groups, file, saving, image>>
  BY DEF LoadConn, Link
<1>2. /\ loading # NoLoad /\ saving = Idle /\ file # <<>> /\ Counts(file) /\ Len(file) \in Nat
      /\ \E at, i : /\ Layout(file, at) /\ i \in 1 .. Len(at) /\ i \in 1 .. file[1].conns
                   /\ loading.item = <<"conn", i>> /\ at[i] = loading.at
                   /\ loading.at + ChunksOf(file[loading.at]) - 1 <= Len(file) /\ loading.at \in Nat
                   /\ loading' = [item |-> ConnItem(file[1], i + 1), at |-> loading.at + ChunksOf(file[loading.at])]
  BY ConnAt, FileCounts
<1>3. PICK at, i : /\ Layout(file, at) /\ i \in 1 .. Len(at) /\ i \in 1 .. file[1].conns
                   /\ loading.item = <<"conn", i>> /\ at[i] = loading.at
                   /\ loading.at + ChunksOf(file[loading.at]) - 1 <= Len(file) /\ loading.at \in Nat
                   /\ loading'.item = ConnItem(file[1], i + 1)
  BY <1>2
<1>4. Shapes /\ Held /\ InLoad
  BY <1>2 DEF RInv, Loaded
<1>5. ImageWhole /\ ConnHeld(file, i, loading.at)
  BY <1>2, <1>3, <1>4 DEF Held, ConnsHeld
<1>6. /\ i \in DOMAIN image.conns /\ i \in Nat
      /\ DOMAIN image.groups = 1 .. file[1].groups
  BY <1>2, <1>3, <1>5, ListedLen DEF ImageWhole, Counts
<1>7. PICK n, c : n = file[1].groups /\ c = Stored
  OBVIOUS
<1>8. ConnShape(c) /\ IsBack(c, image.conns[i])
  BY <1>2, <1>3, <1>5, <1>6, <1>7, StoredIsBack
<1>9. Back(n, i - 1)
  BY <1>3, <1>4, <1>7 DEF InLoad, GroupsIn, ConnsIn
<1>10. conns' = Append(DropConns(c.src, c.dst), c) /\ (\A j \in DOMAIN image.groups : j \in 1 .. n) /\ Fits(c, groups)
  <2>1. \A j \in DOMAIN image.groups : j \in 1 .. n
    BY <1>6, <1>7
  <2>2. Fits(Stored, groups)
    BY <1>2, <1>3, <1>5, <1>6, <1>9, <2>1, StoredFits
  <2> QED
    BY <1>1, <1>7, <2>1, <2>2
<1>11. Shapes' /\ Back(n, i)'
  BY <1>1, <1>4, <1>5, <1>6, <1>8, <1>9, <1>10, ConnComes
<1>12. GroupsIn(ConnItem(file[1], i + 1)) = n /\ ConnsIn(ConnItem(file[1], i + 1)) = i
  BY <1>2, <1>3, <1>6, <1>7, InItems
<1>13. InLoad'
  BY <1>1, <1>3, <1>11, <1>12, InLoadBegins
<1>14. Held'
  BY <1>1, <1>2, <1>4, HeldStays DEF ImageStays
<1> QED
  BY <1>1, <1>11, <1>13, <1>14 DEF Loaded, RInv

LEMMA LoadStdpBack == ASSUME Lists, Lists', OnFile, RInv, LoadStdp PROVE RInv'
<1>1. /\ Reads("stdp") /\ UNCHANGED <<conns, file, saving, last, image>>
      /\ loading'.item = StdpItem(file[1], loading.item[2] + 1)
      /\ \E src, dst, w : groups' = WindowSet(groups, src, dst, w)
  BY DEF LoadStdp, Advance, Index
<1>2. loading # NoLoad /\ saving = Idle /\ file # <<>> /\ Counts(file)
  BY <1>1, Loads, FileCounts
<1>3. Shapes /\ Held /\ InLoad /\ (last.op = "load" => FileBack)
  BY <1>2 DEF RInv, Loaded
<1>4. Shapes' /\ Tame
  BY <1>1, <1>3, WindowsPatched, ListedLen DEF Tame, Lists
<1>5. ImageStays /\ Held'
  BY <1>1, <1>2, <1>3, HeldStays DEF ImageStays
<1>6. last'.op = "load" => FileBack'
  BY <1>1, <1>3, <1>4, <1>5, FileBackStays
<1>7. PICK n, m : n = file[1].groups /\ m = file[1].conns
  OBVIOUS
<1>8. Back(n, m)
  BY <1>1, <1>3, <1>7 DEF InLoad, Reads, GroupsIn, ConnsIn
<1>9. Back(n, m)'
  BY <1>3, <1>4, <1>5, <1>8, BackStays
<1>10. GroupsIn(loading'.item) = n /\ ConnsIn(loading'.item) = m
  BY <1>1, <1>2, <1>7, InItems
<1>11. InLoad'
  BY <1>1, <1>9, <1>10, InLoadBegins
<1> QED
  BY <1>4, <1>5, <1>6, <1>11 DEF Loaded, RInv

LEMMA LoadEndBack == ASSUME Lists, Lists', OnFile, RInv, LoadEnd PROVE RInv'
<1>1. /\ Reads("done") /\ UNCHANGED <<groups, conns, file, saving, image>> /\ loading' = NoLoad
  BY DEF LoadEnd
<1>2. loading # NoLoad /\ saving = Idle /\ file # <<>>
  BY <1>1, Loads
<1>3. Shapes /\ Held /\ InLoad /\ ImageStays
  BY <1>1, <1>2 DEF RInv, Loaded, ImageStays
<1>4. FileBack
  BY <1>1, <1>2, <1>3 DEF FileBack, InLoad, Reads, GroupsIn, ConnsIn
<1>5. Tame
  BY <1>1, ListedLen DEF Tame, GroupsKept, Lists
<1>6. Shapes' /\ Held' /\ FileBack'
  BY <1>1, <1>2, <1>3, <1>4, <1>5, HeldStays, FileBackStays DEF Shapes
<1> QED
  BY <1>1, <1>6 DEF Loaded, RInv

-----------------------------------------------------------------------------

LEMMA RestoreInit == Init => RInv
  BY DEF Init, RInv, Shapes, GroupShapes, ConnShapes, Distinct, Held, Loaded

LEMMA RestoreNext == IInv /\ IInv' /\ RInv /\ [Next]_vars => RInv'
<1> SUFFICES ASSUME IInv, IInv', RInv, [Next]_vars PROVE RInv'
  OBVIOUS
<1>1. Lists /\ Lists' /\ ImageShape /\ OnFile
  BY DEF IInv
<1>2. CASE Edits
  BY <1>1, <1>2, EditBack
<1>3. CASE Learns
  BY <1>1, <1>3, LearnBack
<1>4. CASE SaveBegin \/ SaveWrite \/ SaveEnd
  BY <1>4, SaveBack
<1>5. CASE LoadBegin
  BY <1>1, <1>5, LoadBeginBack
<1>6. CASE LoadGroup
  BY <1>1, <1>6, LoadGroupBack
<1>7. CASE LoadConn
  BY <1>1, <1>7, LoadConnBack
<1>8. CASE LoadStdp
  BY <1>1, <1>8, LoadStdpBack
<1>9. CASE LoadEnd
  BY <1>1, <1>9, LoadEndBack
<1>10. CASE LoadPanic \/ Crash
  <2>1. \E how : Gone(how)
    BY <1>10 DEF LoadPanic, Crash
  <2> QED
    BY <2>1, GoneBack
<1>11. CASE Restart \/ UNCHANGED vars
  <2>1. UNCHANGED <<groups, conns, file, saving, loading, last, image>>
    BY <1>11 DEF Restart, vars
  <2> QED
    BY <1>1, <2>1, StillBack
<1> QED
  BY <1>2, <1>3, <1>4, <1>5, <1>6, <1>7, <1>8, <1>9, <1>10, <1>11, Steps DEF Checkpoint

\* A connection that is back is the one its pair has.
LEMMA BackIsRestored ==
  ASSUME Lists, Shapes, NEW c, ConnShape(c), NEW k \in DOMAIN conns, IsBack(conns[k], c)
  PROVE  Restored(c)
<1>1. PICK src, dst : src = ByName(image.groups[c.src].name) /\ dst = ByName(image.groups[c.dst].name)
  OBVIOUS
<1>2. PICK now : now = conns[k]
  OBVIOUS
<1>3. /\ now.src = src /\ now.dst = dst
      /\ now.kind = c.kind /\ now.plastic = c.plastic /\ now.rowptr = c.rowptr /\ now.cols = c.cols
      /\ ~image.learned => now.vals = c.vals
  BY <1>1, <1>2 DEF IsBack
<1>4. <<src, dst>> \in Pairs
  BY <1>2, <1>3 DEF Pairs, Range
<1>5. FindConn(src, dst) = k
  BY <1>2, <1>3, Finds, ListedLen DEF Lists, Shapes, Distinct
<1>6. ConnOf(<<src, dst>>) = now
  BY <1>2, <1>5 DEF ConnOf
<1>7. ConnShape(now)
  BY <1>2 DEF Shapes, ConnShapes
<1>8. [now EXCEPT !.vals = <<>>] = [c EXCEPT !.src = src, !.dst = dst, !.vals = <<>>]
  <2>1. PICK d1 : d1 = [c EXCEPT !.src = src]
    OBVIOUS
  <2>2. PICK d2 : d2 = [d1 EXCEPT !.dst = dst]
    OBVIOUS
  <2>3. PICK d3 : d3 = [d2 EXCEPT !.vals = <<>>]
    OBVIOUS
  <2>4. [c EXCEPT !.src = src, !.dst = dst, !.vals = <<>>] = d3
    BY <2>1, <2>2, <2>3
  <2>5. d1 = [kind |-> c.kind, src |-> src, dst |-> c.dst, plastic |-> c.plastic,
              rowptr |-> c.rowptr, cols |-> c.cols, vals |-> c.vals]
    BY <2>1 DEF ConnShape
  <2>6. d2 = [kind |-> c.kind, src |-> src, dst |-> dst, plastic |-> c.plastic,
              rowptr |-> c.rowptr, cols |-> c.cols, vals |-> c.vals]
    BY <2>2, <2>5
  <2>7. d3 = [kind |-> c.kind, src |-> src, dst |-> dst, plastic |-> c.plastic,
              rowptr |-> c.rowptr, cols |-> c.cols, vals |-> <<>>]
    BY <2>3, <2>6
  <2>8. [now EXCEPT !.vals = <<>>] = [kind |-> c.kind, src |-> src, dst |-> dst, plastic |-> c.plastic,
                                      rowptr |-> c.rowptr, cols |-> c.cols, vals |-> <<>>]
    BY <1>3, <1>7 DEF ConnShape
  <2> QED
    BY <2>4, <2>7, <2>8
<1> QED
  BY <1>1, <1>3, <1>4, <1>6, <1>8 DEF Restored

LEMMA RestoreMeans == IInv /\ RInv => LoadRestores
<1> SUFFICES ASSUME IInv, RInv, last.op = "load", NamesDiffer(image.groups)
             PROVE  /\ \A c \in Range(image.conns) : Restored(c)
                    /\ ~image.learned => \A g \in Range(image.groups) : groups[ByName(g.name)].v = g.v
  BY DEF IInv, LoadRestores
<1>1. Lists /\ Shapes /\ FileBack /\ ImageWhole
  BY DEF IInv, RInv, Loaded, FileBack, Held
<1>2. DOMAIN image.groups = 1 .. file[1].groups /\ DOMAIN image.conns = 1 .. file[1].conns
  BY <1>1, ListedLen DEF ImageWhole
<1>3. ASSUME NEW c \in Range(image.conns) PROVE Restored(c)
  <2>1. PICK i \in DOMAIN image.conns : c = image.conns[i]
    BY DEF Range
  <2>2. ConnShape(c)
    BY <1>1, <2>1 DEF ImageWhole, ConnShapes
  <2>3. PICK k \in DOMAIN conns : IsBack(conns[k], c)
    BY <1>1, <1>2, <2>1 DEF FileBack, Back, ConnBack
  <2> QED
    BY <1>1, <2>2, <2>3, BackIsRestored
<1>4. ASSUME ~image.learned, NEW g \in Range(image.groups) PROVE groups[ByName(g.name)].v = g.v
  <2>1. PICK j \in DOMAIN image.groups : g = image.groups[j]
    BY DEF Range
  <2> QED
    BY <1>1, <1>2, <1>4, <2>1 DEF FileBack, Back, GroupBack
<1> QED
  BY <1>3, <1>4

\* What is in memory, in the file and in the part of the file a load has read is the
\* network that was saved, whatever crash, full disk or running loop came in between
\* (ndl_rt_io.cpp 180-437).
THEOREM RestoreInvariant == Spec => [](IInv /\ RInv)
<1>1. Init => IInv /\ RInv
  BY InitInv, RestoreInit
<1>2. IInv /\ RInv /\ [Next]_vars => (IInv /\ RInv)'
  BY NextInv, RestoreNext
<1> QED
  BY <1>1, <1>2, PTL DEF Spec

\* After a load that returns, every connection of the file is back under the pair of
\* groups of its names, with the storage and the weights it had when it was saved, and
\* every group has its membrane; but for what a running loop learned while the file
\* was written (ndl_rt_io.cpp 197-243, 262-437).
THEOREM NetworkRestores == Spec => []LoadRestores
  BY RestoreMeans, RestoreInvariant, PTL

\* Neither connecting nor loading leaves two connections of a pair: what find_conn and
\* drop_conns find is all there is (ndl_rt_network.cpp 106-114).
THEOREM NetworkOnePerPair == Spec => []OnePerPair
<1>1. ASSUME Lists, Distinct(conns) PROVE OnePerPair
  <2> DEFINE f == [i \in 1 .. Len(conns) |-> <<conns[i].src, conns[i].dst>>]
  <2>1. Len(conns) \in Nat /\ DOMAIN conns = 1 .. Len(conns)
    BY <1>1, ListedLen DEF Lists
  <2>2. f \in [1 .. Len(conns) -> Pairs]
    BY <2>1 DEF Pairs, Range
  <2>3. \A i, k \in 1 .. Len(conns) : f[i] = f[k] => i = k
    BY <1>1, <2>1 DEF Distinct
  <2>4. \A p \in Pairs : \E i \in 1 .. Len(conns) : f[i] = p
    BY <2>1 DEF Pairs, Range
  <2>5. ExistsBijection(1 .. Len(conns), Pairs)
    <3>1. f \in Surjection(1 .. Len(conns), Pairs)
      BY <2>2, <2>4, Zenon DEF Surjection
    <3>2. f \in Injection(1 .. Len(conns), Pairs)
      BY <2>2, <2>3, Zenon DEF Injection, IsInjective
    <3> HIDE DEF f
    <3> QED
      BY <3>1, <3>2, Zenon DEF ExistsBijection, Bijection
  <2> QED
    BY <2>1, <2>5, FS_CountingElements DEF OnePerPair
<1>2. IInv /\ RInv => OnePerPair
  BY <1>1 DEF IInv, RInv, Shapes
<1> QED
  BY <1>2, RestoreInvariant, PTL
-----------------------------------------------------------------------------
(* Every connection is what the code relies on, and what was saved to its   *)
(* end passes the checks of a load.                                         *)

\* Sound storage is what WellFormed asks of it.
LEMMA SoundIsWell ==
  ASSUME NEW m \in Nat, NEW n \in Nat, NEW c, SizeOf(c.src) = m, SizeOf(c.dst) = n, ConnSound(c, m, n)
  PROVE  Sane(c) /\ (c.kind = "sparse" => RowsAscend(c))
<1>1. CASE c.kind # "sparse"
  <2>1. m * 1 = m
    OBVIOUS
  <2> QED
    BY <1>1, <2>1 DEF ConnSound, Sane
<1>2. CASE c.kind = "sparse"
  <2>1. RowsSound(c, m, n) /\ Len(c.cols) \in Nat /\ DOMAIN c.cols = 1 .. Len(c.cols)
    BY <1>2, LenProperties DEF ConnSound, RowsSound
  <2>2. Sane(c)
    <3>1. Len(c.rowptr) = n + 1 /\ \A j \in 1 .. n : c.rowptr[j] <= c.rowptr[j + 1]
      BY <2>1 DEF RowsSound, RowSound
    <3>2. \A j \in 1 .. Len(c.rowptr) - 1 : c.rowptr[j] <= c.rowptr[j + 1]
      BY <3>1
    <3> QED
      BY <1>2, <2>1, <3>1, <3>2 DEF Sane, RowsSound
  <2>3. ASSUME NEW j \in 0 .. n - 1, NEW k \in RowOf(c, j)
        PROVE  c.cols[k] \in 0 .. m - 1 /\ (k + 1 \in RowOf(c, j) => c.cols[k] < c.cols[k + 1])
    <3>1. PICK b, e : b = c.rowptr[j + 1] /\ e = c.rowptr[j + 2]
      OBVIOUS
    <3>2. RowGood(c, b, e, 0 .. m - 1) /\ e <= Len(c.cols)
      BY <2>1, <3>1, SoundRow
    <3>3. b \in Nat /\ e \in Nat /\ k \in b + 1 .. e
      BY <3>1, <3>2 DEF RowGood, RowOf
    <3>4. c.cols[k] \in 0 .. m - 1
      BY <3>2, <3>3 DEF RowGood
    <3>5. \A i, l \in b + 1 .. e : i < l => c.cols[i] < c.cols[l]
      BY <3>2 DEF RowGood
    <3>6. k + 1 \in RowOf(c, j) => k + 1 \in b + 1 .. e
      BY <3>1 DEF RowOf
    <3>7. k < k + 1
      BY <3>3
    <3> QED
      BY <3>3, <3>4, <3>5, <3>6, <3>7
  <2> QED
    BY <2>2, <2>3 DEF RowsAscend, Neuron
<1> QED
  BY <1>1, <1>2

\* So is that of a connection that fits its groups.
LEMMA FitsIsWell ==
  ASSUME GroupShapes(groups), NEW c, Fits(c, groups)
  PROVE  Sane(c) /\ (c.kind = "sparse" => RowsAscend(c))
<1>1. PICK m, n : m = SizeOf(c.src) /\ n = SizeOf(c.dst)
  OBVIOUS
<1>2. m \in Nat /\ n \in Nat /\ ConnSound(c, m, n)
  BY <1>1, FitsSizes
<1> QED
  BY <1>1, <1>2, SoundIsWell

\* Whatever sequence of connect, set_plasticity, prune, normalize, grow, learning, save,
\* crash and load has produced it, every stored connection is what the tick, get_weight
\* and the merge of grow rely on: one per pair, row bounds that ascend from nothing to
\* everything, strictly ascending columns of the source in each row, as many weights as
\* the layout asks for (ndl_rt_network.cpp 106-114, 528-530, 1176).
THEOREM NetworkWellFormed == Spec => []WellFormed
<1>1. RInv => \A i \in DOMAIN conns : Sane(conns[i]) /\ (conns[i].kind = "sparse" => RowsAscend(conns[i]))
  BY FitsIsWell DEF RInv, Shapes, ConnShapes
<1>2. RInv /\ OnePerPair => WellFormed
  BY <1>1 DEF WellFormed
<1> QED
  BY <1>2, RestoreInvariant, NetworkOnePerPair, PTL

\* In a file written to its end a load finds every item, and every connection passes its
\* checks.
LEMMA WholeIsFound ==
  ASSUME Lists, OnFile, RInv, loading # NoLoad, image.complete
  PROVE  ~Truncated
<1>1. file # <<>> /\ Shapes /\ Held /\ InLoad
  BY DEF OnFile, RInv, Loaded
<1>2. PICK at : Layout(file, at) /\ EndsBefore(file, at, Done) /\ Stands(file, at, loading)
  BY <1>1 DEF OnFile, Filed
<1>3. /\ Len(file) \in Nat /\ Len(at) \in Nat /\ Counts(file)
      /\ \A k \in 1 .. Len(at) + 1 : Start(file, at, k) \in Nat /\ Start(file, at, k) >= file[1].groups + 2
      /\ \A k \in 1 .. Len(at) : at[k] = Start(file, at, k) /\ at[k] <= Len(file)
  BY <1>2, ListedLen, StartNumber, AfterGroups DEF Layout
<1>4. PICK last_ : last_ = Start(file, at, Len(at) + 1)
  OBVIOUS
<1>5. Len(at) = file[1].conns /\ Len(file) + 1 = last_ + file[1].stdps /\ last_ \in Nat /\ last_ >= file[1].groups + 2
  <2>1. EndsAtStdp(file, at, file[1].stdps + 1)
    BY <1>2 DEF EndsBefore, Done
  <2>2. Len(at) + 1 \in 1 .. Len(at) + 1
    BY <1>3
  <2>3. last_ \in Nat /\ last_ >= file[1].groups + 2
    BY <1>3, <1>4, <2>2
  <2> QED
    BY <1>3, <1>4, <2>1, <2>3 DEF EndsAtStdp, Counts
<1>6. ASSUME Reads("group") PROVE Found(1)
  <2>1. PICK i \in 1 .. file[1].groups : loading.at = i + 1
    BY <1>2, <1>6 DEF Stands, Reads, AtGroup, Done
  <2> QED
    BY <1>3, <1>5, <2>1 DEF Found, Counts
<1>7. ASSUME Reads("stdp") PROVE Found(1)
  <2>1. PICK i \in 1 .. file[1].stdps : loading.at = last_ + i - 1
    BY <1>2, <1>4, <1>7 DEF Stands, Reads, AtStdp, Done
  <2> QED
    BY <1>3, <1>5, <2>1 DEF Found, Counts
<1>8. ASSUME Reads("conn") PROVE Found(1) /\ Found(ChunksOf(file[loading.at])) /\ Sane(Stored)
  <2>1. PICK i \in 1 .. file[1].conns : loading.item = <<"conn", i>> /\ loading.at = Start(file, at, i)
    BY <1>2, <1>8 DEF Stands, Reads, AtConn, Done
  <2>2. i \in 1 .. Len(at) /\ loading.at = at[i] /\ loading.at \in Nat /\ loading.at <= Len(file) /\ i \in Nat
    BY <1>3, <1>5, <2>1
  <2>3. loading.at + ChunksOf(file[loading.at]) <= Len(file) + 1
    BY <1>2, <2>2, Ends DEF Done
  <2>4. ChunksOf(file[loading.at]) \in Nat
    BY DEF ChunksOf
  <2>5. loading.at + ChunksOf(file[loading.at]) - 1 <= Len(file)
    BY <1>3, <2>2, <2>3, <2>4
  <2>6. Found(1) /\ Found(ChunksOf(file[loading.at]))
    BY <1>3, <2>2, <2>5 DEF Found
  <2>7. ImageWhole /\ ConnHeld(file, i, loading.at)
    BY <1>1, <1>2, <2>2 DEF Held, ConnsHeld
  <2>8. i \in DOMAIN image.conns /\ DOMAIN image.groups = 1 .. file[1].groups
    BY <1>3, <2>1, <2>7, ListedLen DEF ImageWhole, Counts
  <2>9. PICK n : n = file[1].groups
    OBVIOUS
  <2>10. Back(n, i - 1)
    BY <1>1, <2>1, <2>9 DEF InLoad, GroupsIn, ConnsIn
  <2>11. \A j \in DOMAIN image.groups : j \in 1 .. n
    BY <2>8, <2>9
  <2>12. Fits(Stored, groups)
    BY <1>3, <2>2, <2>5, <2>7, <2>8, <2>10, <2>11, StoredFits
  <2>13. Sane(Stored)
    BY <1>1, <2>12, FitsIsWell DEF Shapes
  <2> QED
    BY <2>6, <2>13
<1> QED
  BY <1>6, <1>7, <1>8 DEF Truncated

\* A file that was written to its end is never found corrupt or cut short: what the
\* operations leave in memory passes the checks a load makes (ndl_rt_io.cpp 343-385).
THEOREM NetworkSavedIsSound == Spec => []SavedIsSound
<1>1. Init => SavedIsSound
  BY DEF Init, SavedIsSound
<1>2. IInv /\ RInv /\ SavedIsSound /\ [Next]_vars => SavedIsSound'
  <2> SUFFICES ASSUME IInv, RInv, SavedIsSound, [Next]_vars, process' = "corrupt" PROVE ~image'.complete
    BY DEF SavedIsSound
  <2>1. Lists /\ OnFile
    BY DEF IInv
  <2>2. ASSUME process = "up", UNCHANGED process PROVE FALSE
    BY <2>2
  <2>3. ASSUME NEW p, NEW c, NEW request, Rewrite(p, c, request) PROVE FALSE
    BY <2>2, <2>3 DEF Rewrite, Unlocked, diskVars
  <2>4. CASE Edits
    <3>1. CASE Building
      <4>1. MainFree /\ UNCHANGED diskVars
        BY <3>1 DEF Building, GroupCreate, DenseConnect, SparseConnect, OneToOneConnect, ConfigureStdp
      <4> QED
        BY <2>2, <4>1 DEF MainFree, diskVars
    <3>2. CASE \E p : \E c, request : Rewrite(p, c, request)
      BY <2>3, <3>2
    <3> QED
      BY <2>4, <3>1, <3>2 DEF Edits, SetPlasticity, Prune, Normalize, Grow
  <2>5. CASE Learns
    BY <2>2, <2>5 DEF Learns, Learn, TickLock
  <2>6. CASE SaveBegin \/ SaveWrite \/ SaveEnd
    BY <2>2, <2>6 DEF SaveBegin, SaveWrite, SaveEnd, MainFree
  <2>7. CASE LoadBegin \/ LoadGroup \/ LoadConn \/ LoadStdp \/ LoadEnd
    BY <2>2, <2>7 DEF LoadBegin, LoadGroup, LoadConn, LoadStdp, LoadEnd, MainFree, Reads
  <2>8. CASE LoadPanic
    <3>1. Truncated /\ UNCHANGED image
      BY <2>8 DEF LoadPanic, Gone
    <3>2. loading # NoLoad
      BY <3>1 DEF Truncated, Reads, NoLoad, Idle
    <3> QED
      BY <2>1, <3>1, <3>2, WholeIsFound
  <2>9. CASE Crash \/ Restart \/ UNCHANGED vars
    BY <2>9 DEF Crash, Gone, Restart, vars, SavedIsSound
  <2> QED
    BY <2>4, <2>5, <2>6, <2>7, <2>8, <2>9, Steps DEF Checkpoint
<1> QED
  BY <1>1, <1>2, RestoreInvariant, PTL DEF Spec

-----------------------------------------------------------------------------
(* What the abstract specification sees of the connections.                 *)

\* The view of a connection from m neurons to n.
SynOf(c, m, n) ==
  CASE c.kind = "dense" -> (0 .. m - 1) \X (0 .. n - 1)
    [] c.kind = "one2one" -> {<<i, i>> : i \in 0 .. m - 1}
    [] c.kind = "sparse" -> UNION {{<<c.cols[k], j>> : k \in RowOf(c, j)} : j \in 0 .. n - 1}
PlaceOf(c, m, s) ==
  CASE c.kind = "dense" -> s[2] * m + s[1] + 1
    [] c.kind = "one2one" -> s[1] + 1
    [] c.kind = "sparse" -> CHOOSE k \in RowOf(c, s[2]) :
                              c.cols[k] = s[1] /\ \A q \in RowOf(c, s[2]) : c.cols[q] = s[1] => k <= q
WeightOf(c, m, n) == [s \in SynOf(c, m, n) |-> c.vals[PlaceOf(c, m, s)]]
ViewOf(c, gs) == [kind |-> c.kind, plastic |-> c.plastic, w |-> WeightOf(c, gs[c.src].size, gs[c.dst].size)]

LEMMA ViewIs == ASSUME NEW c PROVE View(c) = ViewOf(c, groups)
  BY DEF View, SynapsesOf, GetWeight, Position, Neuron, SizeOf, ViewOf, WeightOf, SynOf, PlaceOf

\* Where the connection of a pair is, and what the pairs look like.
IndexOf(cs, p) == LET I == {i \in 1 .. Len(cs) : cs[i].src = p[1] /\ cs[i].dst = p[2]} IN IF I # {} THEN Min(I) ELSE 0
PairsOf(cs) == {<<c.src, c.dst>> : c \in Range(cs)}
WiredOf(cs, gs) == [p \in PairsOf(cs) |-> ViewOf(cs[IndexOf(cs, p)], gs)]

LEMMA WiredIs ==
  /\ Wired = WiredOf(conns, groups)
  /\ Wired' = WiredOf(conns', groups')
  BY DEF Wired, Pairs, PairsOf, WiredOf, ConnOf, FindConn, SelectInSeq, IndexOf,
         View, SynapsesOf, GetWeight, Position, Neuron, SizeOf, ViewOf, WeightOf, SynOf, PlaceOf

\* Each connection has a pair, whose view is the connection's.
LEMMA WiredPairs ==
  ASSUME NEW cs, Listed(cs), Distinct(cs), NEW gs
  PROVE  /\ DOMAIN WiredOf(cs, gs) = PairsOf(cs) /\ WiredOf(cs, gs) = [p \in PairsOf(cs) |-> WiredOf(cs, gs)[p]]
         /\ \A i \in DOMAIN cs : /\ <<cs[i].src, cs[i].dst>> \in PairsOf(cs)
                                 /\ WiredOf(cs, gs)[<<cs[i].src, cs[i].dst>>] = ViewOf(cs[i], gs)
         /\ \A p \in PairsOf(cs) : \E i \in DOMAIN cs : p = <<cs[i].src, cs[i].dst>>
<1>1. Len(cs) \in Nat /\ DOMAIN cs = 1 .. Len(cs)
  BY ListedLen
<1>2. \A p \in PairsOf(cs) : \E i \in DOMAIN cs : p = <<cs[i].src, cs[i].dst>>
  BY DEF PairsOf, Range
<1>3. ASSUME NEW i \in DOMAIN cs
      PROVE  /\ <<cs[i].src, cs[i].dst>> \in PairsOf(cs)
             /\ WiredOf(cs, gs)[<<cs[i].src, cs[i].dst>>] = ViewOf(cs[i], gs)
  <2> DEFINE p == <<cs[i].src, cs[i].dst>>
             I == {k \in 1 .. Len(cs) : cs[k].src = p[1] /\ cs[k].dst = p[2]}
  <2>1. p \in PairsOf(cs)
    BY DEF PairsOf, Range
  <2>2. I = {i}
    BY <1>1 DEF Distinct
  <2>3. Min({i}) = i
    <3>1. {i} \in SUBSET Nat
      BY <1>1
    <3> QED
      BY <3>1, LeastNumber
  <2>4. IndexOf(cs, p) = i
    BY <2>2, <2>3 DEF IndexOf
  <2> QED
    BY <2>1, <2>4 DEF WiredOf
<1> QED
  BY <1>2, <1>3 DEF WiredOf

\* Where the groups keep their sizes and connections stay, pairs look as before.
LEMMA WiredStays ==
  ASSUME Lists, Shapes, conns' = conns, \A g \in DOMAIN groups : groups'[g].size = groups[g].size
  PROVE  Wired' = Wired
<1>1. \A i \in DOMAIN conns : ViewOf(conns[i], groups') = ViewOf(conns[i], groups)
  BY DEF Shapes, ConnShapes, Fits, ViewOf
<1>2. ASSUME NEW p \in PairsOf(conns) PROVE WiredOf(conns, groups')[p] = WiredOf(conns, groups)[p]
  <2>1. PICK i \in DOMAIN conns : p = <<conns[i].src, conns[i].dst>>
    BY WiredPairs DEF Lists, Shapes
  <2>2. WiredOf(conns, groups')[p] = ViewOf(conns[i], groups')
    BY <2>1, WiredPairs DEF Lists, Shapes
  <2>3. WiredOf(conns, groups)[p] = ViewOf(conns[i], groups)
    BY <2>1, WiredPairs DEF Lists, Shapes
  <2> QED
    BY <1>1, <2>2, <2>3
<1>3. WiredOf(conns, groups') = WiredOf(conns, groups)
  <2>1. /\ WiredOf(conns, groups') = [p \in PairsOf(conns) |-> WiredOf(conns, groups')[p]]
        /\ WiredOf(conns, groups) = [p \in PairsOf(conns) |-> WiredOf(conns, groups)[p]]
    BY WiredPairs DEF Lists, Shapes
  <2> QED
    BY <1>2, <2>1
<1> QED
  BY <1>3, WiredIs

\* From cs and gs to ds and hs, the connection c comes to its pair.
Comes(c, cs, ds, gs, hs) ==
  /\ Listed(cs) /\ Distinct(cs) /\ Listed(ds) /\ Distinct(ds)
  /\ \A m \in DOMAIN cs : ViewOf(cs[m], hs) = ViewOf(cs[m], gs)
  /\ \E k \in DOMAIN ds : ds[k] = c
  /\ \A k \in DOMAIN ds : ds[k] = c \/ \E m \in DOMAIN cs : ds[k] = cs[m]
  /\ \A m \in DOMAIN cs : (cs[m].src = c.src /\ cs[m].dst = c.dst) \/ \E k \in DOMAIN ds : ds[k] = cs[m]

Looks(c, cs, ds, gs, hs) ==
  LET p == <<c.src, c.dst>> IN
  WiredOf(ds, hs) = [q \in DOMAIN WiredOf(cs, gs) \cup {p} |-> IF q = p THEN ViewOf(c, hs) ELSE WiredOf(cs, gs)[q]]

\* That changes what this pair looks like, and no other.
LEMMA WiredWith ==
  \A c, cs, ds, gs, hs :
    Comes(c, cs, ds, gs, hs) =>
      Looks(c, cs, ds, gs, hs)
<1> SUFFICES
      ASSUME NEW c, NEW cs, NEW ds, NEW gs, NEW hs, Comes(c, cs, ds, gs, hs)
      PROVE  Looks(c, cs, ds, gs, hs)
  OBVIOUS
<1> USE DEF Comes
<1> DEFINE p == <<c.src, c.dst>>
<1>1. /\ PairsOf(ds) = DOMAIN WiredOf(ds, hs) /\ WiredOf(ds, hs) = [q \in PairsOf(ds) |-> WiredOf(ds, hs)[q]]
      /\ \A k \in DOMAIN ds : /\ <<ds[k].src, ds[k].dst>> \in PairsOf(ds)
                              /\ WiredOf(ds, hs)[<<ds[k].src, ds[k].dst>>] = ViewOf(ds[k], hs)
      /\ \A q \in PairsOf(ds) : \E k \in DOMAIN ds : q = <<ds[k].src, ds[k].dst>>
  BY WiredPairs
<1>2. /\ PairsOf(cs) = DOMAIN WiredOf(cs, gs) /\ WiredOf(cs, gs) = [q \in PairsOf(cs) |-> WiredOf(cs, gs)[q]]
      /\ \A m \in DOMAIN cs : /\ <<cs[m].src, cs[m].dst>> \in PairsOf(cs)
                              /\ WiredOf(cs, gs)[<<cs[m].src, cs[m].dst>>] = ViewOf(cs[m], gs)
      /\ \A q \in PairsOf(cs) : \E m \in DOMAIN cs : q = <<cs[m].src, cs[m].dst>>
  BY WiredPairs
<1>3. PICK l \in DOMAIN ds : ds[l] = c
  OBVIOUS
<1>4. p \in PairsOf(ds) /\ WiredOf(ds, hs)[p] = ViewOf(c, hs)
  BY <1>1, <1>3
<1>5. ASSUME NEW q \in PairsOf(ds), q # p
      PROVE  q \in PairsOf(cs) /\ WiredOf(ds, hs)[q] = WiredOf(cs, gs)[q]
  <2>1. PICK k \in DOMAIN ds : q = <<ds[k].src, ds[k].dst>>
    BY <1>1
  <2>2. PICK m \in DOMAIN cs : ds[k] = cs[m]
    BY <1>5, <2>1
  <2>3. WiredOf(ds, hs)[q] = ViewOf(ds[k], hs)
    BY <1>1, <2>1
  <2>4. q \in PairsOf(cs) /\ WiredOf(cs, gs)[q] = ViewOf(cs[m], gs)
    BY <1>2, <2>1, <2>2
  <2> QED
    BY <2>2, <2>3, <2>4
<1>6. ASSUME NEW q \in PairsOf(cs), q # p PROVE q \in PairsOf(ds)
  <2>1. PICK m \in DOMAIN cs : q = <<cs[m].src, cs[m].dst>>
    BY <1>2
  <2>2. PICK k \in DOMAIN ds : ds[k] = cs[m]
    BY <1>6, <2>1
  <2> QED
    BY <1>1, <2>1, <2>2
<1>7. PairsOf(ds) = PairsOf(cs) \cup {p}
  BY <1>4, <1>5, <1>6
<1> HIDE DEF p
<1>8. WiredOf(ds, hs) = [q \in PairsOf(cs) \cup {p} |-> IF q = p THEN ViewOf(c, hs) ELSE WiredOf(cs, gs)[q]]
  <2>1. \A q \in PairsOf(cs) \cup {p} : WiredOf(ds, hs)[q] = IF q = p THEN ViewOf(c, hs) ELSE WiredOf(cs, gs)[q]
    BY <1>4, <1>5, <1>7
  <2>2. WiredOf(ds, hs) = [q \in PairsOf(cs) \cup {p} |-> WiredOf(ds, hs)[q]]
    BY <1>1, <1>7
  <2> QED
    BY <2>1, <2>2
<1> QED
  BY <1>2, <1>8 DEF p, Looks

\* A connection put in another's place changes what its pair looks like, and no other.
LEMMA WiredPut ==
  ASSUME Lists, Shapes, \A g \in DOMAIN groups : groups'[g].size = groups[g].size,
         NEW i \in DOMAIN conns, NEW c, c.src = conns[i].src, c.dst = conns[i].dst, conns' = [conns EXCEPT ![i] = c]
  PROVE  LET p == <<c.src, c.dst>> IN
         p \in DOMAIN Wired /\ Wired[p] = ViewOf(conns[i], groups) /\ Wired' = [Wired EXCEPT ![p] = ViewOf(c, groups)]
<1> DEFINE p == <<c.src, c.dst>>
<1>1. DOMAIN conns' = DOMAIN conns /\ \A k \in DOMAIN conns : conns'[k] = IF k = i THEN c ELSE conns[k]
  OBVIOUS
<1>2. Listed(conns) /\ Listed(conns') /\ Distinct(conns) /\ Distinct(conns')
  <2>1. Distinct(conns')
    BY <1>1 DEF Distinct, Shapes
  <2> QED
    BY <2>1, ExceptListed DEF Lists, Shapes
<1>3. \A k \in DOMAIN conns : ViewOf(conns[k], groups') = ViewOf(conns[k], groups)
  BY DEF Shapes, ConnShapes, Fits, ViewOf
<1>4. ViewOf(c, groups') = ViewOf(c, groups)
  BY DEF Shapes, ConnShapes, Fits, ViewOf
<1>5. /\ \E k \in DOMAIN conns' : conns'[k] = c
      /\ \A k \in DOMAIN conns' : conns'[k] = c \/ \E m \in DOMAIN conns : conns'[k] = conns[m]
      /\ \A m \in DOMAIN conns : (conns[m].src = c.src /\ conns[m].dst = c.dst) \/ \E k \in DOMAIN conns' : conns'[k] = conns[m]
  BY <1>1
<1>6. p \in PairsOf(conns) /\ PairsOf(conns) = DOMAIN Wired /\ Wired[p] = ViewOf(conns[i], groups)
      /\ Wired = [q \in DOMAIN Wired |-> Wired[q]]
  <2>1. p = <<conns[i].src, conns[i].dst>>
    OBVIOUS
  <2>2. Wired = WiredOf(conns, groups)
    BY WiredIs
  <2> QED
    BY <1>2, <2>1, <2>2, WiredPairs
<1>7. Wired' = [q \in DOMAIN Wired \cup {p} |-> IF q = p THEN ViewOf(c, groups) ELSE Wired[q]]
  <2>1. WiredOf(conns', groups') =
          [q \in DOMAIN WiredOf(conns, groups) \cup {p} |-> IF q = p THEN ViewOf(c, groups') ELSE WiredOf(conns, groups)[q]]
    <3>1. Comes(c, conns, conns', groups, groups')
      BY <1>2, <1>3, <1>5 DEF Comes
    <3>2. Looks(c, conns, conns', groups, groups')
      BY <3>1, WiredWith
    <3> QED
      BY <3>2 DEF Looks
  <2> QED
    BY <1>4, <2>1, WiredIs
<1> HIDE DEF p
<1>8. DOMAIN Wired \cup {p} = DOMAIN Wired
  BY <1>6
<1>9. Wired' = [Wired EXCEPT ![p] = ViewOf(c, groups)]
  BY <1>6, <1>7, <1>8
<1> QED
  BY <1>6, <1>9 DEF p

\* A connection that is linked in is what its pair looks like.
LEMMA WiredLinked ==
  ASSUME Lists, Shapes, groups' = groups, NEW c, ConnShape(c), Fits(c, groups),
         conns' = Append(DropConns(c.src, c.dst), c)
  PROVE  LET p == <<c.src, c.dst>> IN
         Wired' = [q \in DOMAIN Wired \cup {p} |-> IF q = p THEN View(c) ELSE Wired[q]]
<1> DEFINE p == <<c.src, c.dst>>
<1> DEFINE d == DropConns(c.src, c.dst)
<1>1. Listed(d) /\ \A k \in DOMAIN d : \E m \in DOMAIN conns : d[k] = conns[m]
  BY Dropped DEF Lists, Shapes
<1>2. /\ \E k \in DOMAIN conns' : conns'[k] = c
      /\ \A m \in DOMAIN conns : (conns[m].src = c.src /\ conns[m].dst = c.dst) \/ \E k \in DOMAIN conns' : conns'[k] = conns[m]
      /\ Shapes'
  BY Linked
<1>3. Listed(conns') /\ DOMAIN conns' = 1 .. Len(d) + 1 /\ Len(d) \in Nat /\ DOMAIN d = 1 .. Len(d)
      /\ \A k \in 1 .. Len(d) + 1 : conns'[k] = IF k = Len(d) + 1 THEN c ELSE d[k]
  BY <1>1, AppendListed, ListedLen
<1> HIDE DEF d
<1>4. \A k \in DOMAIN conns' : conns'[k] = c \/ \E m \in DOMAIN conns : conns'[k] = conns[m]
  <2> SUFFICES ASSUME NEW k \in 1 .. Len(d) + 1, k # Len(d) + 1 PROVE \E m \in DOMAIN conns : conns'[k] = conns[m]
    BY <1>3
  <2>1. k \in DOMAIN d /\ conns'[k] = d[k]
    BY <1>3
  <2> QED
    BY <1>1, <2>1
<1>5. Listed(conns) /\ Distinct(conns) /\ Distinct(conns') /\ \A m \in DOMAIN conns : ViewOf(conns[m], groups') = ViewOf(conns[m], groups)
  BY <1>2 DEF Lists, Shapes
<1>6. WiredOf(conns', groups') =
          [q \in DOMAIN WiredOf(conns, groups) \cup {p} |-> IF q = p THEN ViewOf(c, groups') ELSE WiredOf(conns, groups)[q]]
  <2>1. Comes(c, conns, conns', groups, groups')
    BY <1>2, <1>3, <1>4, <1>5 DEF Comes
  <2>2. Looks(c, conns, conns', groups, groups')
    BY <2>1, WiredWith
  <2> QED
    BY <2>2 DEF Looks
<1> QED
  BY <1>6, WiredIs, ViewIs

-----------------------------------------------------------------------------
(* Where the weights of a connection are, in every layout: those of a neuron *)
(* are in its row, and the rows follow one another.                         *)

Rows(c, n) ==
  /\ Begin(c, 0) = 0 /\ Begin(c, n) = Len(c.vals) /\ Len(c.vals) \in Nat
  /\ \A j \in 0 .. n : Begin(c, j) \in Nat
  /\ \A j \in 0 .. n - 1 : End(c, j) = Begin(c, j + 1) /\ Begin(c, j) <= Begin(c, j + 1)

LEMMA RowsFollow ==
  ASSUME NEW m \in Nat, NEW n \in Nat, NEW c, SizeOf(c.src) = m, ConnSound(c, m, n)
  PROVE  Rows(c, n)
<1>1. \A j \in 0 .. n - 1 : Begin(c, j) \in Nat /\ End(c, j) \in Nat /\ Begin(c, j) <= End(c, j)
  BY RowBounds
<1>2. \A j : End(c, j) = Begin(c, j + 1)
  BY DEF End
<1>3. c.vals \in Seq(Int) /\ Len(c.vals) \in Nat
  BY LenProperties DEF ConnSound
<1>4. Begin(c, 0) = 0 /\ Begin(c, n) = Len(c.vals)
  <2>1. CASE c.kind = "dense"
    <3>1. Begin(c, 0) = 0 * m /\ Begin(c, n) = n * m /\ Len(c.vals) = m * n
      BY <2>1 DEF Begin, ConnSound
    <3>2. 0 * m = 0 /\ n * m = m * n
      OBVIOUS
    <3> QED
      BY <3>1, <3>2
  <2>2. CASE c.kind = "one2one"
    BY <2>2 DEF Begin, ConnSound
  <2>3. CASE c.kind = "sparse"
    BY <2>3 DEF Begin, ConnSound, RowsSound
  <2> QED
    BY <2>1, <2>2, <2>3 DEF ConnSound
<1>5. ASSUME NEW j \in 0 .. n PROVE Begin(c, j) \in Nat
  <2>1. j \in 0 .. n - 1 \/ j = n
    OBVIOUS
  <2> QED
    BY <1>1, <1>3, <1>4, <2>1
<1> QED
  BY <1>1, <1>2, <1>3, <1>4, <1>5 DEF Rows

\* Every position is in one row.
LEMMA RowsCover ==
  ASSUME NEW n \in Nat, NEW c, Rows(c, n)
  PROVE  /\ \A k \in 1 .. Len(c.vals) : \E j \in 0 .. n - 1 : k \in Begin(c, j) + 1 .. End(c, j)
         /\ \A i, j \in 0 .. n - 1 : \A k : k \in Begin(c, i) + 1 .. End(c, i) /\ k \in Begin(c, j) + 1 .. End(c, j) => i = j
         /\ \A j \in 0 .. n - 1 : \A k \in Begin(c, j) + 1 .. End(c, j) : k \in 1 .. Len(c.vals)
<1> DEFINE ptr == [i \in 1 .. n + 1 |-> Begin(c, i - 1)]
<1>1. \A i \in 1 .. n + 1 : ptr[i] \in Nat
  BY DEF Rows
<1>2. \A i \in 1 .. n : ptr[i] <= ptr[i + 1]
  <2> SUFFICES ASSUME NEW i \in 1 .. n PROVE ptr[i] <= ptr[i + 1]
    OBVIOUS
  <2>1. i \in 1 .. n + 1 /\ i + 1 \in 1 .. n + 1 /\ (i + 1) - 1 = (i - 1) + 1 /\ i - 1 \in 0 .. n - 1
    OBVIOUS
  <2>2. ptr[i] = Begin(c, i - 1) /\ ptr[i + 1] = Begin(c, (i - 1) + 1)
    BY <2>1
  <2> QED
    BY <2>1, <2>2 DEF Rows
<1>3. \A j \in 0 .. n : j + 1 \in 1 .. n + 1 /\ ptr[j + 1] = Begin(c, j)
  OBVIOUS
<1> HIDE DEF ptr
<1>4. ASSUME NEW i \in 0 .. n, NEW j \in 0 .. n, i <= j PROVE Begin(c, i) <= Begin(c, j)
  <2>1. i + 1 \in 1 .. n + 1 /\ j + 1 \in 1 .. n + 1 /\ i + 1 <= j + 1
    BY <1>4
  <2>2. ptr[i + 1] <= ptr[j + 1]
    BY <1>1, <1>2, <2>1, StartsAscend
  <2> QED
    BY <1>3, <2>2
<1>5. ASSUME NEW i \in 0 .. n - 1, NEW j \in 0 .. n - 1, NEW k, i < j, k \in Begin(c, i) + 1 .. End(c, i),
             k \in Begin(c, j) + 1 .. End(c, j)
      PROVE  FALSE
  <2>1. i + 1 \in 0 .. n /\ j \in 0 .. n /\ i \in 0 .. n /\ i + 1 <= j
    BY <1>5
  <2>2. Begin(c, i + 1) <= Begin(c, j) /\ End(c, i) = Begin(c, i + 1)
    BY <1>4, <2>1 DEF Rows
  <2>3. Begin(c, i + 1) \in Nat /\ Begin(c, j) \in Nat /\ Begin(c, i) \in Nat
    BY <2>1 DEF Rows
  <2> QED
    BY <1>5, <2>2, <2>3
<1>6. ASSUME NEW i \in 0 .. n - 1, NEW j \in 0 .. n - 1, NEW k, k \in Begin(c, i) + 1 .. End(c, i),
             k \in Begin(c, j) + 1 .. End(c, j)
      PROVE  i = j
  <2>1. ~(i < j) /\ ~(j < i)
    BY <1>5, <1>6
  <2> QED
    BY <2>1
<1>7. ASSUME NEW j \in 0 .. n - 1, NEW k \in Begin(c, j) + 1 .. End(c, j) PROVE k \in 1 .. Len(c.vals)
  <2>1. j + 1 \in 0 .. n /\ n \in 0 .. n /\ j \in 0 .. n /\ j + 1 <= n
    OBVIOUS
  <2>2. Begin(c, j + 1) <= Begin(c, n)
    BY <1>4, <2>1
  <2>3. Begin(c, j + 1) \in Nat /\ Begin(c, n) = Len(c.vals) /\ Begin(c, j) \in Nat /\ Len(c.vals) \in Nat /\ End(c, j) = Begin(c, j + 1)
    BY <2>1 DEF Rows
  <2> QED
    BY <2>2, <2>3
<1>8. ASSUME NEW k \in 1 .. Len(c.vals) PROVE \E j \in 0 .. n - 1 : k \in Begin(c, j) + 1 .. End(c, j)
  <2> DEFINE I == {i \in 0 .. n : k <= Begin(c, i) => \E j \in 0 .. n - 1 : k \in Begin(c, j) + 1 .. End(c, j)}
  <2>1. 0 \in I
    BY DEF Rows
  <2>2. ASSUME NEW i \in 1 .. n, i - 1 \in I PROVE i \in I
    <3>1. CASE k <= Begin(c, i - 1)
      BY <2>2, <3>1
    <3>2. CASE ~(k <= Begin(c, i - 1))
      <4>1. i - 1 \in 0 .. n - 1 /\ i - 1 + 1 = i /\ i - 1 \in 0 .. n /\ i \in 0 .. n
        OBVIOUS
      <4>2. End(c, i - 1) = Begin(c, i) /\ Begin(c, i - 1) \in Nat /\ Begin(c, i) \in Nat
        BY <4>1 DEF Rows
      <4>3. k <= Begin(c, i) => k \in Begin(c, i - 1) + 1 .. End(c, i - 1)
        BY <3>2, <4>2
      <4> QED
        BY <4>1, <4>3
    <3> QED
      BY <3>1, <3>2
  <2> HIDE DEF I
  <2>3. \A i \in 0 .. n : i \in I
    BY <2>1, <2>2, Induction
  <2>4. n \in I
    BY <2>3
  <2> QED
    BY <2>4 DEF I, Rows
<1> QED
  BY <1>6, <1>7, <1>8

\* Each synapse has a position in the row of its neuron, and each position a synapse.
Places(c, m, n) ==
  /\ \A s \in SynOf(c, m, n) : /\ s = <<s[1], s[2]>> /\ s[1] \in 0 .. m - 1 /\ s[2] \in 0 .. n - 1
                               /\ PlaceOf(c, m, s) \in Begin(c, s[2]) + 1 .. End(c, s[2])
                               /\ PlaceOf(c, m, s) \in 1 .. Len(c.vals)
  /\ \A j \in 0 .. n - 1 : \A k \in Begin(c, j) + 1 .. End(c, j) :
       \E s \in SynOf(c, m, n) : s[2] = j /\ PlaceOf(c, m, s) = k
  /\ \A s, u \in SynOf(c, m, n) : PlaceOf(c, m, s) = PlaceOf(c, m, u) => s = u
  /\ \A k \in 1 .. Len(c.vals) : \E s \in SynOf(c, m, n) : PlaceOf(c, m, s) = k

\* In a sparse row, the position of the one entry with its column.
LEMMA SparsePlace ==
  ASSUME NEW m \in Nat, NEW n \in Nat, NEW c, RowsSound(c, m, n), c.kind = "sparse", NEW j \in 0 .. n - 1, NEW k \in RowOf(c, j)
  PROVE  c.cols[k] \in 0 .. m - 1 /\ <<c.cols[k], j>> \in SynOf(c, m, n) /\ PlaceOf(c, m, <<c.cols[k], j>>) = k
<1>1. PICK b, e : b = c.rowptr[j + 1] /\ e = c.rowptr[j + 2]
  OBVIOUS
<1>2. RowGood(c, b, e, 0 .. m - 1)
  BY <1>1, SoundRow
<1>3. RowOf(c, j) = b + 1 .. e
  BY <1>1 DEF RowOf
<1>4. \A q \in RowOf(c, j) : c.cols[q] = c.cols[k] => q = k
  <2> SUFFICES ASSUME NEW q \in b + 1 .. e, c.cols[q] = c.cols[k] PROVE q = k
    BY <1>3
  <2>1. b \in Nat /\ e \in Nat /\ k \in b + 1 .. e /\ c.cols[q] \in 0 .. m - 1 /\ c.cols[k] \in 0 .. m - 1
    BY <1>2, <1>3 DEF RowGood
  <2>2. ~(q < k) /\ ~(k < q)
    BY <1>2, <2>1 DEF RowGood
  <2> QED
    BY <2>1, <2>2
<1>5. k \in Nat /\ c.cols[k] \in 0 .. m - 1
  BY <1>2, <1>3 DEF RowGood
<1>6. PlaceOf(c, m, <<c.cols[k], j>>) =
        CHOOSE l \in RowOf(c, j) : c.cols[l] = c.cols[k] /\ \A q \in RowOf(c, j) : c.cols[q] = c.cols[k] => l <= q
  BY DEF PlaceOf
<1>7. PlaceOf(c, m, <<c.cols[k], j>>) = k
  <2> DEFINE p == PlaceOf(c, m, <<c.cols[k], j>>)
             R == RowOf(c, j)
             G(l) == c.cols[l] = c.cols[k] /\ \A q \in R : c.cols[q] = c.cols[k] => l <= q
  <2>1. k \in R /\ G(k)
    <3>1. k <= k
      BY <1>5
    <3>2. \A q \in R : c.cols[q] = c.cols[k] => k <= q
      BY <1>4, <3>1, Zenon
    <3> QED
      BY <3>2
  <2>2. p = CHOOSE l \in R : G(l)
    BY <1>6
  <2> HIDE DEF p
  <2>3. p \in R /\ G(p)
    BY <2>1, <2>2, Zenon
  <2>4. p = k
    BY <1>4, <2>3
  <2> QED
    BY <2>4 DEF p
<1>8. <<c.cols[k], j>> \in SynOf(c, m, n)
  BY DEF SynOf
<1> QED
  BY <1>5, <1>7, <1>8

LEMMA PlacesAre ==
  ASSUME NEW m \in Nat, NEW n \in Nat, NEW c, SizeOf(c.src) = m, ConnSound(c, m, n)
  PROVE  Places(c, m, n)
<1>1. Rows(c, n)
  BY RowsFollow
<1>2. /\ \A k \in 1 .. Len(c.vals) : \E j \in 0 .. n - 1 : k \in Begin(c, j) + 1 .. End(c, j)
      /\ \A i, j \in 0 .. n - 1 : \A k : k \in Begin(c, i) + 1 .. End(c, i) /\ k \in Begin(c, j) + 1 .. End(c, j) => i = j
      /\ \A j \in 0 .. n - 1 : \A k \in Begin(c, j) + 1 .. End(c, j) : k \in 1 .. Len(c.vals)
  BY <1>1, RowsCover
<1> DEFINE One(s) == /\ s = <<s[1], s[2]>> /\ s[1] \in 0 .. m - 1 /\ s[2] \in 0 .. n - 1
                     /\ PlaceOf(c, m, s) \in Begin(c, s[2]) + 1 .. End(c, s[2])
           At(s, j, k) == s \in SynOf(c, m, n) /\ s[2] = j /\ PlaceOf(c, m, s) = k
           Same(s, u) == PlaceOf(c, m, s) = PlaceOf(c, m, u) /\ s[2] = u[2] => s[1] = u[1]
<1>3. /\ \A s \in SynOf(c, m, n) : One(s)
      /\ \A j \in 0 .. n - 1 : \A k \in Begin(c, j) + 1 .. End(c, j) : \E s : At(s, j, k)
      /\ \A s, u \in SynOf(c, m, n) : Same(s, u)
  <2>1. CASE c.kind = "dense"
    <3>1. /\ \A j : Begin(c, j) = j * m /\ End(c, j) = (j + 1) * m
          /\ \A s : PlaceOf(c, m, s) = s[2] * m + s[1] + 1
          /\ SynOf(c, m, n) = (0 .. m - 1) \X (0 .. n - 1)
      BY <2>1 DEF Begin, End, PlaceOf, SynOf
    <3>2. ASSUME NEW j \in 0 .. n - 1 PROVE j * m \in Nat /\ (j + 1) * m = j * m + m
      OBVIOUS
    <3>3. ASSUME NEW s \in SynOf(c, m, n) PROVE One(s)
      <4>1. s = <<s[1], s[2]>> /\ s[1] \in 0 .. m - 1 /\ s[2] \in 0 .. n - 1
        BY <3>1
      <4>2. PICK x \in Nat : x = s[2] * m /\ (s[2] + 1) * m = x + m
        BY <3>2, <4>1
      <4>3. x + s[1] + 1 \in x + 1 .. x + m
        BY <4>1, <4>2
      <4> QED
        BY <3>1, <4>1, <4>2, <4>3
    <3>4. ASSUME NEW j \in 0 .. n - 1, NEW k \in Begin(c, j) + 1 .. End(c, j) PROVE \E s : At(s, j, k)
      <4>1. PICK x \in Nat : x = j * m /\ (j + 1) * m = x + m
        BY <3>2
      <4>2. k \in x + 1 .. x + m
        BY <3>1, <4>1
      <4>3. PICK i \in 0 .. m - 1 : k = x + i + 1
        <5>1. k - x - 1 \in 0 .. m - 1 /\ k = x + (k - x - 1) + 1
          BY <4>2
        <5> QED
          BY <5>1
      <4>4. At(<<i, j>>, j, k)
        BY <3>1, <4>1, <4>3
      <4> QED
        BY <4>4
    <3>5. ASSUME NEW s \in SynOf(c, m, n), NEW u \in SynOf(c, m, n) PROVE Same(s, u)
      <4>1. s[1] \in 0 .. m - 1 /\ s[2] \in 0 .. n - 1 /\ u[1] \in 0 .. m - 1
        BY <3>3
      <4>2. s[2] * m \in Nat
        BY <3>2, <4>1
      <4> QED
        BY <3>1, <4>1, <4>2
    <3> QED
      BY <3>3, <3>4, <3>5
  <2>2. CASE c.kind = "one2one"
    <3>1. /\ \A j : Begin(c, j) = j /\ End(c, j) = j + 1
          /\ \A s : PlaceOf(c, m, s) = s[1] + 1
          /\ SynOf(c, m, n) = {<<i, i>> : i \in 0 .. m - 1} /\ m = n
      BY <2>2 DEF Begin, End, PlaceOf, SynOf, ConnSound
    <3>2. \A s \in SynOf(c, m, n) : \E i \in 0 .. m - 1 : s = <<i, i>>
      BY <3>1
    <3>3. ASSUME NEW s \in SynOf(c, m, n) PROVE One(s)
      <4>1. PICK i \in 0 .. m - 1 : s = <<i, i>>
        BY <3>2
      <4>2. i + 1 \in i + 1 .. i + 1
        OBVIOUS
      <4> QED
        BY <3>1, <4>1, <4>2
    <3>4. ASSUME NEW j \in 0 .. n - 1, NEW k \in Begin(c, j) + 1 .. End(c, j) PROVE \E s : At(s, j, k)
      <4>1. k = j + 1 /\ <<j, j>> \in SynOf(c, m, n)
        BY <3>1
      <4>2. At(<<j, j>>, j, k)
        BY <3>1, <4>1
      <4> QED
        BY <4>2
    <3>5. ASSUME NEW s \in SynOf(c, m, n), NEW u \in SynOf(c, m, n) PROVE Same(s, u)
      BY <3>2
    <3> QED
      BY <3>3, <3>4, <3>5
  <2>3. CASE c.kind = "sparse"
    <3>1. RowsSound(c, m, n)
      BY <2>3 DEF ConnSound
    <3>2. \A s \in SynOf(c, m, n) : \E j \in 0 .. n - 1 : \E k \in RowOf(c, j) : s = <<c.cols[k], j>>
      BY <2>3 DEF SynOf
    <3>3. \A j \in 0 .. n - 1 : RowOf(c, j) = Begin(c, j) + 1 .. End(c, j)
      <4> SUFFICES ASSUME NEW j \in 0 .. n - 1 PROVE RowOf(c, j) = Begin(c, j) + 1 .. End(c, j)
        OBVIOUS
      <4>1. j + 1 + 1 = j + 2
        OBVIOUS
      <4> QED
        BY <2>3, <4>1 DEF RowOf, Begin, End
    <3>4. ASSUME NEW j \in 0 .. n - 1, NEW k \in RowOf(c, j)
          PROVE  c.cols[k] \in 0 .. m - 1 /\ <<c.cols[k], j>> \in SynOf(c, m, n) /\ PlaceOf(c, m, <<c.cols[k], j>>) = k
      BY <2>3, <3>1, SparsePlace
    <3>5. ASSUME NEW s \in SynOf(c, m, n)
          PROVE  One(s) /\ c.cols[PlaceOf(c, m, s)] = s[1]
      <4>1. PICK j \in 0 .. n - 1 : \E k \in RowOf(c, j) : s = <<c.cols[k], j>>
        BY <3>2
      <4>2. PICK k \in RowOf(c, j) : s = <<c.cols[k], j>>
        BY <4>1
      <4>3. c.cols[k] \in 0 .. m - 1 /\ PlaceOf(c, m, s) = k
        BY <3>4, <4>2
      <4> QED
        BY <3>3, <4>2, <4>3
    <3>6. ASSUME NEW j \in 0 .. n - 1, NEW k \in Begin(c, j) + 1 .. End(c, j) PROVE \E s : At(s, j, k)
      <4>1. At(<<c.cols[k], j>>, j, k)
        BY <3>3, <3>4
      <4> QED
        BY <4>1
    <3>7. \A s, u \in SynOf(c, m, n) : Same(s, u)
      BY <3>5
    <3> QED
      BY <3>5, <3>6, <3>7
  <2> QED
    BY <2>1, <2>2, <2>3 DEF ConnSound
<1>4. ASSUME NEW s \in SynOf(c, m, n), NEW u \in SynOf(c, m, n), PlaceOf(c, m, s) = PlaceOf(c, m, u) PROVE s = u
  <2>1. One(s) /\ One(u) /\ Same(s, u)
    BY <1>3
  <2>2. s[2] = u[2]
    BY <1>2, <1>4, <2>1
  <2> QED
    BY <1>4, <2>1, <2>2
<1>5. ASSUME NEW k \in 1 .. Len(c.vals) PROVE \E s \in SynOf(c, m, n) : PlaceOf(c, m, s) = k
  BY <1>2, <1>3
<1>6. \A s \in SynOf(c, m, n) : PlaceOf(c, m, s) \in 1 .. Len(c.vals)
  BY <1>2, <1>3
<1> QED
  BY <1>3, <1>4, <1>5, <1>6 DEF Places

-----------------------------------------------------------------------------
(* One connection changes its weights.                                      *)

\* The same storage, but for the weights.
SameRows(c, d) == d.kind = c.kind /\ d.rowptr = c.rowptr /\ d.cols = c.cols

LEMMA SameRowsView ==
  ASSUME NEW c, NEW d, SameRows(c, d), NEW m, NEW n
  PROVE  /\ SynOf(d, m, n) = SynOf(c, m, n) /\ \A s : PlaceOf(d, m, s) = PlaceOf(c, m, s)
         /\ WeightOf(d, m, n) = [s \in SynOf(c, m, n) |-> d.vals[PlaceOf(c, m, s)]]
<1>1. SynOf(d, m, n) = SynOf(c, m, n) /\ \A s : PlaceOf(d, m, s) = PlaceOf(c, m, s)
  BY DEF SameRows, SynOf, PlaceOf, RowOf
<1> QED
  BY <1>1 DEF WeightOf

\* Connection i of the pair p, from m neurons to n, is replaced by c, of the same layout.
Puts(i, c, p, m, n) ==
  /\ i \in DOMAIN conns /\ conns' = [conns EXCEPT ![i] = c]
  /\ \A g \in DOMAIN groups : groups'[g].size = groups[g].size
  /\ c.src = conns[i].src /\ c.dst = conns[i].dst /\ c.kind = conns[i].kind /\ c.plastic = conns[i].plastic
  /\ m = SizeOf(c.src) /\ n = SizeOf(c.dst) /\ p = <<c.src, c.dst>>
\* Nothing changes but the synapses of the pair, from v to w.
Rewires(i, p, v, w) ==
  /\ p \in DOMAIN Wired /\ Wired[p].kind = conns[i].kind /\ Wired[p].plastic = conns[i].plastic
  /\ Wired[p].w = v /\ Wired'[p].w = w /\ Synapses!Updated(p, w)

LEMMA Rewired ==
  ASSUME Lists, Shapes, NEW i, NEW c, NEW p, NEW m, NEW n, Puts(i, c, p, m, n)
  PROVE  Rewires(i, p, WeightOf(conns[i], m, n), WeightOf(c, m, n))
<1> USE DEF Puts
<1>1. p \in DOMAIN Wired /\ Wired[p] = ViewOf(conns[i], groups) /\ Wired' = [Wired EXCEPT ![p] = ViewOf(c, groups)]
  BY WiredPut
<1>2. /\ ViewOf(conns[i], groups) = [kind |-> conns[i].kind, plastic |-> conns[i].plastic, w |-> WeightOf(conns[i], m, n)]
      /\ ViewOf(c, groups) = [kind |-> conns[i].kind, plastic |-> conns[i].plastic, w |-> WeightOf(c, m, n)]
  BY DEF ViewOf, SizeOf
<1>3. PICK v, w, x, k, f : v = WeightOf(conns[i], m, n) /\ w = WeightOf(c, m, n) /\ x = Wired /\ k = conns[i].kind /\ f = conns[i].plastic
  OBVIOUS
<1>4. x[p] = [kind |-> k, plastic |-> f, w |-> v] /\ p \in DOMAIN x
  BY <1>1, <1>2, <1>3
<1>5. [kind |-> k, plastic |-> f, w |-> w] = [x[p] EXCEPT !.w = w]
  BY <1>4
<1>6. Wired' = [x EXCEPT ![p] = [kind |-> k, plastic |-> f, w |-> w]]
  BY <1>1, <1>2, <1>3
<1>7. Wired' = [x EXCEPT ![p].w = w]
  BY <1>5, <1>6
<1>8. Synapses!Updated(p, w)
  BY <1>3, <1>7 DEF Synapses!Updated
<1>9. Wired'[p].w = w
  BY <1>4, <1>6
<1> QED
  BY <1>3, <1>4, <1>8, <1>9 DEF Rewires

\* Where the connection of a pair is.
LEMMA PairAt ==
  ASSUME Lists, Shapes, NEW p \in Pairs, NEW i, i = FindConn(p[1], p[2])
  PROVE  /\ i \in DOMAIN conns /\ ConnOf(p) = conns[i] /\ p = <<conns[i].src, conns[i].dst>>
         /\ SizeOf(conns[i].src) \in Nat /\ SizeOf(conns[i].dst) \in Nat
         /\ ConnSound(conns[i], SizeOf(conns[i].src), SizeOf(conns[i].dst))
<1>1. i \in DOMAIN conns
  BY PairFound
<1>2. i # 0
  BY <1>1, ListedLen DEF Lists
<1>3. conns[i].src = p[1] /\ conns[i].dst = p[2]
  BY <1>2, Finds DEF Lists
<1>4. p = <<p[1], p[2]>>
  BY DEF Pairs
<1>5. Fits(conns[i], groups) /\ GroupShapes(groups)
  BY <1>1 DEF Shapes, ConnShapes
<1> QED
  BY <1>1, <1>3, <1>4, <1>5, FitsSizes DEF ConnOf

\* One weight put is that of one synapse.
LEMMA LearnedView ==
  ASSUME NEW m \in Nat, NEW n \in Nat, NEW c, SizeOf(c.src) = m, ConnSound(c, m, n),
         NEW k \in DOMAIN c.vals, NEW x, NEW d, SameRows(c, d), d.vals = [c.vals EXCEPT ![k] = x]
  PROVE  \E s \in DOMAIN WeightOf(c, m, n) : WeightOf(d, m, n) = [WeightOf(c, m, n) EXCEPT ![s] = x]
<1>1. DOMAIN c.vals = 1 .. Len(c.vals)
  BY LenProperties DEF ConnSound
<1>2. Places(c, m, n)
  BY PlacesAre
<1>3. PICK s \in SynOf(c, m, n) : PlaceOf(c, m, s) = k
  BY <1>1, <1>2 DEF Places
<1>4. \A u \in SynOf(c, m, n) : /\ PlaceOf(c, m, u) \in DOMAIN c.vals
                                /\ PlaceOf(c, m, u) = k <=> u = s
  BY <1>1, <1>2, <1>3 DEF Places
<1>5. WeightOf(d, m, n) = [u \in SynOf(c, m, n) |-> IF u = s THEN x ELSE c.vals[PlaceOf(c, m, u)]]
  BY <1>4, SameRowsView
<1> QED
  BY <1>5 DEF WeightOf

\* So a tick that learns moves the weight of one synapse.
LEMMA LearnLearns ==
  ASSUME Lists, Shapes, NEW p, NEW k, NEW x, NEW v, Learn(p, k, x, v)
  PROVE  Synapses!Next
<1> DEFINE i == FindConn(p[1], p[2])
           c == conns[i]
           d == [c EXCEPT !.vals[k] = x]
           m == SizeOf(c.src)
           n == SizeOf(c.dst)
<1>1. /\ p \in Pairs /\ ConnOf(p).plastic /\ k \in DOMAIN ConnOf(p).vals
      /\ conns' = [conns EXCEPT ![i].vals[k] = x]
      /\ groups' = [groups EXCEPT ![p[2]].v = v]
      /\ last' = [op |-> "learn", pair |-> p, weight |-> x]
  BY DEF Learn
<1>2. /\ i \in DOMAIN conns /\ ConnOf(p) = c /\ p = <<c.src, c.dst>>
      /\ m \in Nat /\ n \in Nat /\ ConnSound(c, m, n) /\ ConnShape(c)
  BY <1>1, PairAt DEF Shapes, ConnShapes
<1>3. conns' = [conns EXCEPT ![i] = d]
  BY <1>1
<1> HIDE DEF i
<1>4. /\ d.kind = c.kind /\ d.rowptr = c.rowptr /\ d.cols = c.cols /\ d.src = c.src /\ d.dst = c.dst
      /\ d.plastic = c.plastic /\ d.vals = [c.vals EXCEPT ![k] = x]
  <2>1. PICK w : w = [c.vals EXCEPT ![k] = x]
    OBVIOUS
  <2>2. WithValues(d, c, w)
    BY <2>1 DEF WithValues
  <2> HIDE DEF d, c
  <2> QED
    BY <1>2, <2>1, <2>2, ValuesPut
<1>5. \A g \in DOMAIN groups : groups'[g].size = groups[g].size
  <2>1. \A g \in DOMAIN groups : GroupShape(groups[g])
    BY DEF Shapes, GroupShapes
  <2> QED
    BY <1>1, <2>1 DEF GroupShape
<1> HIDE DEF d, m, n
<1>6. /\ p \in DOMAIN Wired /\ Wired[p].plastic = c.plastic
      /\ Wired[p].w = WeightOf(c, m, n) /\ Synapses!Updated(p, WeightOf(d, m, n))
  <2>1. m = SizeOf(d.src) /\ n = SizeOf(d.dst) /\ p = <<d.src, d.dst>>
    BY <1>2, <1>4 DEF m, n
  <2>2. /\ d.src = conns[i].src /\ d.dst = conns[i].dst /\ d.kind = conns[i].kind /\ d.plastic = conns[i].plastic
        /\ i \in DOMAIN conns /\ conns' = [conns EXCEPT ![i] = d]
    BY <1>2, <1>3, <1>4
  <2>3. Puts(i, d, p, m, n)
    BY <1>5, <2>1, <2>2 DEF Puts
  <2> QED
    BY <2>3, Rewired DEF Rewires
<1>7. PICK s \in DOMAIN WeightOf(c, m, n) : WeightOf(d, m, n) = [WeightOf(c, m, n) EXCEPT ![s] = x]
  <2>1. SameRows(c, d) /\ SizeOf(c.src) = m /\ k \in DOMAIN c.vals
    BY <1>1, <1>2, <1>4 DEF SameRows, m
  <2> QED
    BY <1>2, <1>4, <2>1, LearnedView
<1>8. last'.op = "learn" /\ last'.pair = p /\ last'.weight = x
  BY <1>1
<1>9. s \in DOMAIN Wired[p].w /\ Synapses!Updated(p, [Wired[p].w EXCEPT ![s] = x])
  BY <1>6, <1>7
<1>10. Synapses!Learn(last')
  BY <1>1, <1>2, <1>6, <1>8, <1>9 DEF Synapses!Learn
<1> QED
  BY <1>6, <1>8, <1>10 DEF Synapses!Next, Synapses!Step

-----------------------------------------------------------------------------
(* What sparse rows hold.                                                   *)

\* The rows of c hold the weights w, and nothing else.
Holds(c, w, m, n) ==
  /\ DOMAIN w \subseteq (0 .. m - 1) \X (0 .. n - 1) /\ w = [s \in DOMAIN w |-> w[s]]
  /\ \A j \in 1 .. n : \A i, v : Has(c, j, i, v) <=> <<i, j - 1>> \in DOMAIN w /\ w[<<i, j - 1>>] = v

LEMMA SparseHolds ==
  ASSUME NEW m \in Nat, NEW n \in Nat, NEW c, RowsSound(c, m, n), c.kind = "sparse"
  PROVE  Holds(c, WeightOf(c, m, n), m, n)
<1> DEFINE w == WeightOf(c, m, n)
<1>1. \A j \in 0 .. n - 1 : \A k \in RowOf(c, j) :
        c.cols[k] \in 0 .. m - 1 /\ <<c.cols[k], j>> \in SynOf(c, m, n) /\ PlaceOf(c, m, <<c.cols[k], j>>) = k
  BY SparsePlace
<1>2. DOMAIN w = SynOf(c, m, n) /\ w = [s \in DOMAIN w |-> w[s]] /\ \A s \in SynOf(c, m, n) : w[s] = c.vals[PlaceOf(c, m, s)]
  BY DEF WeightOf
<1>3. \A s \in SynOf(c, m, n) : \E j \in 0 .. n - 1 : \E k \in RowOf(c, j) : s = <<c.cols[k], j>>
  BY DEF SynOf
<1>4. DOMAIN w \subseteq (0 .. m - 1) \X (0 .. n - 1)
  BY <1>1, <1>2, <1>3
<1> HIDE DEF w
<1>5. ASSUME NEW j \in 1 .. n, NEW i, NEW v
      PROVE  Has(c, j, i, v) <=> <<i, j - 1>> \in DOMAIN w /\ w[<<i, j - 1>>] = v
  <2>1. j - 1 \in 0 .. n - 1 /\ (j - 1) + 1 = j /\ (j - 1) + 2 = j + 1
    OBVIOUS
  <2>2. RowOf(c, j - 1) = c.rowptr[j] + 1 .. c.rowptr[j + 1]
    BY <2>1 DEF RowOf
  <2>3. ASSUME NEW k \in RowOf(c, j - 1)
        PROVE  <<c.cols[k], j - 1>> \in DOMAIN w /\ w[<<c.cols[k], j - 1>>] = c.vals[k]
    BY <1>1, <1>2, <2>1
  <2>4. ASSUME Has(c, j, i, v) PROVE <<i, j - 1>> \in DOMAIN w /\ w[<<i, j - 1>>] = v
    <3>1. PICK k \in RowOf(c, j - 1) : c.cols[k] = i /\ c.vals[k] = v
      BY <2>2, <2>4 DEF Has
    <3> QED
      BY <2>3, <3>1
  <2>5. ASSUME <<i, j - 1>> \in DOMAIN w, w[<<i, j - 1>>] = v PROVE Has(c, j, i, v)
    <3>1. PICK l \in 0 .. n - 1 : \E k \in RowOf(c, l) : <<i, j - 1>> = <<c.cols[k], l>>
      BY <1>2, <1>3, <2>5
    <3>2. PICK k \in RowOf(c, l) : <<i, j - 1>> = <<c.cols[k], l>>
      BY <3>1
    <3>3. l = j - 1 /\ c.cols[k] = i
      BY <3>2
    <3>4. c.vals[k] = v
      BY <2>3, <2>5, <3>2, <3>3
    <3> QED
      BY <2>2, <3>2, <3>3, <3>4 DEF Has
  <2> QED
    BY <2>4, <2>5
<1> QED
  BY <1>2, <1>4, <1>5 DEF Holds, w

\* There is one such function.
LEMMA HoldsOne ==
  ASSUME NEW m \in Nat, NEW n \in Nat, NEW c, NEW v, Holds(c, v, m, n), NEW w, Holds(c, w, m, n)
  PROVE  v = w
<1>1. ASSUME NEW s \in DOMAIN v PROVE s \in DOMAIN w /\ w[s] = v[s]
  <2>1. PICK i, j : s = <<i, j>> /\ j \in 0 .. n - 1
    BY DEF Holds
  <2>2. j + 1 \in 1 .. n /\ (j + 1) - 1 = j
    BY <2>1
  <2>3. Has(c, j + 1, i, v[s])
    BY <2>1, <2>2 DEF Holds
  <2> QED
    BY <2>1, <2>2, <2>3 DEF Holds
<1>2. ASSUME NEW s \in DOMAIN w PROVE s \in DOMAIN v
  <2>1. PICK i, j : s = <<i, j>> /\ j \in 0 .. n - 1
    BY DEF Holds
  <2>2. j + 1 \in 1 .. n /\ (j + 1) - 1 = j
    BY <2>1
  <2>3. Has(c, j + 1, i, w[s])
    BY <2>1, <2>2 DEF Holds
  <2> QED
    BY <2>1, <2>2, <2>3 DEF Holds
<1>3. DOMAIN v = DOMAIN w
  BY <1>1, <1>2
<1>4. \A s \in DOMAIN v : w[s] = v[s]
  BY <1>1
<1>5. v = [s \in DOMAIN v |-> v[s]] /\ w = [s \in DOMAIN w |-> w[s]]
  BY DEF Holds
<1> QED
  BY <1>3, <1>4, <1>5

\* What compaction leaves.
LEMMA CopiedHolds ==
  ASSUME NEW m \in Nat, NEW n \in Nat, NEW c, NEW w, Holds(c, w, m, n), NEW t, NEW d, RowsCopied(d, c, t, n),
         NEW S, S = {s \in DOMAIN w : ~(Abs(w[s]) < t)}
  PROVE  Holds(d, [s \in S |-> w[s]], m, n)
<1> DEFINE u == [s \in S |-> w[s]]
<1>1. DOMAIN u = S /\ \A s \in S : u[s] = w[s]
  OBVIOUS
<1>2. u = [s \in DOMAIN u |-> u[s]] /\ DOMAIN u \subseteq (0 .. m - 1) \X (0 .. n - 1)
  BY DEF Holds
<1> HIDE DEF u
<1>3. ASSUME NEW j \in 1 .. n, NEW i, NEW v
      PROVE  Has(d, j, i, v) <=> <<i, j - 1>> \in DOMAIN u /\ u[<<i, j - 1>>] = v
  <2>1. Copied(d, c, t, d.rowptr[j], d.rowptr[j + 1], c.rowptr[j], c.rowptr[j + 1])
    BY DEF RowsCopied
  <2>2. Has(d, j, i, v) <=> Has(c, j, i, v) /\ ~(Abs(v) < t)
    <3>1. ASSUME Has(d, j, i, v) PROVE Has(c, j, i, v) /\ ~(Abs(v) < t)
      <4>1. PICK p \in d.rowptr[j] + 1 .. d.rowptr[j + 1] : d.cols[p] = i /\ d.vals[p] = v
        BY <3>1 DEF Has
      <4>2. PICK q \in c.rowptr[j] + 1 .. c.rowptr[j + 1] :
              d.cols[p] = c.cols[q] /\ d.vals[p] = c.vals[q] /\ ~(Abs(c.vals[q]) < t)
        BY <2>1 DEF Copied
      <4> QED
        BY <4>1, <4>2 DEF Has
    <3>2. ASSUME Has(c, j, i, v), ~(Abs(v) < t) PROVE Has(d, j, i, v)
      <4>1. PICK q \in c.rowptr[j] + 1 .. c.rowptr[j + 1] : c.cols[q] = i /\ c.vals[q] = v
        BY <3>2 DEF Has
      <4>2. PICK p \in d.rowptr[j] + 1 .. d.rowptr[j + 1] : d.cols[p] = c.cols[q] /\ d.vals[p] = c.vals[q]
        BY <2>1, <3>2, <4>1 DEF Copied
      <4> QED
        BY <4>1, <4>2 DEF Has
    <3> QED
      BY <3>1, <3>2
  <2>3. Has(c, j, i, v) <=> <<i, j - 1>> \in DOMAIN w /\ w[<<i, j - 1>>] = v
    BY DEF Holds
  <2> QED
    BY <1>1, <2>2, <2>3
<1> QED
  BY <1>2, <1>3 DEF Holds, u

-----------------------------------------------------------------------------
(* A structural operation replaces the connection of its pair.              *)

\* d is c with other weights, in its layout.
Reweighs(d, c) == d.src = c.src /\ d.dst = c.dst /\ d.kind = c.kind /\ d.plastic = c.plastic

\* It changes the synapses of that pair, and no other.
LEMMA RewriteRewires ==
  ASSUME Lists, Shapes, NEW p, NEW d, NEW request, Rewrite(p, d, request), Reweighs(d, ConnOf(p))
  PROVE  LET c == ConnOf(p)  v == WeightOf(c, SizeOf(c.src), SizeOf(c.dst))  w == WeightOf(d, SizeOf(c.src), SizeOf(c.dst)) IN
         /\ p \in DOMAIN Wired /\ Wired[p].kind = c.kind /\ Wired[p].plastic = c.plastic
         /\ Wired[p].w = v /\ Wired'[p].w = w /\ Synapses!Updated(p, w)
         /\ p = <<c.src, c.dst>> /\ last' = request
<1> DEFINE i == FindConn(p[1], p[2])
           c == conns[i]
           m == SizeOf(c.src)
           n == SizeOf(c.dst)
<1>1. p \in Pairs /\ groups' = groups /\ last' = request /\ conns' = [conns EXCEPT ![i] = d]
  BY DEF Rewrite
<1>2. i \in DOMAIN conns /\ ConnOf(p) = c /\ p = <<c.src, c.dst>>
  BY <1>1, PairAt
<1> HIDE DEF i, m, n
<1>3. /\ d.src = c.src /\ d.dst = c.dst /\ d.kind = c.kind /\ d.plastic = c.plastic
      /\ m = SizeOf(d.src) /\ n = SizeOf(d.dst) /\ p = <<d.src, d.dst>>
  BY <1>2 DEF Reweighs, m, n
<1>4. Puts(i, d, p, m, n)
  BY <1>1, <1>2, <1>3 DEF Puts
<1>5. Rewires(i, p, WeightOf(c, m, n), WeightOf(d, m, n))
  BY <1>4, Rewired
<1> QED
  BY <1>1, <1>2, <1>5 DEF Rewires, m, n

\* A sound connection, and its sizes.
LEMMA PairSound ==
  ASSUME Lists, Shapes, NEW p \in Pairs
  PROVE  LET c == ConnOf(p) IN
         /\ ConnShape(c) /\ Fits(c, groups)
         /\ SizeOf(c.src) \in Nat /\ SizeOf(c.dst) \in Nat /\ ConnSound(c, SizeOf(c.src), SizeOf(c.dst))
<1>1. ConnShape(ConnOf(p)) /\ Fits(ConnOf(p), groups) /\ GroupShapes(groups)
  BY PairFound DEF ConnOf, Shapes, ConnShapes
<1> QED
  BY <1>1, FitsSizes

\* Its weights are numbers.
LEMMA WeightNumbers ==
  ASSUME NEW m \in Nat, NEW n \in Nat, NEW c, SizeOf(c.src) = m, ConnSound(c, m, n)
  PROVE  DOMAIN WeightOf(c, m, n) = SynOf(c, m, n) /\ \A s \in SynOf(c, m, n) : WeightOf(c, m, n)[s] \in Int
<1>1. Places(c, m, n)
  BY PlacesAre
<1>2. c.vals \in Seq(Int) /\ DOMAIN c.vals = 1 .. Len(c.vals)
  BY LenProperties DEF ConnSound
<1>3. \A k \in 1 .. Len(c.vals) : c.vals[k] \in Int
  BY <1>2, Element
<1>4. \A s \in SynOf(c, m, n) : c.vals[PlaceOf(c, m, s)] \in Int
  BY <1>1, <1>3 DEF Places
<1> QED
  BY <1>4 DEF WeightOf

\* The synapses that are strong enough, and what pruning makes of the others.
Strong(w, t) == {s \in DOMAIN w : Abs(w[s]) >= t}
Weakened(w, kind, t) ==
  IF kind = "sparse" THEN [s \in Strong(w, t) |-> w[s]] ELSE [s \in DOMAIN w |-> IF s \in Strong(w, t) THEN w[s] ELSE 0]

\* What pruning leaves of the weights.
LEMMA PrunedWeights ==
  ASSUME GroupShapes(groups), NEW c, ConnShape(c), Fits(c, groups), NEW t \in Int
  PROVE  LET m == SizeOf(c.src)  n == SizeOf(c.dst)  d == Pruned(c, t) IN
         Reweighs(d, c) /\ WeightOf(d, m, n) = Weakened(WeightOf(c, m, n), c.kind, t)
<1> DEFINE m == SizeOf(c.src)
           n == SizeOf(c.dst)
           w == WeightOf(c, m, n)
<1>1. m \in Nat /\ n \in Nat /\ ConnSound(c, m, n)
  BY FitsSizes
<1>2. SizeOf(c.src) = m
  OBVIOUS
<1>3. DOMAIN w = SynOf(c, m, n) /\ \A s \in DOMAIN w : w[s] \in Int
  BY <1>1, <1>2, WeightNumbers
<1>4. w = [s \in DOMAIN w |-> w[s]]
  BY DEF WeightOf
<1>5. \A s \in DOMAIN w : s \in Strong(w, t) <=> ~(Abs(w[s]) < t)
  BY <1>3 DEF Strong, Abs
<1>6. CASE t = 0
  <2>1. Strong(w, t) = DOMAIN w
    BY <1>3, <1>6 DEF Strong, Abs
  <2>2. Pruned(c, t) = c
    BY <1>6 DEF Pruned
  <2> HIDE DEF w
  <2>3. Weakened(w, c.kind, t) = w
    BY <1>4, <2>1 DEF Weakened
  <2> QED
    BY <2>2, <2>3 DEF Reweighs, w
<1>7. CASE t # 0 /\ c.kind = "sparse"
  <2>1. RowsSound(c, m, n)
    BY <1>1, <1>7 DEF ConnSound
  <2>2. PICK a : a = CompactRows(c, t)
    OBVIOUS
  <2>3. PICK r, k, v : /\ r = [a.rowptr EXCEPT ![SizeOf(c.dst) + 1] = a.out]
                       /\ k = SubSeq(a.cols, 1, a.out) /\ v = SubSeq(a.vals, 1, a.out)
    OBVIOUS
  <2>4. PICK d : WithRows(d, c, r, k, v)
    BY DEF WithRows
  <2>5. /\ d.kind = "sparse" /\ d.src = c.src /\ d.dst = c.dst /\ d.plastic = c.plastic
        /\ d.rowptr = r /\ d.cols = k /\ d.vals = v
    BY <1>7, <2>4, RowsPut
  <2>6. LET b == CompactRows(c, t) IN
          /\ d.rowptr = [b.rowptr EXCEPT ![SizeOf(c.dst) + 1] = b.out]
          /\ d.cols = SubSeq(b.cols, 1, b.out) /\ d.vals = SubSeq(b.vals, 1, b.out)
    BY <2>2, <2>3, <2>5, Zenon
  <2>7. RowsSound(d, m, n) /\ RowsCopied(d, c, t, n)
    BY <1>1, <2>1, <2>6, CompactedSound
  <2>8. Pruned(c, t) = d
    <3>1. Compacted(c, t) = d
      BY <2>2, <2>3, <2>4, Zenon DEF Compacted, WithRows
    <3> QED
      BY <1>7, <3>1 DEF Pruned
  <2>9. Holds(c, w, m, n) /\ Holds(d, WeightOf(d, m, n), m, n)
    BY <1>1, <1>7, <2>1, <2>5, <2>7, SparseHolds
  <2> HIDE DEF w, m, n
  <2>10. Strong(w, t) = {s \in DOMAIN w : ~(Abs(w[s]) < t)}
    BY <1>5 DEF Strong
  <2>11. Holds(d, [s \in Strong(w, t) |-> w[s]], m, n)
    BY <1>1, <2>7, <2>9, <2>10, CopiedHolds
  <2>12. WeightOf(d, m, n) = [s \in Strong(w, t) |-> w[s]]
    BY <1>1, <2>9, <2>11, HoldsOne
  <2>13. WeightOf(d, m, n) = Weakened(w, c.kind, t)
    BY <1>7, <2>12 DEF Weakened
  <2>14. Reweighs(d, c)
    BY <1>7, <2>5 DEF Reweighs
  <2> QED
    BY <2>8, <2>13, <2>14 DEF w, m, n
<1>8. CASE t # 0 /\ c.kind # "sparse"
  <2>1. PICK v : v = [k \in DOMAIN c.vals |-> IF Abs(c.vals[k]) < t THEN 0 ELSE c.vals[k]]
    OBVIOUS
  <2>2. PICK d : WithValues(d, c, v)
    BY DEF WithValues
  <2>3. Pruned(c, t) = d
    BY <1>8, <2>1, <2>2 DEF Pruned, WithValues
  <2>4. /\ d.kind = c.kind /\ d.src = c.src /\ d.dst = c.dst /\ d.plastic = c.plastic
        /\ d.rowptr = c.rowptr /\ d.cols = c.cols /\ d.vals = v
    BY <2>2, ValuesPut
  <2>5. WeightOf(d, m, n) = [s \in SynOf(c, m, n) |-> v[PlaceOf(c, m, s)]]
    <3>1. SameRows(c, d)
      BY <2>4 DEF SameRows
    <3>2. WeightOf(d, m, n) = [s \in SynOf(c, m, n) |-> d.vals[PlaceOf(c, m, s)]]
      BY <3>1, SameRowsView
    <3> QED
      BY <2>4, <3>2
  <2>6. \A s \in SynOf(c, m, n) : w[s] = c.vals[PlaceOf(c, m, s)] /\ PlaceOf(c, m, s) \in DOMAIN c.vals
    <3>1. Places(c, m, n)
      BY <1>1, <1>2, PlacesAre
    <3>2. DOMAIN c.vals = 1 .. Len(c.vals)
      BY <1>1, LenProperties DEF ConnSound
    <3> QED
      BY <3>1, <3>2 DEF Places, WeightOf
  <2> HIDE DEF w, m, n
  <2>7. \A s \in SynOf(c, m, n) : v[PlaceOf(c, m, s)] = IF s \in Strong(w, t) THEN w[s] ELSE 0
    BY <1>3, <1>5, <2>1, <2>6
  <2>8. WeightOf(d, m, n) = [s \in DOMAIN w |-> IF s \in Strong(w, t) THEN w[s] ELSE 0]
    BY <1>3, <2>5, <2>7
  <2>9. WeightOf(d, m, n) = Weakened(w, c.kind, t)
    BY <1>8, <2>8 DEF Weakened
  <2>10. Reweighs(d, c)
    BY <2>4 DEF Reweighs
  <2> QED
    BY <2>3, <2>9, <2>10 DEF w, m, n
<1> QED
  BY <1>6, <1>7, <1>8

\* Pruning drops the weak synapses of sparse rows, and makes those of others zero.
LEMMA PrunePrunes ==
  ASSUME Lists, Shapes, NEW p, NEW t \in Thresholds, Prune(p, t)
  PROVE  Synapses!Next
<1> DEFINE c == ConnOf(p)
           d == Pruned(c, t)
           r == [op |-> "prune", pair |-> p, threshold |-> t]
           m == SizeOf(c.src)
           n == SizeOf(c.dst)
           v == WeightOf(c, m, n)
           w == WeightOf(d, m, n)
<1>1. Rewrite(p, d, r) /\ t \in Int
  BY ThresholdAssumption DEF Prune
<1>2. p \in Pairs
  BY <1>1 DEF Rewrite
<1>3. ConnShape(c) /\ Fits(c, groups) /\ m \in Nat /\ n \in Nat /\ ConnSound(c, m, n) /\ GroupShapes(groups)
  BY <1>2, PairSound DEF Shapes
<1>4. Reweighs(d, c) /\ w = Weakened(v, c.kind, t)
  BY <1>1, <1>3, PrunedWeights
<1>5. /\ p \in DOMAIN Wired /\ Wired[p].kind = c.kind /\ Wired[p].w = v /\ Synapses!Updated(p, w)
      /\ last' = r
  BY <1>1, <1>4, RewriteRewires
<1>6. last'.op = "prune" /\ last'.pair = p /\ last'.threshold = t
  BY <1>5
<1> HIDE DEF c, d, r, m, n, v, w
<1>7. Strong(v, t) = {s \in DOMAIN v : Synapses!Magnitude(v[s]) >= t}
  BY DEF Strong, Abs, Synapses!Magnitude
<1>8. w = IF c.kind = "sparse" THEN Synapses!Restrict(v, Strong(v, t)) ELSE [s \in DOMAIN v |-> IF s \in Strong(v, t) THEN v[s] ELSE 0]
  BY <1>4 DEF Weakened, Synapses!Restrict
<1>9. Synapses!Prune(last')
  BY <1>5, <1>6, <1>7, <1>8, Zenon DEF Synapses!Prune
<1> QED
  BY <1>5, <1>6, <1>9 DEF Synapses!Next, Synapses!Step

-----------------------------------------------------------------------------
(* The operations and steps that leave every weight alone.                  *)

\* Plasticity is switched, and no synapse touched.
LEMMA FlagSwitches ==
  ASSUME Lists, Shapes, NEW p, NEW on, SetPlasticity(p, on)
  PROVE  Synapses!Next
<1> DEFINE i == FindConn(p[1], p[2])
           c == conns[i]
           d == [c EXCEPT !.plastic = on]
           r == [op |-> "set_plasticity", pair |-> p, enabled |-> on]
<1>1. p \in Pairs /\ groups' = groups /\ conns' = [conns EXCEPT ![i] = [ConnOf(p) EXCEPT !.plastic = on]] /\ last' = r
  BY DEF SetPlasticity, Rewrite
<1>2. i \in DOMAIN conns /\ ConnOf(p) = c /\ p = <<c.src, c.dst>> /\ ConnShape(c)
  BY <1>1, PairAt DEF Shapes, ConnShapes
<1>3. conns' = [conns EXCEPT ![i] = d]
  BY <1>1, <1>2
<1> HIDE DEF i
<1>4. /\ d.src = c.src /\ d.dst = c.dst /\ d.kind = c.kind /\ d.plastic = on
      /\ d.rowptr = c.rowptr /\ d.cols = c.cols /\ d.vals = c.vals
  BY <1>2 DEF ConnShape
<1> HIDE DEF d
<1>5. /\ p \in DOMAIN Wired /\ Wired[p] = ViewOf(c, groups) /\ Wired' = [Wired EXCEPT ![p] = ViewOf(d, groups)]
  <2>1. d.src = conns[i].src /\ d.dst = conns[i].dst /\ p = <<d.src, d.dst>> /\ c = conns[i]
    BY <1>2, <1>4
  <2>2. \A g \in DOMAIN groups : groups'[g].size = groups[g].size
    BY <1>1
  <2>3. /\ <<d.src, d.dst>> \in DOMAIN Wired /\ Wired[<<d.src, d.dst>>] = ViewOf(conns[i], groups)
        /\ Wired' = [Wired EXCEPT ![<<d.src, d.dst>>] = ViewOf(d, groups)]
    <3>1. i \in DOMAIN conns /\ conns' = [conns EXCEPT ![i] = d] /\ d.src = conns[i].src /\ d.dst = conns[i].dst
      BY <1>2, <1>3, <2>1
    <3> QED
      BY <2>2, <3>1, WiredPut
  <2> QED
    BY <2>1, <2>3
<1>6. PICK m, n : m = groups[c.src].size /\ n = groups[c.dst].size
  OBVIOUS
<1>7. WeightOf(d, m, n) = WeightOf(c, m, n)
  BY <1>4, SameRowsView DEF SameRows, WeightOf
<1>8. PICK k, f, w, x : k = c.kind /\ f = c.plastic /\ w = WeightOf(c, m, n) /\ x = Wired
  OBVIOUS
<1>9. ViewOf(c, groups) = [kind |-> k, plastic |-> f, w |-> w] /\ ViewOf(d, groups) = [kind |-> k, plastic |-> on, w |-> w]
  BY <1>4, <1>6, <1>7, <1>8 DEF ViewOf
<1>10. x[p] = [kind |-> k, plastic |-> f, w |-> w] /\ Wired' = [x EXCEPT ![p] = [kind |-> k, plastic |-> on, w |-> w]]
  BY <1>5, <1>8, <1>9
<1>11. [kind |-> k, plastic |-> on, w |-> w] = [x[p] EXCEPT !.plastic = on]
  BY <1>10
<1>12. Wired' = [Wired EXCEPT ![p].plastic = on]
  BY <1>8, <1>10, <1>11
<1>13. last'.op = "set_plasticity" /\ last'.pair = p /\ last'.enabled = on
  BY <1>1
<1>14. Synapses!SetPlasticity(last')
  BY <1>12, <1>13 DEF Synapses!SetPlasticity
<1> QED
  BY <1>5, <1>13, <1>14 DEF Synapses!Next, Synapses!Step

\* Connecting, and loading a connection.
LEMMA LinkConnects ==
  ASSUME Lists, Shapes, groups' = groups, NEW c, Link(c), ConnShape(c), Fits(c, groups)
  PROVE  Synapses!Next
<1>1. conns' = Append(DropConns(c.src, c.dst), c) /\ last' = [op |-> "connect", pair |-> <<c.src, c.dst>>, conn |-> View(c)]
  BY DEF Link
<1>2. PICK p : p = <<c.src, c.dst>>
  OBVIOUS
<1>3. Wired' = [q \in DOMAIN Wired \cup {p} |-> IF q = p THEN View(c) ELSE Wired[q]]
  BY <1>1, <1>2, WiredLinked
<1>4. last'.op = "connect" /\ last'.pair = p /\ last'.conn = View(c)
  BY <1>1, <1>2
<1>5. Synapses!Connect(last')
  BY <1>3, <1>4 DEF Synapses!Connect
<1> QED
  BY <1>5 DEF Synapses!Next, Synapses!Step

\* What changes neither a connection nor a size, nor the last operation, is not seen.
LEMMA SizesStay ==
  ASSUME Lists, Shapes, conns' = conns, last' = last, \A g \in DOMAIN groups : groups'[g].size = groups[g].size
  PROVE  UNCHANGED <<Wired, last>>
<1>1. Wired' = Wired
  BY WiredStays
<1> QED
  BY <1>1

\* A group that comes, or gets another window, is not seen.
LEMMA GroupsStutter ==
  ASSUME Lists, Shapes,
         \/ \E n, size : size \in Nat /\ GroupCreate(n, size)
         \/ \E src, dst, w : ConfigureStdp(src, dst, w)
         \/ LoadGroup \/ LoadStdp
  PROVE  UNCHANGED <<Wired, last>>
<1>1. DOMAIN groups = 1 .. Len(groups) /\ Len(groups) \in Nat /\ \A g \in DOMAIN groups : GroupShape(groups[g])
  BY ListedLen DEF Lists, Shapes, GroupShapes
<1>2. conns' = conns /\ last' = last
  BY DEF GroupCreate, ConfigureStdp, LoadGroup, LoadStdp
<1>3. ASSUME NEW r, groups' = Append(groups, r), NEW g \in DOMAIN groups PROVE groups'[g].size = groups[g].size
  BY <1>1, <1>3, AppendListed DEF Lists
<1>4. ASSUME NEW src, NEW dst, NEW w, groups' = WindowSet(groups, src, dst, w), NEW g \in DOMAIN groups
      PROVE  groups'[g].size = groups[g].size
  BY <1>1, <1>4 DEF WindowSet, GroupShape
<1>5. ASSUME NEW i, NEW v, NEW w, groups' = [groups EXCEPT ![i].v = v, ![i].window = w], NEW g \in DOMAIN groups
      PROVE  groups'[g].size = groups[g].size
  BY <1>1, <1>5 DEF GroupShape
<1>6. \/ \E r : groups' = Append(groups, r)
      \/ \E src, dst, w : groups' = WindowSet(groups, src, dst, w)
      \/ \E i, v, w : groups' = [groups EXCEPT ![i].v = v, ![i].window = w]
  <2>1. CASE \E n, size : GroupCreate(n, size)
    BY <2>1 DEF GroupCreate
  <2>2. CASE \E src, dst, w : ConfigureStdp(src, dst, w)
    BY <2>2 DEF ConfigureStdp
  <2>3. CASE LoadGroup
    BY <2>3 DEF LoadGroup
  <2>4. CASE LoadStdp
    BY <2>4 DEF LoadStdp
  <2> QED
    BY <2>1, <2>2, <2>3, <2>4
<1>7. \A g \in DOMAIN groups : groups'[g].size = groups[g].size
  BY <1>3, <1>4, <1>5, <1>6
<1> QED
  BY <1>2, <1>7, SizesStay

\* Nor is what goes on in the file.
LEMMA DiskStutters ==
  ASSUME Lists, Shapes, SaveWrite \/ SaveEnd \/ LoadBegin \/ Restart \/ UNCHANGED vars
  PROVE  UNCHANGED <<Wired, last>>
<1>1. groups' = groups /\ conns' = conns /\ last' = last
  BY DEF SaveWrite, SaveEnd, LoadBegin, Restart, vars
<1> QED
  BY <1>1, SizesStay

\* The beginning of a save and the end of a load are told, and change nothing.
LEMMA KeptKeeps ==
  ASSUME Lists, Shapes, SaveBegin \/ LoadEnd
  PROVE  Synapses!Next
<1>1. groups' = groups /\ conns' = conns /\ last'.op \in {"save", "load"}
  BY DEF SaveBegin, LoadEnd
<1>2. Wired' = Wired
  BY <1>1, WiredStays
<1>3. Synapses!Kept(last')
  BY <1>1, <1>2 DEF Synapses!Kept
<1> QED
  BY <1>3 DEF Synapses!Next, Synapses!Step

\* With no connection there is nothing to see.
LEMMA NothingWired ==
  /\ conns = <<>> => Wired = <<>>
  /\ conns' = <<>> => Wired' = <<>>
<1>1. \A gs : WiredOf(<<>>, gs) = <<>>
  <2>1. PairsOf(<<>>) = {}
    BY DEF PairsOf, Range
  <2>2. \A gs : WiredOf(<<>>, gs) = [p \in {} |-> ViewOf(<<>>[IndexOf(<<>>, p)], gs)]
    BY <2>1 DEF WiredOf
  <2> QED
    BY <2>2
<1> QED
  BY <1>1, WiredIs

\* With the process goes every synapse.
LEMMA GoneForgets == ASSUME NEW how, Gone(how) PROVE Synapses!Next
<1>1. conns' = <<>> /\ last'.op = "none"
  BY DEF Gone
<1>2. Wired' = <<>>
  BY <1>1, NothingWired
<1>3. Synapses!Forget(last')
  BY <1>1, <1>2 DEF Synapses!Forget
<1> QED
  BY <1>3 DEF Synapses!Next, Synapses!Step

LEMMA InitWires == Init => Synapses!Init
<1> SUFFICES ASSUME Init PROVE Synapses!Init
  OBVIOUS
<1>1. conns = <<>> /\ last = [op |-> "none"]
  BY DEF Init
<1> QED
  BY <1>1, NothingWired DEF Synapses!Init

-----------------------------------------------------------------------------
(* What grow adds.                                                          *)

\* A neuron that a merge of P into row j, the positions after b up to e of c, adds.
Fresh(c, j, b, e, i) == ~(c.src = c.dst /\ i = j) /\ \A q \in b + 1 .. e : c.cols[q] # i
Passing(c, b, k, i, v) == \E q \in b + 1 .. k - 1 : c.cols[q] = i /\ c.vals[q] = v
Adding(c, j, b, e, P, p, w, i, v) == v = w /\ Fresh(c, j, b, e, i) /\ \E r \in 1 .. p - 1 : P[r] = i
\* The merge m has taken what it has passed of the row, and added what it has passed of P.
Taken(m, c, j, b, e, P, w) ==
  \A i, v : Shows(m, i, v) <=> Passing(c, b, m.k, i, v) \/ Adding(c, j, b, e, P, m.p, w, i, v)

LEMMA AppendedAt ==
  ASSUME NEW S, NEW s \in Seq(S), NEW x \in S
  PROVE  Len(Append(s, x)) = Len(s) + 1 /\ Append(s, x)[Len(s) + 1] = x /\ \A i \in 1 .. Len(s) : Append(s, x)[i] = s[i]
  BY AppendProperties

LEMMA TakesShows ==
  ASSUME NEW S, NEW m \in MergeStates(S), Len(m.cols) = Len(m.vals), NEW k, NEW p, NEW x \in S, NEW y \in Int
  PROVE  LET t == Takes(m, k, p, x, y) IN
         t.k = k /\ t.p = p /\ \A i, v : Shows(t, i, v) <=> Shows(m, i, v) \/ (i = x /\ v = y)
<1>1. PICK s \in Seq(S), u \in Seq(Int) : s = m.cols /\ u = m.vals /\ Len(s) = Len(u)
  BY DEF MergeStates
<1>2. PICK t : t = Takes(m, k, p, x, y)
  OBVIOUS
<1>3. t.k = k /\ t.p = p /\ t.cols = Append(s, x) /\ t.vals = Append(u, y)
  BY <1>1, <1>2 DEF Takes
<1>4. PICK l \in Nat : l = Len(s) /\ l = Len(u)
  BY <1>1, LenProperties
<1>5. Len(t.cols) = l + 1 /\ t.cols[l + 1] = x /\ \A i \in 1 .. l : t.cols[i] = s[i]
  <2>1. Len(Append(s, x)) = l + 1 /\ Append(s, x)[l + 1] = x /\ \A i \in 1 .. l : Append(s, x)[i] = s[i]
    <3>1. Len(Append(s, x)) = Len(s) + 1 /\ Append(s, x)[Len(s) + 1] = x /\ \A i \in 1 .. Len(s) : Append(s, x)[i] = s[i]
      BY AppendedAt
    <3> QED
      BY <1>4, <3>1
  <2> QED
    BY <1>3, <2>1
<1>6. t.vals[l + 1] = y /\ \A i \in 1 .. l : t.vals[i] = u[i]
  <2>1. Append(u, y)[l + 1] = y /\ \A i \in 1 .. l : Append(u, y)[i] = u[i]
    BY <1>4, AppendProperties
  <2> QED
    BY <1>3, <2>1
<1>7. \A q \in 1 .. l + 1 : q \in 1 .. l \/ q = l + 1
  BY <1>4
<1>8. l + 1 \in 1 .. l + 1 /\ \A q \in 1 .. l : q \in 1 .. l + 1
  BY <1>4
<1>9. ASSUME NEW i, NEW v PROVE Shows(t, i, v) <=> Shows(m, i, v) \/ (i = x /\ v = y)
  <2>1. Shows(t, i, v) <=> \E q \in 1 .. l + 1 : t.cols[q] = i /\ t.vals[q] = v
    BY <1>5 DEF Shows
  <2>2. Shows(m, i, v) <=> \E q \in 1 .. l : s[q] = i /\ u[q] = v
    BY <1>1, <1>4 DEF Shows
  <2> QED
    BY <1>5, <1>6, <1>7, <1>8, <2>1, <2>2
<1> QED
  BY <1>2, <1>3, <1>9

\* One further.
LEMMA PassingNext ==
  ASSUME NEW b \in Nat, NEW k \in Nat, b + 1 <= k, NEW c, NEW i, NEW v
  PROVE  Passing(c, b, k + 1, i, v) <=> Passing(c, b, k, i, v) \/ (i = c.cols[k] /\ v = c.vals[k])
<1>1. \A q \in b + 1 .. (k + 1) - 1 : q \in b + 1 .. k - 1 \/ q = k
  OBVIOUS
<1>2. k \in b + 1 .. (k + 1) - 1 /\ \A q \in b + 1 .. k - 1 : q \in b + 1 .. (k + 1) - 1
  OBVIOUS
<1> QED
  BY <1>1, <1>2 DEF Passing

LEMMA AddingNext ==
  ASSUME NEW p \in Nat, 1 <= p, NEW c, NEW j, NEW b, NEW e, NEW P, NEW w, NEW i, NEW v
  PROVE  Adding(c, j, b, e, P, p + 1, w, i, v) <=>
           Adding(c, j, b, e, P, p, w, i, v) \/ (Fresh(c, j, b, e, P[p]) /\ i = P[p] /\ v = w)
<1>1. \A q \in 1 .. (p + 1) - 1 : q \in 1 .. p - 1 \/ q = p
  OBVIOUS
<1>2. p \in 1 .. (p + 1) - 1 /\ \A q \in 1 .. p - 1 : q \in 1 .. (p + 1) - 1
  OBVIOUS
<1> QED
  BY <1>1, <1>2 DEF Adding

\* What one round of a merge does.
MergesBy(r, m, c, j, b, e, P, w) ==
  LET k == m.k  p == m.p IN
  \/ r = m /\ k = e + 1 /\ p = Len(P) + 1
  \/ k \in b + 1 .. e /\ r = Takes(m, k + 1, p, c.cols[k], c.vals[k])
  \/ p \in 1 .. Len(P) /\ ~Fresh(c, j, b, e, P[p]) /\ r = [m EXCEPT !.p = @ + 1]
  \/ p \in 1 .. Len(P) /\ Fresh(c, j, b, e, P[p]) /\ r = Takes(m, k, p + 1, P[p], w)
  \/ /\ k \in b + 1 .. e /\ p \in 1 .. Len(P) /\ ~Fresh(c, j, b, e, P[p])
     /\ r = Takes(m, k + 1, p + 1, c.cols[k], c.vals[k])

LEMMA RoundBy ==
  ASSUME NEW S \in SUBSET Int, NEW c, NEW j, NEW b, NEW e, e = c.rowptr[j + 2], RowGood(c, b, e, S),
         NEW P \in Seq(S), Climbs(P), NEW m \in MergeStates(S), Merging(m, c, b, e, P), NEW w \in Int,
         Taken(m, c, j, b, e, P, w)
  PROVE  MergesBy(MergeRound(m, c, j, P, w), m, c, j, b, e, P, w)
<1>1. PICK r : r = MergeRound(m, c, j, P, w)
  OBVIOUS
<1>2. PICK l \in Nat, k \in Nat, p \in Nat : l = Len(P) /\ k = m.k /\ p = m.p
  BY LenProperties DEF MergeStates
<1>3. b \in Nat /\ e \in Nat /\ k \in b + 1 .. e + 1 /\ p \in 1 .. l + 1
  BY <1>2 DEF RowGood, Merging
<1>4. r = IF k > e /\ p > l THEN m
          ELSE IF p > l \/ (k <= e /\ c.cols[k] < P[p]) THEN Takes(m, k + 1, p, c.cols[k], c.vals[k])
          ELSE IF k > e \/ c.cols[k] > P[p]
            THEN IF c.src = c.dst /\ P[p] = j THEN [m EXCEPT !.p = @ + 1] ELSE Takes(m, k, p + 1, P[p], w)
          ELSE Takes(m, k + 1, p + 1, c.cols[k], c.vals[k])
  BY <1>1, <1>2 DEF MergeRound
<1>5. ASSUME k > e /\ p > l PROVE MergesBy(r, m, c, j, b, e, P, w)
  <2>1. r = m /\ k = e + 1 /\ p = l + 1
    BY <1>3, <1>4, <1>5
  <2> QED
    BY <1>2, <2>1 DEF MergesBy
<1>6. ASSUME k <= e /\ (p > l \/ c.cols[k] < P[p]) PROVE MergesBy(r, m, c, j, b, e, P, w)
  <2>1. k \in b + 1 .. e /\ ~(k > e)
    BY <1>3, <1>6
  <2>2. r = Takes(m, k + 1, p, c.cols[k], c.vals[k])
    BY <1>4, <1>6, <2>1
  <2> QED
    BY <1>2, <2>1, <2>2 DEF MergesBy
<1>7. ASSUME p <= l PROVE p \in 1 .. l /\ ~(p > l) /\ P[p] \in Int /\ (k <= e => k \in b + 1 .. e /\ ~(k > e) /\ c.cols[k] \in Int)
  <2>1. p \in 1 .. l /\ ~(p > l) /\ (k <= e => k \in b + 1 .. e /\ ~(k > e))
    BY <1>3, <1>7
  <2>2. P[p] \in S
    BY <1>2, <2>1, ElementOfSeq
  <2>3. \A q \in b + 1 .. e : c.cols[q] \in S
    BY DEF RowGood
  <2> QED
    BY <2>1, <2>2, <2>3
<1>8. ASSUME p <= l /\ (k > e \/ c.cols[k] > P[p]) PROVE MergesBy(r, m, c, j, b, e, P, w)
  <2>1. p \in 1 .. l /\ ~(p > l) /\ P[p] \in Int /\ ~(k <= e /\ c.cols[k] < P[p])
    BY <1>3, <1>7, <1>8
  <2>2. r = IF c.src = c.dst /\ P[p] = j THEN [m EXCEPT !.p = @ + 1] ELSE Takes(m, k, p + 1, P[p], w)
    BY <1>4, <1>8, <2>1
  <2>3. ASSUME NEW q \in b + 1 .. e PROVE c.cols[q] # P[p]
    <3>1. q \in Nat
      BY <1>3
    <3>2. q \in Nat /\ c.cols[q] \in Int
      BY <3>1 DEF RowGood
    <3>3. CASE q < k
      <4>1. q \in b + 1 .. k - 1
        BY <1>3, <3>2, <3>3
      <4>2. Passing(c, b, k, c.cols[q], c.vals[q])
        BY <4>1 DEF Passing
      <4>3. Shows(m, c.cols[q], c.vals[q])
        BY <1>2, <4>2 DEF Taken
      <4>4. PICK x \in 1 .. Len(m.cols) : m.cols[x] = c.cols[q]
        BY <4>3 DEF Shows
      <4>5. p \in p .. l
        BY <2>1
      <4>6. m.cols[x] < P[p]
        BY <1>2, <4>5 DEF Merging
      <4> QED
        BY <2>1, <3>2, <4>4, <4>6
    <3>4. CASE ~(q < k)
      <4>1. k <= e /\ ~(k > e)
        BY <1>3, <3>2, <3>4
      <4>2. k <= e /\ c.cols[k] > P[p]
        BY <1>8, <4>1
      <4>3. k \in b + 1 .. e /\ c.cols[k] \in Int
        BY <1>7, <1>8, <4>2
      <4>4. q = k \/ k < q
        BY <1>3, <3>2, <3>4
      <4>5. k < q => c.cols[k] < c.cols[q]
        BY <4>3 DEF RowGood
      <4> QED
        BY <2>1, <3>2, <4>2, <4>3, <4>4, <4>5
    <3> QED
      BY <3>3, <3>4
  <2>4. Fresh(c, j, b, e, P[p]) <=> ~(c.src = c.dst /\ P[p] = j)
    BY <2>3 DEF Fresh
  <2> QED
    BY <1>2, <2>1, <2>2, <2>4 DEF MergesBy
<1>9. ASSUME k <= e /\ p <= l /\ c.cols[k] = P[p] PROVE MergesBy(r, m, c, j, b, e, P, w)
  <2>1. p \in 1 .. l /\ ~(p > l) /\ P[p] \in Int /\ k \in b + 1 .. e /\ ~(k > e)
    BY <1>7, <1>9
  <2>2. ~(c.cols[k] < P[p]) /\ ~(c.cols[k] > P[p])
    BY <1>9, <2>1
  <2>3. r = Takes(m, k + 1, p + 1, c.cols[k], c.vals[k])
    BY <1>4, <2>1, <2>2
  <2>4. ~Fresh(c, j, b, e, P[p])
    BY <1>9, <2>1 DEF Fresh
  <2> QED
    BY <1>2, <2>1, <2>3, <2>4 DEF MergesBy
<1>10. \/ k > e /\ p > l
       \/ k <= e /\ (p > l \/ c.cols[k] < P[p])
       \/ p <= l /\ (k > e \/ c.cols[k] > P[p])
       \/ k <= e /\ p <= l /\ c.cols[k] = P[p]
  <2>1. k > e \/ k <= e
    BY <1>3
  <2>2. p > l \/ p <= l
    BY <1>3
  <2>3. k <= e /\ p <= l => c.cols[k] < P[p] \/ c.cols[k] > P[p] \/ c.cols[k] = P[p]
    BY <1>7
  <2> QED
    BY <2>1, <2>2, <2>3
<1>11. MergesBy(r, m, c, j, b, e, P, w)
  BY <1>5, <1>6, <1>8, <1>9, <1>10
<1> QED
  BY <1>1, <1>11

\* So a round keeps what the merge has taken what it has passed, and goes on until it is done.
MergeDone(m, e, P) == m.k = e + 1 /\ m.p = Len(P) + 1
LEMMA RoundTakes ==
  ASSUME NEW S \in SUBSET Int, NEW c, NEW j, NEW b, NEW e, e = c.rowptr[j + 2], RowGood(c, b, e, S),
         NEW P \in Seq(S), Climbs(P), NEW m \in MergeStates(S), Merging(m, c, b, e, P), NEW w \in Int,
         Taken(m, c, j, b, e, P, w), NEW r, r = MergeRound(m, c, j, P, w)
  PROVE  /\ Taken(r, c, j, b, e, P, w)
         /\ MergeDone(r, e, P) \/ r.k + r.p >= m.k + m.p + 1
<1> DEFINE Goal == Taken(r, c, j, b, e, P, w) /\ (MergeDone(r, e, P) \/ r.k + r.p >= m.k + m.p + 1)
<1>1. MergesBy(r, m, c, j, b, e, P, w)
  BY RoundBy
<1>2. PICK k \in Nat, p \in Nat : k = m.k /\ p = m.p
  BY DEF MergeStates
<1>3. b \in Nat /\ k >= b + 1 /\ p >= 1 /\ Len(m.cols) = Len(m.vals)
  <2>1. b \in Nat /\ e \in Nat /\ Len(P) \in Nat
    BY LenProperties DEF RowGood
  <2> QED
    BY <1>2, <2>1 DEF Merging
<1>4. ASSUME NEW i, NEW v
      PROVE  Shows(m, i, v) <=> Passing(c, b, k, i, v) \/ Adding(c, j, b, e, P, p, w, i, v)
  BY <1>2 DEF Taken
<1>5. ASSUME NEW i, NEW v
      PROVE  Passing(c, b, k + 1, i, v) <=> Passing(c, b, k, i, v) \/ (i = c.cols[k] /\ v = c.vals[k])
  BY <1>3, PassingNext
<1>6. ASSUME NEW i, NEW v
      PROVE  Adding(c, j, b, e, P, p + 1, w, i, v) <=>
               Adding(c, j, b, e, P, p, w, i, v) \/ (Fresh(c, j, b, e, P[p]) /\ i = P[p] /\ v = w)
  BY <1>3, AddingNext
<1>7. ASSUME k \in b + 1 .. e PROVE c.cols[k] \in S /\ c.vals[k] \in Int
  BY <1>7 DEF RowGood
<1>8. ASSUME p \in 1 .. Len(P) PROVE P[p] \in S
  BY <1>8, ElementOfSeq
<1>9. ASSUME NEW a, NEW d, NEW x \in S, NEW y \in Int, r = Takes(m, a, d, x, y)
      PROVE  r.k = a /\ r.p = d /\ \A i, v : Shows(r, i, v) <=> Shows(m, i, v) \/ (i = x /\ v = y)
  BY <1>3, <1>9, TakesShows
<1>10. k + 1 + p >= k + p + 1 /\ k + (p + 1) >= k + p + 1 /\ (k + 1) + (p + 1) >= k + p + 1
  OBVIOUS
<1>11. CASE r = m /\ k = e + 1 /\ p = Len(P) + 1
  BY <1>2, <1>11 DEF MergeDone
<1>12. CASE k \in b + 1 .. e /\ r = Takes(m, k + 1, p, c.cols[k], c.vals[k])
  <2>1. r.k = k + 1 /\ r.p = p /\ \A i, v : Shows(r, i, v) <=> Shows(m, i, v) \/ (i = c.cols[k] /\ v = c.vals[k])
    <3>1. PICK x \in S, y \in Int : x = c.cols[k] /\ y = c.vals[k]
      BY <1>7, <1>12
    <3>2. r = Takes(m, k + 1, p, x, y)
      BY <1>12, <3>1
    <3>3. r.k = k + 1 /\ r.p = p /\ \A i, v : Shows(r, i, v) <=> Shows(m, i, v) \/ (i = x /\ v = y)
      BY <1>9, <3>2
    <3> QED
      BY <3>1, <3>3
  <2>2. Taken(r, c, j, b, e, P, w)
    BY <1>4, <1>5, <2>1 DEF Taken
  <2> QED
    BY <1>2, <1>10, <2>1, <2>2
<1>13. CASE p \in 1 .. Len(P) /\ ~Fresh(c, j, b, e, P[p]) /\ r = [m EXCEPT !.p = @ + 1]
  <2>1. r.k = k /\ r.p = p + 1 /\ r.cols = m.cols /\ r.vals = m.vals
    BY <1>2, <1>13 DEF MergeStates
  <2>2. \A i, v : Shows(r, i, v) <=> Shows(m, i, v)
    BY <2>1 DEF Shows
  <2>3. Taken(r, c, j, b, e, P, w)
    BY <1>4, <1>6, <1>13, <2>1, <2>2 DEF Taken
  <2> QED
    BY <1>2, <1>10, <2>1, <2>3
<1>14. CASE p \in 1 .. Len(P) /\ Fresh(c, j, b, e, P[p]) /\ r = Takes(m, k, p + 1, P[p], w)
  <2>1. r.k = k /\ r.p = p + 1 /\ \A i, v : Shows(r, i, v) <=> Shows(m, i, v) \/ (i = P[p] /\ v = w)
    BY <1>8, <1>9, <1>14
  <2>2. Taken(r, c, j, b, e, P, w)
    BY <1>4, <1>6, <1>14, <2>1 DEF Taken
  <2> QED
    BY <1>2, <1>10, <2>1, <2>2
<1>15. CASE /\ k \in b + 1 .. e /\ p \in 1 .. Len(P) /\ ~Fresh(c, j, b, e, P[p])
            /\ r = Takes(m, k + 1, p + 1, c.cols[k], c.vals[k])
  <2>1. r.k = k + 1 /\ r.p = p + 1 /\ \A i, v : Shows(r, i, v) <=> Shows(m, i, v) \/ (i = c.cols[k] /\ v = c.vals[k])
    BY <1>7, <1>9, <1>15
  <2>2. Taken(r, c, j, b, e, P, w)
    BY <1>4, <1>5, <1>6, <1>15, <2>1 DEF Taken
  <2> QED
    BY <1>2, <1>10, <2>1, <2>2
<1> HIDE DEF Goal
<1> QED
  BY <1>1, <1>2, <1>11, <1>12, <1>13, <1>14, <1>15, Zenon DEF MergesBy, Goal

LEMMA SumNat == ASSUME NEW x \in Nat, NEW y \in Nat PROVE x + y \in Nat
  OBVIOUS
Nears(b, e, l, n, y, z) ==
  b \in Nat /\ e \in Nat /\ l \in Nat /\ n = e - b + l /\ y \in b + 1 .. e + 1 /\ z \in 1 .. l + 1 /\ y + z >= b + 2 + n
LEMMA AtTheEnd == ASSUME NEW b, NEW e, NEW l, NEW n, NEW y, NEW z, Nears(b, e, l, n, y, z) PROVE y = e + 1 /\ z = l + 1
  BY DEF Nears

\* A merged row holds the row as it was, and the neurons of P that it adds.
LEMMA MergeTakes ==
  ASSUME NEW S \in SUBSET Int, NEW c, NEW j, NEW b, NEW e, b = c.rowptr[j + 1], e = c.rowptr[j + 2], RowGood(c, b, e, S),
         NEW P \in Seq(S), Climbs(P), NEW w \in Int, NEW i, NEW v
  PROVE  Shows(MergeRow(c, j, P, w), i, v) <=> Passing(c, b, e + 1, i, v) \/ Adding(c, j, b, e, P, Len(P) + 1, w, i, v)
<1>1. PICK g : MergeRuns(g, c, j, b, e, P, w, S)
  BY MergeRun
<1>2. PICK l \in Nat : l = Len(P)
  BY LenProperties
<1>3. PICK n : n = e - b + l
  OBVIOUS
<1>4. /\ MergeRow(c, j, P, w) = g[n] /\ n \in Nat
      /\ g[0] = [k |-> b + 1, p |-> 1, cols |-> <<>>, vals |-> <<>>]
      /\ \A x \in 1 .. n : g[x] = MergeRound(g[x - 1], c, j, P, w)
      /\ \A x \in 0 .. n : g[x] \in MergeStates(S) /\ Merging(g[x], c, b, e, P)
  BY <1>1, <1>2, <1>3 DEF MergeRuns
<1>5. b \in Nat /\ e \in Nat
  BY DEF RowGood
<1> DEFINE I == {x \in 0 .. n : Taken(g[x], c, j, b, e, P, w) /\ (MergeDone(g[x], e, P) \/ g[x].k + g[x].p >= b + 2 + x)}
<1>6. 0 \in I
  <2>1. PICK m : m = g[0]
    OBVIOUS
  <2>2. m.k = b + 1 /\ m.p = 1 /\ m.cols = <<>> /\ m.vals = <<>>
    BY <1>4, <2>1
  <2>3. \A x, y : ~Shows(m, x, y) /\ ~Passing(c, b, b + 1, x, y) /\ ~Adding(c, j, b, e, P, 1, w, x, y)
    <3>1. 1 .. Len(m.cols) = {}
      BY <2>2
    <3>2. b + 1 .. (b + 1) - 1 = {} /\ 1 .. 1 - 1 = {}
      BY <1>5
    <3> QED
      BY <3>1, <3>2 DEF Shows, Passing, Adding
  <2>4. Taken(m, c, j, b, e, P, w)
    BY <2>2, <2>3 DEF Taken
  <2>5. m.k + m.p >= b + 2 + 0 /\ 0 \in 0 .. n
    BY <1>4, <1>5, <2>2
  <2> QED
    BY <2>1, <2>4, <2>5
<1>7. ASSUME NEW x \in 1 .. n, x - 1 \in I PROVE x \in I
  <2>1. PICK m, r : m = g[x - 1] /\ r = g[x]
    OBVIOUS
  <2>2. x - 1 \in 0 .. n /\ x \in 0 .. n
    BY <1>4
  <2>3. m \in MergeStates(S) /\ Merging(m, c, b, e, P) /\ r = MergeRound(m, c, j, P, w) /\ r \in MergeStates(S)
    BY <1>4, <2>1, <2>2
  <2>4. Taken(m, c, j, b, e, P, w) /\ (MergeDone(m, e, P) \/ m.k + m.p >= b + 2 + (x - 1))
    BY <1>7, <2>1
  <2>5. Taken(r, c, j, b, e, P, w) /\ (MergeDone(r, e, P) \/ r.k + r.p >= m.k + m.p + 1)
    BY <2>3, <2>4, RoundTakes
  <2>6. MergeDone(m, e, P) => r = m
    BY <1>2, <1>5, <2>3 DEF MergeDone, MergeRound
  <2>7. m.k \in Nat /\ m.p \in Nat /\ r.k \in Nat /\ r.p \in Nat
    BY <2>3 DEF MergeStates
  <2>8. MergeDone(r, e, P) \/ r.k + r.p >= b + 2 + x
    <3>1. CASE MergeDone(m, e, P)
      BY <2>6, <3>1
    <3>2. CASE ~MergeDone(m, e, P) /\ ~MergeDone(r, e, P)
      <4>1. m.k + m.p \in Nat /\ r.k + r.p \in Nat
        BY <2>7, SumNat
      <4>2. PICK y \in Nat, z \in Nat : y = m.k + m.p /\ z = r.k + r.p
        BY <4>1
      <4>3. y >= b + 2 + (x - 1) /\ z >= y + 1
        BY <2>4, <2>5, <3>2, <4>2
      <4>4. z >= b + 2 + x
        BY <1>5, <4>3
      <4> QED
        BY <4>2, <4>4
    <3> QED
      BY <3>1, <3>2
  <2> QED
    BY <2>1, <2>2, <2>5, <2>8
<1> HIDE DEF I
<1>8. n \in I
  <2>1. \A x \in 0 .. n : x \in I
    BY <1>4, <1>6, <1>7, Induction
  <2>2. n \in 0 .. n
    BY <1>4
  <2> QED
    BY <2>1, <2>2
<1>9. PICK m : m = g[n]
  OBVIOUS
<1>10. Taken(m, c, j, b, e, P, w) /\ (MergeDone(m, e, P) \/ m.k + m.p >= b + 2 + n)
  BY <1>8, <1>9 DEF I
<1>11. m.k = e + 1 /\ m.p = l + 1
  <2>1. m.k \in b + 1 .. e + 1 /\ m.p \in 1 .. l + 1
    <3>1. n \in 0 .. n
      BY <1>4
    <3> QED
      BY <1>2, <1>4, <1>9, <3>1 DEF Merging
  <2>2. PICK y, z : y = m.k /\ z = m.p
    OBVIOUS
  <2>3. y \in b + 1 .. e + 1 /\ z \in 1 .. l + 1
    BY <2>1, <2>2
  <2>4. (y = e + 1 /\ z = l + 1) \/ y + z >= b + 2 + n
    BY <1>2, <1>10, <2>2 DEF MergeDone
  <2>5. y = e + 1 /\ z = l + 1
    <3>1. ASSUME y + z >= b + 2 + n PROVE Nears(b, e, l, n, y, z)
      BY <1>2, <1>3, <1>5, <2>3, <3>1, Zenon DEF Nears
    <3> QED
      BY <2>4, <3>1, AtTheEnd
  <2> QED
    BY <2>2, <2>5
<1> QED
  BY <1>2, <1>4, <1>9, <1>10, <1>11 DEF Taken

\* Row j of stacked rows is row j.
LEMMA RowOfStack ==
  ASSUME NEW n \in Nat, NEW a, NEW rows, Rowed(a, rows, n), NEW j \in 1 .. n, Len(rows[j].cols) \in Nat, NEW i, NEW v
  PROVE  Has(a, j, i, v) <=> Shows(rows[j], i, v)
<1>1. PICK p \in Nat : p = a.rowptr[j]
  <2>1. a.rowptr \in Seq(Nat) /\ Len(a.rowptr) = n + 1 /\ j \in 1 .. n + 1
    BY DEF Rowed
  <2>2. DOMAIN a.rowptr = 1 .. n + 1
    BY <2>1, LenProperties
  <2>3. a.rowptr[j] \in Nat
    BY <2>1, <2>2, Element
  <2> QED
    BY <2>3
<1>2. PICK r : r = rows[j]
  OBVIOUS
<1>3. PICK l \in Nat : l = Len(r.cols)
  BY <1>2
<1>4. a.rowptr[j + 1] = p + l /\ \A k \in 1 .. l : a.cols[p + k] = r.cols[k] /\ a.vals[p + k] = r.vals[k]
  BY <1>2, <1>1, <1>3 DEF Rowed
<1>5. /\ \A k \in 1 .. l : p + k \in p + 1 .. p + l
      /\ \A k \in p + 1 .. p + l : k - p \in 1 .. l /\ p + (k - p) = k
  OBVIOUS
<1>6. Has(a, j, i, v) <=> \E k \in p + 1 .. p + l : a.cols[k] = i /\ a.vals[k] = v
  BY <1>1, <1>4 DEF Has
<1>7. Shows(r, i, v) <=> \E k \in 1 .. l : r.cols[k] = i /\ r.vals[k] = v
  BY <1>3 DEF Shows
<1>8. ASSUME NEW k \in 1 .. l, r.cols[k] = i, r.vals[k] = v PROVE \E q \in p + 1 .. p + l : a.cols[q] = i /\ a.vals[q] = v
  BY <1>4, <1>5, <1>8
<1>9. ASSUME NEW q \in p + 1 .. p + l, a.cols[q] = i, a.vals[q] = v PROVE \E k \in 1 .. l : r.cols[k] = i /\ r.vals[k] = v
  <2>1. q - p \in 1 .. l /\ p + (q - p) = q
    BY <1>5
  <2>2. r.cols[q - p] = i /\ r.vals[q - p] = v
    BY <1>4, <1>9, <2>1
  <2> QED
    BY <2>1, <2>2
<1>10. (\E k \in 1 .. l : r.cols[k] = i /\ r.vals[k] = v) <=> \E q \in p + 1 .. p + l : a.cols[q] = i /\ a.vals[q] = v
  BY <1>8, <1>9
<1> QED
  BY <1>2, <1>6, <1>7, <1>10

\* What a row holds once P is merged into it.
Merges(c, P, w, m, n) ==
  m \in Nat /\ n \in Nat /\ RowsSound(c, m, n) /\ P \in Seq(0 .. m - 1) /\ Climbs(P) /\ w \in Int
LEMMA MergeHas ==
  ASSUME NEW c, NEW P, NEW w, NEW m, NEW n, Merges(c, P, w, m, n), NEW j \in 1 .. n, NEW i, NEW v
  PROVE  Shows(MergeRow(c, j - 1, P, w), i, v) <=>
           \/ Has(c, j, i, v)
           \/ v = w /\ i \in Range(P) /\ ~(c.src = c.dst /\ i = j - 1) /\ \A u : ~Has(c, j, i, u)
<1> USE DEF Merges
<1>1. PICK h \in 0 .. n - 1 : h = j - 1 /\ h + 1 = j /\ h + 2 = j + 1
  <2>1. j - 1 \in 0 .. n - 1 /\ (j - 1) + 1 = j /\ (j - 1) + 2 = j + 1
    OBVIOUS
  <2> QED
    BY <2>1
<1>2. PICK b, e : b = c.rowptr[h + 1] /\ e = c.rowptr[h + 2]
  OBVIOUS
<1>3. RowGood(c, b, e, 0 .. m - 1) /\ 0 .. m - 1 \in SUBSET Int
  BY <1>2, SoundRow
<1>4. PICK l \in Nat : l = Len(P) /\ DOMAIN P = 1 .. l
  BY LenProperties
<1>5. Shows(MergeRow(c, h, P, w), i, v) <=> Passing(c, b, e + 1, i, v) \/ Adding(c, h, b, e, P, l + 1, w, i, v)
  BY <1>2, <1>3, <1>4, MergeTakes
<1>6. b + 1 .. (e + 1) - 1 = b + 1 .. e /\ 1 .. (l + 1) - 1 = 1 .. l
  BY <1>3 DEF RowGood
<1>7. \A u : Has(c, j, i, u) <=> \E q \in b + 1 .. e : c.cols[q] = i /\ c.vals[q] = u
  BY <1>1, <1>2 DEF Has
<1>8. Passing(c, b, e + 1, i, v) <=> Has(c, j, i, v)
  BY <1>6, <1>7 DEF Passing
<1>9. (\E r \in 1 .. l : P[r] = i) <=> i \in Range(P)
  BY <1>4 DEF Range
<1>10. Fresh(c, h, b, e, i) <=> ~(c.src = c.dst /\ i = h) /\ \A u : ~Has(c, j, i, u)
  BY <1>7 DEF Fresh
<1>11. Adding(c, h, b, e, P, l + 1, w, i, v) <=> v = w /\ Fresh(c, h, b, e, i) /\ i \in Range(P)
  BY <1>6, <1>9 DEF Adding
<1> QED
  BY <1>1, <1>5, <1>8, <1>10, <1>11

\* What grow makes of the weights w.
Missing(w, I, J, self) == {s \in I \X J : s \notin DOMAIN w /\ (self => s[1] # s[2])}
GrownTo(w, I, J, self, x) ==
  [s \in DOMAIN w \cup Missing(w, I, J, self) |-> IF s \in Missing(w, I, J, self) THEN x ELSE w[s]]

\* d is c with P merged into the rows of Q.
Grows(d, c, P, Q, x, m, n) ==
  /\ m \in Nat /\ n \in Nat /\ n = SizeOf(c.dst) /\ RowsSound(c, m, n) /\ P \in Seq(0 .. m - 1) /\ Climbs(P)
  /\ Range(P) \subseteq 0 .. m - 1 /\ Range(Q) \subseteq 0 .. n - 1 /\ x \in Int
  /\ \E a : a = MergeRows(c, P, Q, x) /\ d.rowptr = a.rowptr /\ d.cols = a.cols /\ d.vals = a.vals
LEMMA MergedHolds ==
  ASSUME NEW d, NEW c, NEW P, NEW Q, NEW x, NEW m, NEW n, Grows(d, c, P, Q, x, m, n), NEW w, Holds(c, w, m, n)
  PROVE  Holds(d, GrownTo(w, Range(P), Range(Q), c.src = c.dst, x), m, n)
<1>1. PICK a : a = MergeRows(c, P, Q, x) /\ d.rowptr = a.rowptr /\ d.cols = a.cols /\ d.vals = a.vals
  BY DEF Grows
<1>2. /\ m \in Nat /\ n \in Nat /\ n = SizeOf(c.dst) /\ RowsSound(c, m, n) /\ P \in Seq(0 .. m - 1) /\ Climbs(P)
      /\ Range(P) \subseteq 0 .. m - 1 /\ Range(Q) \subseteq 0 .. n - 1 /\ x \in Int
  BY DEF Grows
<1>3. PICK rows : GrowsTo(rows, c, P, Q, x, m, n)
  BY <1>2, MergedRows
<1>4. Rowed(a, rows, n)
  <2>1. RowsOf(rows, n, 0 .. m - 1, Int) /\ Len(rows) = n /\ Even(rows, n) /\ a = Stacked(rows)
    BY <1>1, <1>3 DEF GrowsTo
  <2> QED
    BY <1>2, <2>1, StackedRows
<1>5. \A j \in 1 .. n : Len(rows[j].cols) \in Nat
  <2>1. \A j \in 1 .. n : rows[j].cols \in Seq(0 .. m - 1)
    BY <1>3 DEF GrowsTo, RowsOf
  <2> QED
    BY <2>1, LenProperties
<1>6. PICK new : new = Missing(w, Range(P), Range(Q), c.src = c.dst)
  OBVIOUS
<1>7. PICK u : u = GrownTo(w, Range(P), Range(Q), c.src = c.dst, x)
  OBVIOUS
<1>8. u = [s \in DOMAIN w \cup new |-> IF s \in new THEN x ELSE w[s]]
  BY <1>6, <1>7 DEF GrownTo
<1>9. DOMAIN u \subseteq (0 .. m - 1) \X (0 .. n - 1) /\ u = [s \in DOMAIN u |-> u[s]]
  <2>1. DOMAIN w \subseteq (0 .. m - 1) \X (0 .. n - 1)
    BY DEF Holds
  <2>2. new \subseteq (0 .. m - 1) \X (0 .. n - 1)
    BY <1>6, <1>2 DEF Missing
  <2> QED
    BY <1>8, <2>1, <2>2
<1>10. ASSUME NEW j \in 1 .. n, NEW i, NEW v PROVE Has(d, j, i, v) <=> <<i, j - 1>> \in DOMAIN u /\ u[<<i, j - 1>>] = v
  <2>1. <<i, j - 1>>[1] = i /\ <<i, j - 1>>[2] = j - 1
    OBVIOUS
  <2>2. PICK s : s = <<i, j - 1>> /\ s[1] = i /\ s[2] = j - 1
    BY <2>1
  <2>3. \A y : Has(c, j, i, y) <=> s \in DOMAIN w /\ w[s] = y
    BY <2>2 DEF Holds
  <2>4. Has(d, j, i, v) <=> Shows(rows[j], i, v)
    <3>1. Has(a, j, i, v) <=> Shows(rows[j], i, v)
      BY <1>4, <1>5, <1>2, RowOfStack
    <3> QED
      BY <1>1, <3>1 DEF Has
  <2>5. s \in new <=> i \in Range(P) /\ j - 1 \in Range(Q) /\ s \notin DOMAIN w /\ ~(c.src = c.dst /\ i = j - 1)
    BY <1>6, <2>2 DEF Missing
  <2>6. Shows(rows[j], i, v) <=> (s \in DOMAIN w /\ w[s] = v) \/ (s \in new /\ v = x)
    <3>1. CASE j - 1 \in Range(Q)
      <4>1. rows[j] = MergeRow(c, j - 1, P, x)
        BY <1>3, <3>1 DEF GrowsTo
      <4>2. Shows(rows[j], i, v) <=>
              \/ Has(c, j, i, v)
              \/ v = x /\ i \in Range(P) /\ ~(c.src = c.dst /\ i = j - 1) /\ \A y : ~Has(c, j, i, y)
        <5>1. Shows(MergeRow(c, j - 1, P, x), i, v) <=>
                \/ Has(c, j, i, v)
                \/ v = x /\ i \in Range(P) /\ ~(c.src = c.dst /\ i = j - 1) /\ \A y : ~Has(c, j, i, y)
          <6>1. Merges(c, P, x, m, n)
            BY <1>2, Zenon DEF Merges
          <6> QED
            BY <6>1, MergeHas
        <5> QED
          BY <4>1, <5>1
      <4>3. (\A y : ~Has(c, j, i, y)) <=> s \notin DOMAIN w
        BY <2>3
      <4> QED
        BY <2>3, <2>5, <3>1, <4>2, <4>3
    <3>2. CASE j - 1 \notin Range(Q)
      BY <1>3, <2>3, <2>5, <3>2 DEF GrowsTo
    <3> QED
      BY <3>1, <3>2
  <2>7. s \in DOMAIN u <=> s \in DOMAIN w \/ s \in new
    BY <1>8
  <2>8. s \in DOMAIN u => u[s] = IF s \in new THEN x ELSE w[s]
    BY <1>8
  <2>9. s \in new => s \notin DOMAIN w
    BY <2>5
  <2> QED
    BY <2>2, <2>4, <2>6, <2>7, <2>8, <2>9
<1> QED
  BY <1>7, <1>9, <1>10 DEF Holds

\* The index lists of grow ascend, and hold the neurons of the lists given.
LEMMA SanitizedList ==
  ASSUME NEW g, NEW m \in Nat, m = SizeOf(g), NEW list, NEW P, P = Sanitized(list, g)
  PROVE  P \in Seq(0 .. m - 1) /\ Climbs(P) /\ Range(P) \subseteq 0 .. m - 1
<1>1. PICK S : S = Range(list) \cap Neuron(g)
  OBVIOUS
<1>2. S \in SUBSET (0 .. m) /\ S \subseteq 0 .. m - 1
  BY <1>1 DEF Neuron
<1>3. P = Ascending(S)
  BY <1>1 DEF Sanitized
<1>4. P \in Seq(S) /\ Climbs(P) /\ Range(P) = S
  BY <1>2, <1>3, AscendingLists
<1>5. \A i \in DOMAIN P : P[i] \in 0 .. m - 1
  BY <1>2, <1>4, Element
<1> QED
  BY <1>2, <1>4, <1>5, Widened

\* Where one of them is empty there is nothing to add.
LEMMA NothingGrows ==
  ASSUME NEW w, w = [s \in DOMAIN w |-> w[s]], NEW I, NEW J, I = {} \/ J = {}, NEW self, NEW x
  PROVE  GrownTo(w, I, J, self, x) = w
<1>1. Missing(w, I, J, self) = {}
  BY DEF Missing
<1> QED
  BY <1>1 DEF GrownTo

\* So the synapses that are missing are added, and no other.
LEMMA GrownWeights ==
  ASSUME GroupShapes(groups), NEW c, ConnShape(c), Fits(c, groups), c.kind = "sparse",
         NEW m, NEW n, m = SizeOf(c.src), n = SizeOf(c.dst), NEW pre, NEW post, NEW x \in Weights,
         NEW P, NEW Q, P = Sanitized(pre, c.src), Q = Sanitized(post, c.dst),
         NEW d, d = IF P = <<>> \/ Q = <<>> THEN c ELSE Grown(c, P, Q, x)
  PROVE  Reweighs(d, c) /\ WeightOf(d, m, n) = GrownTo(WeightOf(c, m, n), Range(P), Range(Q), c.src = c.dst, x)
<1>1. m \in Nat /\ n \in Nat /\ RowsSound(c, m, n) /\ x \in Int
  BY FitsSizes, WeightAssumption DEF ConnSound
<1>2. P \in Seq(0 .. m - 1) /\ Climbs(P) /\ Range(P) \subseteq 0 .. m - 1 /\ Range(Q) \subseteq 0 .. n - 1
  BY <1>1, SanitizedList
<1>3. PICK w : w = WeightOf(c, m, n)
  OBVIOUS
<1>4. Holds(c, w, m, n) /\ w = [s \in DOMAIN w |-> w[s]]
  BY <1>1, <1>3, SparseHolds DEF Holds
<1>5. CASE P = <<>> \/ Q = <<>>
  <2>1. Range(P) = {} \/ Range(Q) = {}
    BY <1>5 DEF Range
  <2>2. GrownTo(w, Range(P), Range(Q), c.src = c.dst, x) = w
    BY <1>4, <2>1, NothingGrows
  <2>3. d = c
    BY <1>5
  <2> QED
    BY <1>3, <2>2, <2>3 DEF Reweighs
<1>6. CASE ~(P = <<>> \/ Q = <<>>)
  <2>1. PICK a : a = MergeRows(c, P, Q, x)
    OBVIOUS
  <2>2. PICK r, k, v : r = a.rowptr /\ k = a.cols /\ v = a.vals
    OBVIOUS
  <2>3. d = [c EXCEPT !.rowptr = r, !.cols = k, !.vals = v]
    BY <1>6, <2>1, <2>2, Zenon DEF Grown
  <2>4. WithRows(d, c, r, k, v)
    BY <2>3 DEF WithRows
  <2>5. /\ d.kind = c.kind /\ d.src = c.src /\ d.dst = c.dst /\ d.plastic = c.plastic
        /\ d.rowptr = r /\ d.cols = k /\ d.vals = v
    BY <2>4, RowsPut
  <2>6. RowsSound(d, m, n)
    <3>1. RowsSound(a, m, n)
      BY <1>1, <1>2, <2>1, MergedSound
    <3> QED
      BY <2>2, <2>5, <3>1 DEF RowsSound
  <2>7. Holds(d, WeightOf(d, m, n), m, n)
    BY <1>1, <2>5, <2>6, SparseHolds
  <2>8. PICK u : u = GrownTo(w, Range(P), Range(Q), c.src = c.dst, x)
    OBVIOUS
  <2>9. Holds(d, u, m, n)
    <3>1. d.rowptr = a.rowptr /\ d.cols = a.cols /\ d.vals = a.vals
      BY <2>2, <2>5
    <3>2. Holds(d, GrownTo(w, Range(P), Range(Q), c.src = c.dst, x), m, n)
      <4>1. Grows(d, c, P, Q, x, m, n)
        BY <1>1, <1>2, <2>1, <3>1, Zenon DEF Grows
      <4> QED
        BY <1>4, <4>1, MergedHolds
    <3> QED
      BY <2>8, <3>2
  <2>10. WeightOf(d, m, n) = u
    BY <1>1, <2>7, <2>9, HoldsOne
  <2> QED
    BY <1>3, <2>5, <2>8, <2>10 DEF Reweighs
<1> QED
  BY <1>5, <1>6

\* Growing adds the missing synapses of the cross product.
LEMMA GrowGrows ==
  ASSUME Lists, Shapes, NEW p, NEW pre, NEW post, NEW x \in Weights, Grow(p, pre, post, x)
  PROVE  Synapses!Next
<1>1. PICK c, P, Q : c = ConnOf(p) /\ P = Sanitized(pre, c.src) /\ Q = Sanitized(post, c.dst)
  OBVIOUS
<1>2. PICK d, r : /\ d = IF P = <<>> \/ Q = <<>> THEN c ELSE Grown(c, P, Q, x)
                  /\ r = [op |-> "grow", pair |-> p, pre |-> Range(P), post |-> Range(Q), weight |-> x]
  OBVIOUS
<1>3. c.kind = "sparse" /\ Rewrite(p, d, r)
  BY <1>1, <1>2, Zenon DEF Grow
<1>4. p \in Pairs
  BY <1>3 DEF Rewrite
<1>5. ConnShape(c) /\ Fits(c, groups) /\ GroupShapes(groups)
  BY <1>1, <1>4, PairSound DEF Shapes
<1>6. PICK m, n : m = SizeOf(c.src) /\ n = SizeOf(c.dst)
  OBVIOUS
<1>7. PICK v, w : v = WeightOf(c, m, n) /\ w = WeightOf(d, m, n)
  OBVIOUS
<1>8. Reweighs(d, c) /\ w = GrownTo(v, Range(P), Range(Q), c.src = c.dst, x)
  <2>1. GroupShapes(groups) /\ ConnShape(c) /\ Fits(c, groups) /\ c.kind = "sparse"
    BY <1>3, <1>5
  <2>2. Reweighs(d, c) /\ WeightOf(d, m, n) = GrownTo(WeightOf(c, m, n), Range(P), Range(Q), c.src = c.dst, x)
    BY <1>1, <1>2, <1>6, <2>1, GrownWeights
  <2> QED
    BY <1>7, <2>2
<1>9. /\ p \in DOMAIN Wired /\ Wired[p].kind = c.kind /\ Wired[p].w = v /\ Synapses!Updated(p, w)
      /\ p = <<c.src, c.dst>> /\ last' = r
  BY <1>1, <1>3, <1>6, <1>7, <1>8, RewriteRewires
<1>10. /\ last'.op = "grow" /\ last'.pair = p /\ last'.pre = Range(P) /\ last'.post = Range(Q) /\ last'.weight = x
  BY <1>2, <1>9
<1>11. PICK I, J, new : I = Range(P) /\ J = Range(Q) /\ new = Missing(v, I, J, c.src = c.dst)
  OBVIOUS
<1>12. new = {s \in I \X J : s \notin DOMAIN v /\ (p[1] = p[2] => s[1] # s[2])}
  <2>1. p[1] = c.src /\ p[2] = c.dst
    BY <1>9
  <2> QED
    BY <1>11, <2>1 DEF Missing
<1>13. w = [s \in DOMAIN v \cup new |-> IF s \in new THEN x ELSE v[s]]
  BY <1>8, <1>11 DEF GrownTo
<1>14. Synapses!Grow(last')
  <2>1. /\ last'.pair = p /\ last'.pre = I /\ last'.post = J /\ last'.weight = x /\ last'.op = "grow"
    BY <1>10, <1>11
  <2>2. Wired[p].kind = "sparse" /\ Wired[p].w = v /\ Synapses!Updated(p, w)
    BY <1>3, <1>9
  <2> QED
    BY <1>12, <1>13, <2>1, <2>2, Zenon DEF Synapses!Grow
<1> QED
  BY <1>9, <1>10, <1>14 DEF Synapses!Next, Synapses!Step

-----------------------------------------------------------------------------
(* What normalize does to a weight.                                         *)

LEMMA Quotient ==
  ASSUME NEW a \in Nat, NEW d \in Nat \ {0}
  PROVE  a \div d \in Nat /\ (a \div d) * d <= a
  OBVIOUS

LEMMA Shrinks ==
  ASSUME NEW a \in Nat, NEW t \in Nat, NEW d \in Nat \ {0}, t <= d, NEW q \in Nat, q * d <= a * t
  PROVE  q <= a
<1> SUFFICES ASSUME q >= a + 1 PROVE FALSE
  OBVIOUS
<1>1. PICK k \in Nat : q = a + 1 + k
  <2>1. q - (a + 1) \in Nat /\ q = a + 1 + (q - (a + 1))
    OBVIOUS
  <2> QED
    BY <2>1
<1>2. PICK h \in Nat : d = t + h
  <2>1. d - t \in Nat /\ d = t + (d - t)
    OBVIOUS
  <2> QED
    BY <2>1
<1>3. (a + 1 + k) * d = a * d + d + k * d /\ a * (t + h) = a * t + a * h
  OBVIOUS
<1>4. a * d \in Nat /\ k * d \in Nat /\ a * t \in Nat /\ a * h \in Nat
  OBVIOUS
<1>5. q * d = a * t + a * h + d + k * d
  BY <1>1, <1>2, <1>3, <1>4
<1> QED
  BY <1>4, <1>5

LEMMA ScaledLess ==
  ASSUME NEW x \in Int, NEW t \in Nat \ {0}, NEW d \in Nat, t < d, NEW y, y = Scaled(x, t, d)
  PROVE  y \in Int /\ Abs(x) \in Nat /\ Abs(y) \in Nat /\ Abs(y) <= Abs(x) /\ y * x >= 0 /\ Abs(y) * d <= Abs(x) * t
<1>1. PICK a \in Nat : a = Abs(x) /\ (x >= 0 => x = a) /\ (x < 0 => x = -a)
  <2>1. Abs(x) \in Nat /\ (x >= 0 => x = Abs(x)) /\ (x < 0 => x = -Abs(x))
    BY DEF Abs
  <2> QED
    BY <2>1
<1>2. PICK b \in Nat : b = a * t
  <2>1. a * t \in Nat
    OBVIOUS
  <2> QED
    BY <2>1
<1>3. PICK q \in Nat : q = b \div d /\ q * d <= b
  <2>1. b \div d \in Nat /\ (b \div d) * d <= b
    BY Quotient
  <2> QED
    BY <2>1
<1>4. y = IF x < 0 THEN -q ELSE q
  BY <1>1, <1>2, <1>3 DEF Scaled
<1>5. q <= a
  BY <1>2, <1>3, Shrinks
<1>6. Abs(y) = q /\ y \in Int
  BY <1>4 DEF Abs
<1>7. y * x >= 0
  <2>1. q * a \in Nat /\ (-q) * (-a) = q * a
    OBVIOUS
  <2>2. CASE x >= 0
    BY <1>1, <1>4, <2>1, <2>2
  <2>3. CASE x < 0
    BY <1>1, <1>4, <2>1, <2>3
  <2> QED
    BY <2>2, <2>3
<1> QED
  BY <1>1, <1>2, <1>3, <1>5, <1>6, <1>7

-----------------------------------------------------------------------------
(* The drive of a neuron: a sum over a finite set, in any order.            *)

Chosen(s) == CHOOSE x \in s : TRUE
SumBody(w, S, g) ==
  [s \in SUBSET S |-> IF s = {} THEN 0 ELSE Synapses!Magnitude(w[Chosen(s)]) + g[s \ {Chosen(s)}]]
SumOf(w, S) == CHOOSE g : g = SumBody(w, S, g)
Weighs(w, S) == IsFiniteSet(S) /\ \A s \in S : Synapses!Magnitude(w[s]) \in Nat

LEMMA DriveIs == ASSUME NEW w, NEW j PROVE LET S == {s \in DOMAIN w : s[2] = j} IN Synapses!Drive(w, j) = SumOf(w, S)[S]
  BY DEF Synapses!Drive, Synapses!MapThenSumSet, Synapses!MapThenFoldSet, SumOf, SumBody, Chosen

LEMMA Choosing == ASSUME NEW s, s # {} PROVE Chosen(s) \in s
  BY DEF Chosen

\* The parts of a finite set, and what is left of them.
LEMMA Parts ==
  ASSUME NEW S, IsFiniteSet(S), NEW s \in SUBSET S
  PROVE  /\ IsFiniteSet(s) /\ Cardinality(s) \in Nat /\ Cardinality(S) \in Nat /\ Cardinality(s) <= Cardinality(S)
         /\ Cardinality(s) = 0 <=> s = {}
         /\ \A x \in s : s \ {x} \in SUBSET S /\ Cardinality(s \ {x}) = Cardinality(s) - 1
<1>1. IsFiniteSet(s) /\ Cardinality(s) <= Cardinality(S)
  BY FS_Subset
<1>2. Cardinality(s) \in Nat /\ Cardinality(S) \in Nat
  BY <1>1, FS_CardinalityType
<1>3. Cardinality(s) = 0 <=> s = {}
  BY <1>1, FS_EmptySet
<1>4. \A x \in s : Cardinality(s \ {x}) = Cardinality(s) - 1
  BY <1>1, FS_RemoveElement
<1> QED
  BY <1>1, <1>2, <1>3, <1>4

\* The recursion over the parts of a finite set is solved by as many rounds as it has elements.
LEMMA SumExists ==
  ASSUME NEW w, NEW S, Weighs(w, S)
  PROVE  SumOf(w, S) = SumBody(w, S, SumOf(w, S))
<1> DEFINE V == [SUBSET S -> Nat]
           n == Cardinality(S)
           F == [x \in V \X (1 .. n + 1) |-> SumBody(w, S, x[1])]
<1>1. IsFiniteSet(S) /\ n \in Nat
  BY FS_CardinalityType DEF Weighs
<1>2. ASSUME NEW g \in V PROVE SumBody(w, S, g) \in V
  <2>1. ASSUME NEW s \in SUBSET S, s # {} PROVE Synapses!Magnitude(w[Chosen(s)]) + g[s \ {Chosen(s)}] \in Nat
    <3>1. PICK x \in S : x = Chosen(s)
      BY <2>1, Choosing
    <3>2. g[s \ {x}] \in Nat /\ Synapses!Magnitude(w[x]) \in Nat
      BY DEF Weighs
    <3> QED
      BY <3>1, <3>2
  <2> QED
    BY <2>1 DEF SumBody
<1> HIDE DEF n
<1>3. \A g \in V, k \in 1 .. n + 1 : F[<<g, k>>] = SumBody(w, S, g) /\ F[<<g, k>>] \in V
  BY <1>2
<1>4. PICK b \in V : b[{}] = 0
  <2>1. [s \in SUBSET S |-> 0] \in V /\ [s \in SUBSET S |-> 0][{}] = 0
    OBVIOUS
  <2> QED
    BY <2>1
<1> HIDE DEF F, V
<1>5. PICK f : Passes(f, V, n + 1, b, F)
  <2>1. n + 1 \in Nat /\ StaysIn(V, F, n + 1)
    BY <1>1, <1>3 DEF StaysIn
  <2> QED
    BY <2>1, LoopExists
<1>6. \A k \in 1 .. n + 1 : f[k - 1] \in V /\ f[k] = SumBody(w, S, f[k - 1])
  <2> SUFFICES ASSUME NEW k \in 1 .. n + 1 PROVE f[k - 1] \in V /\ f[k] = SumBody(w, S, f[k - 1])
    OBVIOUS
  <2>1. k - 1 \in 0 .. n + 1
    BY <1>1
  <2>2. f[k - 1] \in V /\ f[k] = F[<<f[k - 1], k>>]
    BY <1>5, <2>1 DEF Passes
  <2> QED
    BY <1>3, <2>2
<1>7. ASSUME NEW k \in 1 .. n + 1, NEW s \in SUBSET S
      PROVE  f[k][s] = IF s = {} THEN 0 ELSE Synapses!Magnitude(w[Chosen(s)]) + f[k - 1][s \ {Chosen(s)}]
  BY <1>6 DEF SumBody
\* After k rounds the sums of up to k elements are what they stay.
<1> DEFINE I == {k \in 0 .. n : \A s \in SUBSET S : Cardinality(s) <= k => f[k + 1][s] = f[k][s]}
<1>8. 0 \in I
  <2>1. f[0][{}] = 0
    BY <1>4, <1>5 DEF Passes
  <2>2. f[0 + 1][{}] = 0
    <3>1. 0 + 1 \in 1 .. n + 1
      BY <1>1
    <3> QED
      BY <1>7, <3>1
  <2>3. ASSUME NEW s \in SUBSET S, Cardinality(s) <= 0 PROVE s = {}
    BY <1>1, <2>3, Parts
  <2>4. \A s \in SUBSET S : Cardinality(s) <= 0 => f[0 + 1][s] = f[0][s]
    BY <2>1, <2>2, <2>3
  <2> QED
    BY <1>1, <2>4
<1>9. ASSUME NEW k \in 1 .. n, k - 1 \in I PROVE k \in I
  <2>1. ASSUME NEW s \in SUBSET S, Cardinality(s) <= k PROVE f[k + 1][s] = f[k][s]
    <3>1. k \in 1 .. n + 1 /\ k + 1 \in 1 .. n + 1 /\ (k + 1) - 1 = k /\ (k - 1) + 1 = k
      BY <1>1
    <3>2. CASE s = {}
      BY <1>7, <3>1, <3>2
    <3>3. CASE s # {}
      <4>1. PICK x \in s : x = Chosen(s)
        BY <3>3, Choosing
      <4>2. f[k + 1][s] = Synapses!Magnitude(w[x]) + f[k][s \ {x}] /\ f[k][s] = Synapses!Magnitude(w[x]) + f[k - 1][s \ {x}]
        BY <1>7, <3>1, <3>3, <4>1
      <4>3. s \ {x} \in SUBSET S /\ Cardinality(s \ {x}) <= k - 1
        <5>1. s \ {x} \in SUBSET S /\ Cardinality(s \ {x}) = Cardinality(s) - 1 /\ Cardinality(s) \in Nat
          BY <1>1, Parts
        <5> QED
          BY <1>1, <2>1, <5>1
      <4>4. f[(k - 1) + 1][s \ {x}] = f[k - 1][s \ {x}]
        BY <1>9, <4>3
      <4> QED
        BY <3>1, <4>2, <4>4
    <3> QED
      BY <3>2, <3>3
  <2>2. k \in 0 .. n
    BY <1>1
  <2> QED
    BY <2>1, <2>2
<1> HIDE DEF I
<1>10. n \in I
  <2>1. \A k \in 0 .. n : k \in I
    BY <1>1, <1>8, <1>9, Induction
  <2> QED
    BY <1>1, <2>1
<1>11. \A s \in SUBSET S : Cardinality(s) <= n
  BY <1>1, Parts DEF n
<1>12. n + 1 \in 1 .. n + 1 /\ (n + 1) - 1 = n
  BY <1>1
<1>13. f[n] \in V /\ f[n + 1] \in V /\ f[n + 1] = SumBody(w, S, f[n])
  <2>1. f[n] \in V /\ f[n + 1] = SumBody(w, S, f[n])
    BY <1>6, <1>12
  <2> QED
    BY <1>2, <2>1
<1>14. f[n + 1] = f[n]
  <2>1. \A s \in SUBSET S : f[n + 1][s] = f[n][s]
    BY <1>10, <1>11 DEF I
  <2> QED
    BY <1>13, <2>1 DEF V
<1>15. PICK g : g = SumBody(w, S, g)
  BY <1>13, <1>14
<1> QED
  BY <1>15 DEF SumOf

\* The sum of a part is a number: take out any element, and its weight is what goes.
LEMMA SumRule ==
  ASSUME NEW w, NEW S, Weighs(w, S), NEW g, g = SumOf(w, S)
  PROVE  /\ g[{}] = 0
         /\ \A s \in SUBSET S : g[s] \in Nat /\ \A x \in s : g[s] = Synapses!Magnitude(w[x]) + g[s \ {x}]
<1> DEFINE n == Cardinality(S)
<1>1. IsFiniteSet(S) /\ n \in Nat
  BY FS_CardinalityType DEF Weighs
<1>2. g = SumBody(w, S, g)
  BY SumExists
<1>3. \A s \in SUBSET S : g[s] = IF s = {} THEN 0 ELSE Synapses!Magnitude(w[Chosen(s)]) + g[s \ {Chosen(s)}]
  <2>1. \A s \in SUBSET S : SumBody(w, S, g)[s] = IF s = {} THEN 0 ELSE Synapses!Magnitude(w[Chosen(s)]) + g[s \ {Chosen(s)}]
    BY Zenon DEF SumBody
  <2> QED
    BY <1>2, <2>1, Zenon
<1>4. \A x \in S : Synapses!Magnitude(w[x]) \in Nat
  BY DEF Weighs
<1> HIDE DEF n
<1> DEFINE Rule(s) == g[s] \in Nat /\ \A x \in s : g[s] = Synapses!Magnitude(w[x]) + g[s \ {x}]
           I == {k \in 0 .. n : \A s \in SUBSET S : Cardinality(s) <= k => Rule(s)}
<1>5. Rule({}) /\ g[{}] = 0
  BY <1>3
<1>6. 0 \in I
  <2>1. ASSUME NEW s \in SUBSET S, Cardinality(s) <= 0 PROVE s = {}
    BY <1>1, <2>1, Parts
  <2> HIDE DEF Rule
  <2>2. \A s \in SUBSET S : Cardinality(s) <= 0 => Rule(s)
    BY <1>5, <2>1
  <2> QED
    BY <1>1, <2>2
<1>7. ASSUME NEW k \in 1 .. n, k - 1 \in I PROVE k \in I
  <2>1. ASSUME NEW s \in SUBSET S, Cardinality(s) <= k PROVE Rule(s)
    <3>1. CASE s = {}
      BY <1>5, <3>1
    <3>2. CASE s # {}
      <4>1. PICK y \in s : y = Chosen(s)
        BY <3>2, Choosing
      <4>2. g[s] = Synapses!Magnitude(w[y]) + g[s \ {y}]
        BY <1>3, <3>2, <4>1
      <4>3. ASSUME NEW x \in s PROVE s \ {x} \in SUBSET S /\ Rule(s \ {x})
        <5>1. s \ {x} \in SUBSET S /\ Cardinality(s \ {x}) = Cardinality(s) - 1 /\ Cardinality(s) \in Nat
          BY <1>1, Parts
        <5>2. Cardinality(s \ {x}) <= k - 1
          BY <1>1, <2>1, <5>1
        <5> HIDE DEF Rule
        <5> QED
          BY <1>7, <5>1, <5>2
      <4>4. ASSUME NEW x \in s, x # y PROVE g[s] = Synapses!Magnitude(w[x]) + g[s \ {x}]
        <5>1. PICK r : r = s \ {x, y}
          OBVIOUS
        <5>2. (s \ {y}) \ {x} = r /\ (s \ {x}) \ {y} = r /\ x \in s \ {y} /\ y \in s \ {x} /\ r \in SUBSET S
          BY <4>4, <5>1
        <5>3. g[s \ {y}] = Synapses!Magnitude(w[x]) + g[r] /\ g[s \ {x}] = Synapses!Magnitude(w[y]) + g[r]
          BY <4>3, <5>2
        <5>4. g[s \ {y}] \in Nat /\ g[s \ {x}] \in Nat
          BY <4>3
        <5>5. PICK a \in Nat, b \in Nat : a = Synapses!Magnitude(w[x]) /\ b = Synapses!Magnitude(w[y])
          BY <1>4
        <5>6. g[r] \in Nat
          <6>1. PICK u \in SUBSET S : u = s \ {x} /\ y \in u /\ r = u \ {y}
            BY <4>3, <5>2
          <6>2. Cardinality(u) \in Nat /\ Cardinality(r) = Cardinality(u) - 1
            BY <1>1, <6>1, Parts
          <6>3. Cardinality(s) \in Nat /\ Cardinality(u) = Cardinality(s) - 1
            BY <1>1, <6>1, Parts
          <6>4. /\ Cardinality(u) \in Nat /\ Cardinality(u) = Cardinality(s) - 1
                /\ Cardinality(s) \in Nat /\ Cardinality(r) = Cardinality(u) - 1
            BY <6>2, <6>3
          <6>5. Cardinality(r) <= k - 1
            BY <1>1, <2>1, <6>4
          <6>6. Rule(r)
            BY <1>7, <5>2, <6>5
          <6> QED
            BY <6>6
        <5> QED
          BY <4>2, <5>3, <5>5, <5>6
      <4>5. g[s] \in Nat
        <5>1. g[s \ {y}] \in Nat /\ Synapses!Magnitude(w[y]) \in Nat
          BY <1>4, <4>3
        <5> QED
          BY <4>2, <5>1
      <4> QED
        BY <4>2, <4>4, <4>5
    <3> QED
      BY <3>1, <3>2
  <2>2. k \in 0 .. n
    BY <1>1
  <2> HIDE DEF Rule
  <2> QED
    BY <2>1, <2>2
<1> HIDE DEF I
<1>8. n \in I
  <2>1. \A k \in 0 .. n : k \in I
    BY <1>1, <1>6, <1>7, Induction
  <2> QED
    BY <1>1, <2>1
<1>9. \A s \in SUBSET S : Cardinality(s) <= n
  BY <1>1, Parts DEF n
<1> HIDE DEF Rule
<1>10. \A s \in SUBSET S : Rule(s)
  BY <1>8, <1>9 DEF I
<1> QED
  BY <1>5, <1>10 DEF Rule

\* A sum over a set, element after element.
Enumerates(e, l, S) ==
  /\ \A k \in 1 .. l : e[k] \in S
  /\ \A i, k \in 1 .. l : e[i] = e[k] => i = k
  /\ \A s \in S : \E k \in 1 .. l : e[k] = s
LEMMA SumAlong ==
  ASSUME NEW w, NEW S, Weighs(w, S), NEW l \in Nat, NEW e, Enumerates(e, l, S)
  PROVE  \E h : /\ h[0] = 0 /\ \A k \in 1 .. l : h[k] = h[k - 1] + Synapses!Magnitude(w[e[k]])
                /\ \A k \in 0 .. l : h[k] \in Nat
                /\ SumOf(w, S)[S] = h[l]
<1>1. PICK g : g = SumOf(w, S)
  OBVIOUS
<1>2. g[{}] = 0 /\ \A s \in SUBSET S : g[s] \in Nat /\ \A x \in s : g[s] = Synapses!Magnitude(w[x]) + g[s \ {x}]
  BY <1>1, SumRule
<1> DEFINE T(k) == {e[i] : i \in 1 .. k}
           h == [k \in 0 .. l |-> g[T(k)]]
<1>3. \A k \in 0 .. l : T(k) \in SUBSET S
  BY DEF Enumerates
<1>4. T(0) = {} /\ T(l) = S
  BY DEF Enumerates
<1>5. ASSUME NEW k \in 1 .. l PROVE k \in 0 .. l /\ k - 1 \in 0 .. l /\ e[k] \in T(k) /\ T(k) \ {e[k]} = T(k - 1)
  <2>1. k \in 0 .. l /\ k - 1 \in 0 .. l /\ k \in 1 .. k /\ \A i \in 1 .. k : i = k \/ i \in 1 .. k - 1
    OBVIOUS
  <2>2. \A i \in 1 .. k - 1 : i \in 1 .. k /\ i # k /\ i \in 1 .. l
    OBVIOUS
  <2>3. \A i \in 1 .. k - 1 : e[i] # e[k]
    BY <2>2 DEF Enumerates
  <2> QED
    BY <2>1, <2>2, <2>3
<1> HIDE DEF T
<1>6. h[0] = 0 /\ h[l] = g[S] /\ \A k \in 0 .. l : h[k] \in Nat
  <2>1. 0 \in 0 .. l /\ l \in 0 .. l
    OBVIOUS
  <2>2. \A k \in 0 .. l : h[k] = g[T(k)] /\ g[T(k)] \in Nat
    BY <1>2, <1>3
  <2> HIDE DEF h
  <2> QED
    BY <1>2, <1>4, <2>1, <2>2
<1>7. ASSUME NEW k \in 1 .. l PROVE h[k] = h[k - 1] + Synapses!Magnitude(w[e[k]])
  <2>1. h[k] = g[T(k)] /\ h[k - 1] = g[T(k - 1)]
    BY <1>5
  <2>2. g[T(k)] = Synapses!Magnitude(w[e[k]]) + g[T(k - 1)]
    BY <1>2, <1>3, <1>5
  <2>3. e[k] \in S /\ Synapses!Magnitude(w[e[k]]) \in Nat /\ g[T(k - 1)] \in Nat
    BY <1>2, <1>3, <1>5 DEF Enumerates, Weighs
  <2> HIDE DEF h
  <2> QED
    BY <2>1, <2>2, <2>3
<1> HIDE DEF h
<1> QED
  BY <1>1, <1>6, <1>7

\* The drive of a neuron is the sum along its row.
LEMMA DriveSums ==
  ASSUME NEW m \in Nat, NEW n \in Nat, NEW c, SizeOf(c.src) = m, ConnSound(c, m, n), NEW j \in 0 .. n - 1
  PROVE  LET b == Begin(c, j)  l == End(c, j) - b IN
         \E sum : RowSums(sum, c.vals, b, l) /\ Synapses!Drive(WeightOf(c, m, n), j) = sum[l]
<1>1. PICK b \in Nat, f \in Nat : b = Begin(c, j) /\ f = End(c, j) /\ b <= f
  BY RowBounds
<1>2. PICK l \in Nat : l = f - b
  <2>1. f - b \in Nat
    BY <1>1
  <2> QED
    BY <2>1
<1>3. PICK w : w = WeightOf(c, m, n)
  OBVIOUS
<1>4. DOMAIN w = SynOf(c, m, n) /\ (\A s \in SynOf(c, m, n) : w[s] \in Int) /\ Places(c, m, n)
  BY <1>3, PlacesAre, WeightNumbers
<1>5. \A s \in SynOf(c, m, n) : w[s] = c.vals[PlaceOf(c, m, s)]
  BY <1>3 DEF WeightOf
<1> DEFINE S == {s \in DOMAIN w : s[2] = j}
<1>6. Weighs(w, S)
  <2>1. IsFiniteSet((0 .. m - 1) \X (0 .. n - 1))
    <3>1. IsFiniteSet(0 .. m - 1) /\ IsFiniteSet(0 .. n - 1)
      BY FS_Interval
    <3> QED
      BY <3>1, FS_Product
  <2>2. S \in SUBSET ((0 .. m - 1) \X (0 .. n - 1))
    BY <1>4 DEF Places
  <2>3. IsFiniteSet(S)
    BY <2>1, <2>2, FS_Subset
  <2>4. \A s \in S : Synapses!Magnitude(w[s]) \in Nat
    BY <1>4 DEF Synapses!Magnitude
  <2> QED
    BY <2>3, <2>4 DEF Weighs
<1>7. /\ \A k \in 1 .. l : b + k \in b + 1 .. f
      /\ \A k \in b + 1 .. f : k - b \in 1 .. l /\ b + (k - b) = k
      /\ \A i, k \in 1 .. l : b + i = b + k => i = k
  BY <1>1, <1>2
<1>8. \A k \in 1 .. l : \E s \in S : PlaceOf(c, m, s) = b + k
  <2>1. \A k \in b + 1 .. f : \E s \in SynOf(c, m, n) : s[2] = j /\ PlaceOf(c, m, s) = k
    BY <1>1, <1>4 DEF Places
  <2> QED
    BY <1>4, <1>7, <2>1
<1>9. PICK e : \A k \in 1 .. l : e[k] \in S /\ PlaceOf(c, m, e[k]) = b + k
  <2> DEFINE x == [k \in 1 .. l |-> CHOOSE s \in S : PlaceOf(c, m, s) = b + k]
  <2>1. ASSUME NEW k \in 1 .. l PROVE x[k] \in S /\ PlaceOf(c, m, x[k]) = b + k
    BY <1>8
  <2> HIDE DEF x
  <2> QED
    BY <2>1
<1>10. Enumerates(e, l, S)
  <2>1. \A i, k \in 1 .. l : e[i] = e[k] => i = k
    BY <1>7, <1>9
  <2>2. ASSUME NEW s \in S PROVE \E k \in 1 .. l : e[k] = s
    <3>1. PICK p : p = PlaceOf(c, m, s)
      OBVIOUS
    <3>2. p \in b + 1 .. f
      BY <1>1, <1>4, <3>1 DEF Places
    <3>3. p - b \in 1 .. l /\ b + (p - b) = p
      BY <1>7, <3>2
    <3>4. e[p - b] \in S /\ PlaceOf(c, m, e[p - b]) = PlaceOf(c, m, s)
      BY <1>9, <3>1, <3>3
    <3>5. e[p - b] = s
      BY <1>4, <3>4 DEF Places
    <3> QED
      BY <3>3, <3>5
  <2> QED
    BY <1>9, <2>1, <2>2 DEF Enumerates
<1>11. SumOf(w, S)[S] = Synapses!Drive(w, j)
  BY DriveIs
<1>12. \A k \in 1 .. l : Synapses!Magnitude(w[e[k]]) = Abs(c.vals[b + k])
  BY <1>4, <1>5, <1>9 DEF Synapses!Magnitude, Abs
<1> HIDE DEF S
<1>13. PICK h : /\ h[0] = 0 /\ \A k \in 1 .. l : h[k] = h[k - 1] + Synapses!Magnitude(w[e[k]])
                /\ \A k \in 0 .. l : h[k] \in Nat
                /\ SumOf(w, S)[S] = h[l]
  BY <1>6, <1>10, SumAlong
<1>14. RowSums(h, c.vals, b, l) /\ Synapses!Drive(w, j) = h[l]
  BY <1>11, <1>12, <1>13 DEF RowSums
<1> QED
  BY <1>1, <1>2, <1>3, <1>14

-----------------------------------------------------------------------------
(* What normalize does to the rows.                                         *)

\* The positions after b up to e hold in new what normalize makes of those in old.
RowNormal(new, old, b, e, t) ==
  \E sum, drive :
    /\ RowSums(sum, old, b, e - b) /\ drive = sum[e - b] /\ drive \in Nat
    /\ \A k \in b + 1 .. e : new[k] = IF drive <= t THEN old[k] ELSE Scaled(old[k], t, drive)

\* y is x with those positions normalized, in which it is as old.
MakesNormal(y, x, old, b, e, l, t) ==
  /\ l \in Nat /\ x \in [1 .. l -> Int] /\ b \in Nat /\ e \in Nat /\ b <= e /\ e <= l /\ t \in Nat \ {0}
  /\ y = NormalizedRow(x, b, e, t) /\ \A k \in b + 1 .. e : x[k] = old[k]
LEMMA NormalOf ==
  ASSUME NEW y, NEW x, NEW old, NEW b, NEW e, NEW l, NEW t, MakesNormal(y, x, old, b, e, l, t)
  PROVE  /\ RowNormal(y, old, b, e, t)
         /\ \A k \in 1 .. l : k \notin b + 1 .. e => y[k] = x[k]
<1> USE DEF MakesNormal
<1>1. x \in Seq(Int) /\ Len(x) = l /\ DOMAIN x = 1 .. l
  BY MadeSeq
<1>2. Drives(y, x, b, e, t)
  <2>1. e <= Len(x)
    BY <1>1
  <2> QED
    BY <1>1, <2>1, DriveNumber
<1>3. PICK drive \in Nat :
        /\ \E sum : RowSums(sum, x, b, e - b) /\ drive = sum[e - b]
        /\ y = IF drive <= t THEN x ELSE [k \in DOMAIN x |-> IF k \in b + 1 .. e THEN Scaled(x[k], t, drive) ELSE x[k]]
  BY <1>2 DEF Drives
<1>4. PICK sum : RowSums(sum, x, b, e - b) /\ drive = sum[e - b]
  BY <1>3
<1>5. RowSums(sum, old, b, e - b)
  <2>1. \A k \in 1 .. e - b : b + k \in b + 1 .. e
    OBVIOUS
  <2>2. \A k \in 1 .. e - b : x[b + k] = old[b + k]
    BY <2>1
  <2> QED
    BY <1>4, <2>2 DEF RowSums
<1>6. \A k \in b + 1 .. e : k \in 1 .. l
  OBVIOUS
<1>7. \A k \in b + 1 .. e : y[k] = IF drive <= t THEN old[k] ELSE Scaled(old[k], t, drive)
  BY <1>1, <1>3, <1>6
<1>8. \A k \in 1 .. l : k \notin b + 1 .. e => y[k] = x[k]
  BY <1>1, <1>3
<1> QED
  BY <1>4, <1>5, <1>7, <1>8 DEF RowNormal

\* Row after row is normalized, from the weights it had at first.
LEMMA NormalizedRows ==
  ASSUME NEW m \in Nat, NEW c, SizeOf(c.src) = m, NEW n, n = SizeOf(c.dst), n \in Nat, ConnSound(c, m, n), NEW t \in Nat \ {0}
  PROVE  \E v \in Seq(Int) :
           /\ Len(v) = Len(c.vals) /\ Normalized(c, t) = [c EXCEPT !.vals = v]
           /\ \A j \in 0 .. n - 1 : RowNormal(v, c.vals, Begin(c, j), End(c, j), t)
<1>1. PICK g : NormalizeRuns(g, c, t, n)
  BY NormalizeRun
<1>2. PICK l \in Nat : l = Len(c.vals)
  BY LenProperties DEF ConnSound
<1>3. /\ Normalized(c, t) = [c EXCEPT !.vals = g[n]] /\ g[0] = c.vals
      /\ \A j \in 1 .. n : g[j] = NormalizedRow(g[j - 1], Begin(c, j - 1), End(c, j - 1), t)
      /\ \A j \in 0 .. n : g[j] \in [1 .. l -> Int]
  BY <1>1, <1>2 DEF NormalizeRuns
<1>4. /\ \A i, j \in 0 .. n - 1 : \A k : k \in Begin(c, i) + 1 .. End(c, i) /\ k \in Begin(c, j) + 1 .. End(c, j) => i = j
      /\ \A j \in 0 .. n - 1 : \A k \in Begin(c, j) + 1 .. End(c, j) : k \in 1 .. l
  BY <1>2, RowsFollow, RowsCover
<1> DEFINE Was(j) == \A i \in 0 .. n - 1 :
                       IF i < j THEN RowNormal(g[j], c.vals, Begin(c, i), End(c, i), t)
                       ELSE \A k \in Begin(c, i) + 1 .. End(c, i) : g[j][k] = c.vals[k]
           I == {j \in 0 .. n : Was(j)}
<1>5. 0 \in I
  BY <1>3
<1>6. ASSUME NEW j \in 1 .. n, j - 1 \in I PROVE j \in I
  <2>1. PICK h \in 0 .. n - 1 : h = j - 1 /\ h \in 0 .. n /\ j = h + 1
    <3>1. j - 1 \in 0 .. n - 1 /\ j - 1 \in 0 .. n /\ j = (j - 1) + 1
      OBVIOUS
    <3> QED
      BY <3>1
  <2>2. PICK b, e, x, y : b = Begin(c, h) /\ e = End(c, h) /\ x = g[h] /\ y = g[j]
    OBVIOUS
  <2>3. b \in Nat /\ e \in Nat /\ b <= e /\ e <= l
    BY <1>2, <2>2, RowBounds
  <2>4. x \in [1 .. l -> Int] /\ y = NormalizedRow(x, b, e, t)
    BY <1>3, <2>1, <2>2
  <2>5. Was(h)
    BY <1>6, <2>1
  <2>6. \A k \in b + 1 .. e : x[k] = c.vals[k]
    BY <2>2, <2>5
  <2>7. RowNormal(y, c.vals, b, e, t) /\ \A k \in 1 .. l : k \notin b + 1 .. e => y[k] = x[k]
    <3>1. MakesNormal(y, x, c.vals, b, e, l, t)
      BY <2>3, <2>4, <2>6, Zenon DEF MakesNormal
    <3> QED
      BY <3>1, NormalOf
  <2>8. ASSUME NEW i \in 0 .. n - 1, i # h, NEW k \in Begin(c, i) + 1 .. End(c, i) PROVE y[k] = x[k]
    <3>1. k \in 1 .. l /\ k \notin b + 1 .. e
      BY <1>4, <2>2, <2>8
    <3> QED
      BY <2>7, <3>1
  <2>9. ASSUME NEW i \in 0 .. n - 1, i < j PROVE RowNormal(y, c.vals, Begin(c, i), End(c, i), t)
    <3>1. CASE i = h
      BY <2>2, <2>7, <3>1
    <3>2. CASE i # h
      <4>1. i < h
        BY <2>1, <2>9, <3>2
      <4>2. RowNormal(x, c.vals, Begin(c, i), End(c, i), t)
        BY <2>2, <2>5, <4>1
      <4>3. \A k \in Begin(c, i) + 1 .. End(c, i) : y[k] = x[k]
        BY <2>8, <3>2
      <4> QED
        BY <4>2, <4>3 DEF RowNormal
    <3> QED
      BY <3>1, <3>2
  <2>10. ASSUME NEW i \in 0 .. n - 1, ~(i < j), NEW k \in Begin(c, i) + 1 .. End(c, i) PROVE y[k] = c.vals[k]
    <3>1. i # h /\ ~(i < h)
      BY <2>1, <2>10
    <3>2. x[k] = c.vals[k]
      BY <2>2, <2>5, <3>1
    <3> QED
      BY <2>8, <3>1, <3>2
  <2>11. Was(j)
    BY <2>2, <2>9, <2>10
  <2> HIDE DEF Was
  <2> QED
    BY <2>1, <2>11
<1> HIDE DEF I
<1>7. n \in I
  <2>1. \A j \in 0 .. n : j \in I
    BY <1>5, <1>6, Induction
  <2> QED
    BY <2>1
<1>8. PICK v : v = g[n]
  OBVIOUS
<1>9. v \in Seq(Int) /\ Len(v) = l
  <2>1. v \in [1 .. l -> Int]
    BY <1>3, <1>8
  <2> QED
    BY <2>1, MadeSeq
<1>10. \A j \in 0 .. n - 1 : RowNormal(v, c.vals, Begin(c, j), End(c, j), t)
  <2>1. \A j \in 0 .. n - 1 : j < n
    OBVIOUS
  <2> QED
    BY <1>7, <1>8, <2>1 DEF I
<1> QED
  BY <1>2, <1>3, <1>8, <1>9, <1>10

\* A row has one sum.
LEMMA SumsOne ==
  ASSUME NEW n \in Nat, NEW f, NEW g, NEW vals, NEW b, RowSums(f, vals, b, n), RowSums(g, vals, b, n)
  PROVE  f[n] = g[n]
<1> DEFINE I == {k \in 0 .. n : f[k] = g[k]}
<1>1. 0 \in I
  BY DEF RowSums
<1>2. ASSUME NEW k \in 1 .. n, k - 1 \in I PROVE k \in I
  <2>1. f[k - 1] = g[k - 1] /\ k \in 0 .. n
    BY <1>2
  <2>2. f[k] = f[k - 1] + Abs(vals[b + k]) /\ g[k] = g[k - 1] + Abs(vals[b + k])
    BY DEF RowSums
  <2> QED
    BY <2>1, <2>2
<1> HIDE DEF I
<1>3. \A k \in 0 .. n : k \in I
  BY <1>1, <1>2, Induction
<1>4. n \in 0 .. n
  OBVIOUS
<1> QED
  BY <1>3, <1>4 DEF I

\* What is at most a part of each summand is at most that part of the sum.
LEMMA SumsShrink ==
  ASSUME NEW l \in Nat, NEW f, NEW g, NEW x, NEW y, NEW b, RowSums(f, x, b, l), RowSums(g, y, b, l),
         NEW t \in Nat, NEW d \in Nat, \A k \in 1 .. l : /\ Abs(x[b + k]) \in Nat /\ Abs(y[b + k]) \in Nat
                                                        /\ Abs(y[b + k]) * d <= Abs(x[b + k]) * t
  PROVE  g[l] * d <= f[l] * t
<1> DEFINE I == {k \in 0 .. l : g[k] * d <= f[k] * t}
<1>1. 0 \in I
  <2>1. f[0] = 0 /\ g[0] = 0
    BY DEF RowSums
  <2> QED
    BY <2>1
<1>2. ASSUME NEW k \in 1 .. l, k - 1 \in I PROVE k \in I
  <2>1. k \in 0 .. l /\ k - 1 \in 0 .. l
    OBVIOUS
  <2>2. PICK p \in Nat, q \in Nat : p = f[k - 1] /\ q = g[k - 1]
    BY <2>1 DEF RowSums
  <2>3. PICK u \in Nat, v \in Nat : u = Abs(x[b + k]) /\ v = Abs(y[b + k])
    OBVIOUS
  <2>4. f[k] = p + u /\ g[k] = q + v
    BY <2>2, <2>3 DEF RowSums
  <2>5. q * d <= p * t /\ v * d <= u * t
    BY <1>2, <2>2, <2>3
  <2>6. (q + v) * d <= (p + u) * t
    <3>1. (q + v) * d = q * d + v * d /\ (p + u) * t = p * t + u * t
      OBVIOUS
    <3>2. q * d \in Nat /\ v * d \in Nat /\ p * t \in Nat /\ u * t \in Nat
      OBVIOUS
    <3> QED
      BY <2>5, <3>1, <3>2
  <2> QED
    BY <2>1, <2>4, <2>6
<1> HIDE DEF I
<1>3. \A k \in 0 .. l : k \in I
  BY <1>1, <1>2, Induction
<1>4. l \in 0 .. l
  OBVIOUS
<1> QED
  BY <1>3, <1>4 DEF I

\* A normalized row is driven with the target at most, no weight of it grows or changes its
\* sign, and where the target was kept none changes.
Shrinking(new, old, b, e, t, f, g) ==
  /\ b \in Nat /\ e \in Nat /\ b <= e /\ t \in Nat \ {0}
  /\ RowNormal(new, old, b, e, t)
  /\ \A k \in b + 1 .. e : old[k] \in Int
  /\ RowSums(f, old, b, e - b) /\ RowSums(g, new, b, e - b)

LEMMA RowShrinks ==
  ASSUME NEW old, NEW new, NEW b, NEW e, NEW t, NEW f, NEW g, Shrinking(new, old, b, e, t, f, g)
  PROVE  /\ g[e - b] <= t
         /\ \A k \in b + 1 .. e : Abs(new[k]) <= Abs(old[k]) /\ new[k] * old[k] >= 0
         /\ f[e - b] <= t => \A k \in b + 1 .. e : new[k] = old[k]
<1> USE DEF Shrinking
<1>1. PICK l \in Nat : l = e - b /\ \A k \in 1 .. l : b + k \in b + 1 .. e
  <2>1. e - b \in Nat /\ \A k \in 1 .. e - b : b + k \in b + 1 .. e
    OBVIOUS
  <2> QED
    BY <2>1
<1>2. PICK sum : \E d : RowSums(sum, old, b, l) /\ d = sum[l] /\ d \in Nat
                   /\ \A k \in b + 1 .. e : new[k] = IF d <= t THEN old[k] ELSE Scaled(old[k], t, d)
  BY <1>1 DEF RowNormal
<1>3. PICK d \in Nat : /\ RowSums(sum, old, b, l) /\ d = sum[l]
                       /\ \A k \in b + 1 .. e : new[k] = IF d <= t THEN old[k] ELSE Scaled(old[k], t, d)
  BY <1>2
<1>4. RowSums(f, old, b, l) /\ RowSums(g, new, b, l)
  BY <1>1
<1>5. f[l] = d
  BY <1>3, <1>4, SumsOne
<1>6. PICK q \in Nat : q = g[l]
  BY <1>1, <1>4 DEF RowSums
<1> DEFINE Goal == /\ q <= t
                   /\ \A k \in b + 1 .. e : Abs(new[k]) <= Abs(old[k]) /\ new[k] * old[k] >= 0
                   /\ d <= t => \A k \in b + 1 .. e : new[k] = old[k]
<1>7. ASSUME d <= t PROVE Goal
  <2>1. \A k \in b + 1 .. e : new[k] = old[k]
    BY <1>3, <1>7
  <2>2. RowSums(g, old, b, l)
    BY <1>1, <1>4, <2>1 DEF RowSums
  <2>3. q = d
    BY <1>4, <1>5, <1>6, <2>2, SumsOne
  <2>4. \A x \in Int : Abs(x) <= Abs(x) /\ x * x >= 0
    BY DEF Abs
  <2>5. \A k \in b + 1 .. e : Abs(new[k]) <= Abs(old[k]) /\ new[k] * old[k] >= 0
    BY <2>1, <2>4
  <2> QED
    BY <1>7, <2>1, <2>3, <2>5
<1>8. ASSUME ~(d <= t) PROVE Goal
  <2>1. t < d
    BY <1>8
  <2>2. ASSUME NEW k \in b + 1 .. e
        PROVE  /\ Abs(old[k]) \in Nat /\ Abs(new[k]) \in Nat /\ Abs(new[k]) <= Abs(old[k]) /\ new[k] * old[k] >= 0
               /\ Abs(new[k]) * d <= Abs(old[k]) * t
    <3>1. PICK y : y = new[k]
      OBVIOUS
    <3>2. PICK x \in Int : x = old[k] /\ y = new[k]
      BY <3>1
    <3>3. y = Scaled(x, t, d)
      BY <1>3, <1>8, <3>2
    <3>4. Abs(x) \in Nat /\ Abs(y) \in Nat /\ Abs(y) <= Abs(x) /\ y * x >= 0 /\ Abs(y) * d <= Abs(x) * t
      BY <2>1, <3>3, ScaledLess
    <3> QED
      BY <3>2, <3>4
  <2>3. \A k \in 1 .. l : /\ Abs(old[b + k]) \in Nat /\ Abs(new[b + k]) \in Nat
                          /\ Abs(new[b + k]) * d <= Abs(old[b + k]) * t
    BY <1>1, <2>2
  <2>4. g[l] * d <= f[l] * t
    BY <1>4, <2>3, SumsShrink
  <2>5. q * d <= t * d
    <3>1. q * d <= d * t /\ d * t = t * d
      BY <1>5, <1>6, <2>4
    <3> QED
      BY <3>1
  <2>6. q <= t
    BY <2>1, <2>5, Shrinks
  <2> QED
    BY <1>8, <2>2, <2>6
<1> QED
  BY <1>1, <1>5, <1>6, <1>7, <1>8

\* What normalize promises of the weights.
Normal(v, w, t) ==
  /\ DOMAIN w = DOMAIN v
  /\ \A s \in DOMAIN v :
       /\ Abs(w[s]) <= Abs(v[s]) /\ w[s] * v[s] >= 0
       /\ Synapses!Drive(w, s[2]) <= t
       /\ Synapses!Drive(v, s[2]) <= t => w[s] = v[s]

LEMMA NormalizedWeights ==
  ASSUME GroupShapes(groups), NEW c, ConnShape(c), Fits(c, groups), NEW t \in Targets,
         NEW m, NEW n, m = SizeOf(c.src), n = SizeOf(c.dst), NEW d, d = Normalized(c, t)
  PROVE  Reweighs(d, c) /\ Normal(WeightOf(c, m, n), WeightOf(d, m, n), t)
<1>1. m \in Nat /\ n \in Nat /\ ConnSound(c, m, n) /\ t \in Nat \ {0}
  BY FitsSizes, TargetAssumption
<1>2. PICK x \in Seq(Int) : /\ Len(x) = Len(c.vals) /\ d = [c EXCEPT !.vals = x]
                            /\ \A j \in 0 .. n - 1 : RowNormal(x, c.vals, Begin(c, j), End(c, j), t)
  BY <1>1, NormalizedRows
<1>3. WithValues(d, c, x)
  BY <1>2 DEF WithValues
<1>4. /\ d.kind = c.kind /\ d.src = c.src /\ d.dst = c.dst /\ d.plastic = c.plastic
      /\ d.rowptr = c.rowptr /\ d.cols = c.cols /\ d.vals = x
  BY <1>3, ValuesPut
<1>5. ConnSound(d, m, n)
  <2>1. ConnShape(d) /\ Fits(d, groups)
    BY NormalizedFits DEF Reshaped
  <2> QED
    BY <1>4, <2>1, FitsSizes
<1>6. PICK v, w : v = WeightOf(c, m, n) /\ w = WeightOf(d, m, n)
  OBVIOUS
<1>7. /\ DOMAIN v = SynOf(c, m, n) /\ \A s \in SynOf(c, m, n) : v[s] = c.vals[PlaceOf(c, m, s)]
      /\ DOMAIN w = SynOf(c, m, n) /\ \A s \in SynOf(c, m, n) : w[s] = x[PlaceOf(c, m, s)]
  <2>1. SameRows(c, d)
    BY <1>4 DEF SameRows
  <2>2. w = [s \in SynOf(c, m, n) |-> x[PlaceOf(c, m, s)]]
    BY <1>4, <1>6, <2>1, SameRowsView
  <2> QED
    BY <1>6, <2>2 DEF WeightOf
<1>8. Places(c, m, n)
  BY <1>1, PlacesAre
<1>9. \A k \in 1 .. Len(c.vals) : c.vals[k] \in Int
  <2>1. c.vals \in Seq(Int) /\ DOMAIN c.vals = 1 .. Len(c.vals)
    BY <1>1, LenProperties DEF ConnSound
  <2> QED
    BY <2>1, Element
<1>10. ASSUME NEW s \in SynOf(c, m, n)
       PROVE  /\ Abs(w[s]) <= Abs(v[s]) /\ w[s] * v[s] >= 0
              /\ Synapses!Drive(w, s[2]) <= t
              /\ Synapses!Drive(v, s[2]) <= t => w[s] = v[s]
  <2>1. PICK j \in 0 .. n - 1 : j = s[2]
    BY <1>8 DEF Places
  <2>2. PICK b \in Nat, e \in Nat : b = Begin(c, j) /\ e = End(c, j) /\ b <= e
    BY <1>1, RowBounds
  <2>3. PICK k \in b + 1 .. e : k = PlaceOf(c, m, s)
    BY <1>8, <2>1, <2>2 DEF Places
  <2>4. RowNormal(x, c.vals, b, e, t)
    BY <1>2, <2>2
  <2>5. PICK f : RowSums(f, c.vals, b, e - b) /\ Synapses!Drive(v, j) = f[e - b]
    BY <1>1, <1>6, <2>2, DriveSums
  <2>6. Begin(d, j) = b /\ End(d, j) = e
    BY <1>4, <2>2 DEF Begin, End
  <2>7. PICK g : RowSums(g, x, b, e - b) /\ Synapses!Drive(w, j) = g[e - b]
    <3>1. SizeOf(d.src) = m
      BY <1>4
    <3> QED
      BY <1>1, <1>4, <1>5, <1>6, <2>6, <3>1, DriveSums
  <2>8. \A i \in b + 1 .. e : c.vals[i] \in Int
    <3>1. \A i \in b + 1 .. e : i \in 1 .. Len(c.vals)
      BY <1>1, <2>2, RowsFollow, RowsCover
    <3> QED
      BY <1>9, <3>1
  <2>9. /\ g[e - b] <= t
        /\ \A i \in b + 1 .. e : Abs(x[i]) <= Abs(c.vals[i]) /\ x[i] * c.vals[i] >= 0
        /\ f[e - b] <= t => \A i \in b + 1 .. e : x[i] = c.vals[i]
    <3>1. Shrinking(x, c.vals, b, e, t, f, g)
      BY <1>1, <2>2, <2>4, <2>5, <2>7, <2>8, Zenon DEF Shrinking
    <3> QED
      BY <3>1, RowShrinks
  <2>10. w[s] = x[k] /\ v[s] = c.vals[k]
    BY <1>7, <2>3
  <2> QED
    BY <2>1, <2>5, <2>7, <2>9, <2>10
<1>11. Normal(v, w, t)
  BY <1>7, <1>10 DEF Normal
<1> QED
  BY <1>4, <1>6, <1>11 DEF Reweighs

\* Normalizing bounds every drive, and adds, removes and turns no synapse.
LEMMA NormalizeNormalizes ==
  ASSUME Lists, Shapes, NEW p, NEW t \in Targets, Normalize(p, t)
  PROVE  Synapses!Next
<1>1. PICK c : c = ConnOf(p)
  OBVIOUS
<1>2. PICK d, r : d = Normalized(c, t) /\ r = [op |-> "normalize", pair |-> p, target |-> t]
  OBVIOUS
<1>3. Rewrite(p, d, r)
  BY <1>1, <1>2, Zenon DEF Normalize
<1>4. p \in Pairs
  BY <1>3 DEF Rewrite
<1>5. ConnShape(c) /\ Fits(c, groups) /\ GroupShapes(groups)
  BY <1>1, <1>4, PairSound DEF Shapes
<1>6. PICK m, n : m = SizeOf(c.src) /\ n = SizeOf(c.dst)
  OBVIOUS
<1>7. PICK v, w : v = WeightOf(c, m, n) /\ w = WeightOf(d, m, n)
  OBVIOUS
<1>8. Reweighs(d, c) /\ Normal(v, w, t)
  BY <1>2, <1>5, <1>6, <1>7, NormalizedWeights
<1>9. /\ p \in DOMAIN Wired /\ Wired[p].w = v /\ Wired'[p].w = w /\ Synapses!Updated(p, w)
      /\ last' = r
  BY <1>1, <1>3, <1>6, <1>7, <1>8, RewriteRewires
<1>10. last'.op = "normalize" /\ last'.pair = p /\ last'.target = t
  BY <1>2, <1>9
<1>11. /\ DOMAIN w = DOMAIN v
       /\ \A s \in DOMAIN v :
            /\ Synapses!Magnitude(w[s]) <= Synapses!Magnitude(v[s]) /\ w[s] * v[s] >= 0
            /\ Synapses!Drive(w, s[2]) <= t
            /\ Synapses!Drive(v, s[2]) <= t => w[s] = v[s]
  BY <1>8, Zenon DEF Normal, Abs, Synapses!Magnitude
<1>12. Synapses!Normalize(last')
  BY <1>9, <1>10, <1>11, Zenon DEF Synapses!Normalize
<1> QED
  BY <1>9, <1>10, <1>12 DEF Synapses!Next, Synapses!Step

-----------------------------------------------------------------------------
(* Every step does what Synapses allows.                                    *)

\* Building: a connection is new in place of an old one, the rest is not seen.
LEMMA BuildingConnects == ASSUME Lists, Shapes, Building PROVE Synapses!Next \/ UNCHANGED <<Wired, last>>
<1>1. ASSUME NEW n \in Names, NEW size \in Sizes[n], GroupCreate(n, size) PROVE UNCHANGED <<Wired, last>>
  <2>1. size \in Nat
    BY SizeAssumption
  <2> QED
    BY <1>1, <2>1, GroupsStutter
<1>2. ASSUME NEW src, NEW dst, NEW w, ConfigureStdp(src, dst, w) PROVE UNCHANGED <<Wired, last>>
  BY <1>2, GroupsStutter
<1>3. ASSUME NEW src \in Group, NEW dst \in Group, NEW plastic,
             DenseConnect(src, dst, plastic) \/ SparseConnect(src, dst, plastic) \/ OneToOneConnect(src, dst, plastic)
      PROVE  Synapses!Next
  <2>1. groups' = groups
    BY <1>3, ConnectLinks
  <2>2. PICK c : Link(c) /\ New(c, src, dst)
    BY <1>3, ConnectLinks
  <2>3. ConnShape(c) /\ Fits(c, groups)
    BY <2>2 DEF New
  <2> QED
    BY <2>1, <2>2, <2>3, LinkConnects
<1> QED
  BY <1>1, <1>2, <1>3, Zenon DEF Building

\* The operations of a program.
LEMMA EditSteps == ASSUME Lists, Shapes, Edits PROVE Synapses!Next \/ UNCHANGED <<Wired, last>>
<1>1. CASE Building
  BY <1>1, BuildingConnects
<1>2. ASSUME NEW p, NEW on, SetPlasticity(p, on) PROVE Synapses!Next
  BY <1>2, FlagSwitches
<1>3. ASSUME NEW p, NEW t \in Thresholds, Prune(p, t) PROVE Synapses!Next
  BY <1>3, PrunePrunes
<1>4. ASSUME NEW p, NEW t \in Targets, Normalize(p, t) PROVE Synapses!Next
  BY <1>4, NormalizeNormalizes
<1>5. ASSUME NEW p, NEW pre, NEW post, NEW x \in Weights, Grow(p, pre, post, x) PROVE Synapses!Next
  BY <1>5, GrowGrows
<1> QED
  BY <1>1, <1>2, <1>3, <1>4, <1>5, Zenon DEF Edits

LEMMA NetworkSteps == IInv /\ RInv /\ [Next]_vars => [Synapses!Next]_<<Wired, last>>
<1> SUFFICES ASSUME IInv, RInv, [Next]_vars PROVE Synapses!Next \/ UNCHANGED <<Wired, last>>
  OBVIOUS
<1>1. Lists /\ OnFile /\ Shapes
  BY DEF IInv, RInv
<1>2. CASE Edits
  BY <1>1, <1>2, EditSteps
<1>3. CASE Learns
  BY <1>1, <1>3, LearnLearns DEF Learns
<1>4. CASE SaveBegin \/ LoadEnd
  BY <1>1, <1>4, KeptKeeps
<1>5. CASE SaveWrite \/ SaveEnd \/ LoadBegin \/ Restart \/ UNCHANGED vars
  BY <1>1, <1>5, DiskStutters
<1>6. CASE LoadGroup \/ LoadStdp
  BY <1>1, <1>6, GroupsStutter
<1>7. CASE LoadConn
  <2>1. Link(Stored) /\ groups' = groups
    BY <1>7 DEF LoadConn
  <2>2. ConnShape(Stored) /\ Fits(Stored, groups)
    BY <1>1, <1>7, LoadConnFits
  <2> QED
    BY <1>1, <2>1, <2>2, LinkConnects
<1>8. CASE LoadPanic \/ Crash
  <2>1. \E how : Gone(how)
    BY <1>8 DEF LoadPanic, Crash
  <2> QED
    BY <2>1, GoneForgets
<1> QED
  BY <1>2, <1>3, <1>4, <1>5, <1>6, <1>7, <1>8, Steps DEF Checkpoint

\* The storage of the connections implements the network of synapses it stands for: each
\* operation on the arrays of a connection does to the synapses what it promises, and every
\* other step leaves them alone (ndl_rt.h 147-152 and 157-167, ndl_rt_internal.h 246-251).
THEOREM NetworkImplementsSynapses == Spec => ImplementsSynapses
<1>1. Init => Synapses!Init
  BY InitWires
<1>2. IInv /\ RInv /\ [Next]_vars => [Synapses!Next]_<<Wired, last>>
  BY NetworkSteps
<1> QED
  BY <1>1, <1>2, RestoreInvariant, PTL DEF Spec, ImplementsSynapses, Synapses!Spec
=============================================================================
