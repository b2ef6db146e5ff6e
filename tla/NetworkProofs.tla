---------------------------- MODULE NetworkProofs ----------------------------
(***************************************************************************)
(* Checkpoints of Network: where a save and a load stand in the file, for  *)
(* networks of every size, and a crash at any point of a save.  Sparse     *)
(* storage: that a connect, a growth, a pruning and a normalisation leave  *)
(* every row ascending and within its bounds, for every number of rows.    *)
(***************************************************************************)
EXTENDS Network, SequenceFacts

\* A sequence, whatever its elements.
Listed(s) == s \in Seq({s[i] : i \in DOMAIN s})

\* Where connection i of a file f begins, when the chunks of those before it begin
\* at positions at: after the groups, or after the chunks of the connection before.
Start(f, at, i) == IF i = 1 THEN f[1].groups + 2 ELSE at[i - 1] + ChunksOf(f[at[i - 1]])
Counts(f) == f[1].groups \in Nat /\ f[1].conns \in Nat /\ f[1].stdps \in Nat
Layout(f, at) ==
  /\ Listed(f) /\ f # <<>> /\ Counts(f)
  /\ at \in Seq(Nat \ {0}) /\ Len(at) <= f[1].conns
  /\ \A i \in 1 .. Len(at) : at[i] = Start(f, at, i) /\ at[i] <= Len(f)

\* A file that ends before group i, before connection i, before rule i.
EndsAtGroup(f, at, i) == i \in 1 .. f[1].groups + 1 /\ at = <<>> /\ Len(f) = i
EndsAtConn(f, at, i) ==
  i \in 1 .. f[1].conns + 1 /\ Len(at) = i - 1 /\ Len(f) + 1 = Start(f, at, i)
EndsAtStdp(f, at, i) ==
  i \in 1 .. f[1].stdps + 1 /\ Len(at) = f[1].conns /\ Len(f) + 1 = Start(f, at, Len(at) + 1) + i - 1
\* One that ends in connection i, with left of its chunks still to come.
EndsInConn(f, at, i, left) ==
  /\ i \in 1 .. f[1].conns /\ Len(at) = i /\ Len(f) + 1 + left = at[i] + ChunksOf(f[at[i]])
  /\ left \in {1, 2, 3} /\ (left > 1 => f[at[i]].kind = "sparse")

\* The file ends before item w.
EndsBefore(f, at, w) ==
  \/ \E i \in 1 .. f[1].groups : w = <<"group", i>> /\ EndsAtGroup(f, at, i)
  \/ \E i \in 1 .. f[1].conns :
       \/ w = <<"conn", i>> /\ EndsAtConn(f, at, i)
       \/ w = <<"rowptr", i>> /\ EndsInConn(f, at, i, 3)
       \/ w = <<"cols", i>> /\ EndsInConn(f, at, i, 2)
       \/ w = <<"vals", i>> /\ EndsInConn(f, at, i, 1)
  \/ \E i \in 1 .. f[1].stdps : w = <<"stdp", i>> /\ EndsAtStdp(f, at, i)
  \/ w = Done /\ EndsAtStdp(f, at, f[1].stdps + 1)

\* A load stands before group i, connection i, rule i.
AtGroup(f, at, l, i) == i \in 1 .. f[1].groups + 1 /\ l.at = i + 1
AtConn(f, at, l, i) == i \in 1 .. f[1].conns + 1 /\ i <= Len(at) + 1 /\ l.at = Start(f, at, i)
AtStdp(f, at, l, i) ==
  i \in 1 .. f[1].stdps + 1 /\ Len(at) = f[1].conns /\ l.at = Start(f, at, Len(at) + 1) + i - 1
Stands(f, at, l) ==
  /\ l.at <= Len(f) + 1
  /\ \/ \E i \in 1 .. f[1].groups : l.item = <<"group", i>> /\ AtGroup(f, at, l, i)
     \/ \E i \in 1 .. f[1].conns : l.item = <<"conn", i>> /\ AtConn(f, at, l, i)
     \/ \E i \in 1 .. f[1].stdps : l.item = <<"stdp", i>> /\ AtStdp(f, at, l, i)
     \/ l.item = Done /\ AtStdp(f, at, l, f[1].stdps + 1)

-----------------------------------------------------------------------------
(* The inductive invariant.                                                 *)

Lists == Listed(groups) /\ Listed(conns) /\ Listed(stdps)
ImageShape == image = [complete |-> image.complete, learned |-> image.learned, groups |-> image.groups,
                       conns |-> image.conns, stdps |-> image.stdps]
Filed(at, w) ==
  /\ Layout(file, at) /\ EndsBefore(file, at, w)
  /\ image.complete <=> w = Done
  /\ saving # Idle => saving = w
  /\ loading # NoLoad => Stands(file, at, loading)
OnFile ==
  /\ saving # Idle \/ loading # NoLoad => file # <<>>
  /\ saving # Idle => loading = NoLoad /\ file[1].groups = Len(groups)
                      /\ file[1].conns = Len(conns) /\ file[1].stdps = Len(stdps)
  /\ file # <<>> => \E at, w : Filed(at, w)
IInv == Lists /\ ImageShape /\ OnFile /\ LoadIsWhole

-----------------------------------------------------------------------------
(* Sequences.                                                               *)

LEMMA ListedLen == ASSUME NEW s, Listed(s) PROVE Len(s) \in Nat /\ DOMAIN s = 1 .. Len(s)
  BY LenProperties DEF Listed

LEMMA SeqListed == ASSUME NEW S, NEW s \in Seq(S) PROVE Listed(s)
<1>1. Len(s) \in Nat /\ DOMAIN s = 1 .. Len(s) /\ s = [i \in 1 .. Len(s) |-> s[i]]
  BY LenProperties
<1> QED
  BY <1>1 DEF Listed

\* What is given position by position is a sequence.
LEMMA MadeListed ==
  ASSUME NEW n \in Nat, NEW s, s = [i \in 1 .. n |-> s[i]]
  PROVE  Listed(s) /\ Len(s) = n
  BY DEF Listed

LEMMA ExceptListed ==
  ASSUME NEW s, Listed(s), NEW i, NEW x
  PROVE  Listed([s EXCEPT ![i] = x]) /\ Len([s EXCEPT ![i] = x]) = Len(s)
<1> DEFINE t == [s EXCEPT ![i] = x]
<1>1. Len(s) \in Nat /\ DOMAIN s = 1 .. Len(s)
  BY ListedLen
<1>2. t = [k \in 1 .. Len(s) |-> t[k]]
  BY <1>1
<1> HIDE DEF t
<1>3. Listed(t) /\ Len(t) = Len(s)
  BY <1>1, <1>2, MadeListed
<1> QED
  BY <1>3 DEF t

LEMMA AppendListed ==
  ASSUME NEW s, Listed(s), NEW x
  PROVE  /\ Listed(Append(s, x)) /\ Len(Append(s, x)) = Len(s) + 1 /\ Append(s, x) # <<>>
         /\ \A i \in 1 .. Len(s) : Append(s, x)[i] = s[i]
         /\ Append(s, x)[Len(s) + 1] = x
<1> DEFINE S == {s[i] : i \in DOMAIN s} \cup {x}
<1>1. s \in Seq(S) /\ x \in S
  BY DEF Listed
<1> HIDE DEF S
<1>2. /\ Append(s, x) \in Seq(S) /\ Len(Append(s, x)) = Len(s) + 1 /\ Append(s, x) # <<>>
      /\ \A i \in 1 .. Len(s) : Append(s, x)[i] = s[i]
      /\ Append(s, x)[Len(s) + 1] = x
  BY <1>1, AppendProperties
<1> QED
  BY <1>2, SeqListed

-----------------------------------------------------------------------------
(* Connections.                                                             *)

\* find_conn: the position of a connection of the pair, or 0 if there is none.
LEMMA Finds ==
  ASSUME Listed(conns), NEW src, NEW dst
  PROVE  LET i == FindConn(src, dst) IN
         /\ i \in 0 .. Len(conns)
         /\ i # 0 => conns[i].src = src /\ conns[i].dst = dst
         /\ i = 0 => \A k \in 1 .. Len(conns) : ~(conns[k].src = src /\ conns[k].dst = dst)
<1> DEFINE I == {k \in 1 .. Len(conns) : conns[k].src = src /\ conns[k].dst = dst}
<1>1. FindConn(src, dst) = IF I # {} THEN Min(I) ELSE 0
  BY DEF FindConn, SelectInSeq
<1>2. Len(conns) \in Nat
  BY ListedLen
<1>3. I # {} => Min(I) \in I
  BY <1>2, LeastNumber
<1> QED
  BY <1>1, <1>2, <1>3

\* drop_conns: what is left is a sequence of connections that were there.
LEMMA Drops ==
  ASSUME Listed(conns), NEW src, NEW dst
  PROVE  Listed(DropConns(src, dst))
<1> DEFINE i == FindConn(src, dst)
           S == {conns[k] : k \in DOMAIN conns}
<1>1. i \in 0 .. Len(conns) /\ Len(conns) \in Nat /\ DOMAIN conns = 1 .. Len(conns) /\ conns \in Seq(S)
  BY Finds, ListedLen DEF Listed
<1> HIDE DEF i
<1>2. CASE i = 0
  BY <1>2 DEF DropConns, i
<1>3. CASE i # 0
  <2>1. SubSeq(conns, 1, i - 1) \in Seq(S)
    BY <1>1, <1>3, SubSeqProperties
  <2>2. SubSeq(conns, i + 1, Len(conns)) \in Seq(S)
    BY <1>1, <1>3, SubSeqProperties
  <2>3. DropConns(src, dst) \in Seq(S)
    BY <1>3, <2>1, <2>2, ConcatProperties DEF DropConns, RemoveAt, i
  <2> QED
    BY <2>3, SeqListed
<1> QED
  BY <1>2, <1>3

-----------------------------------------------------------------------------
(* The shape of a file.                                                     *)

\* Where a connection begins is a number.
LEMMA StartNumber ==
  ASSUME NEW f, NEW at, Layout(f, at)
  PROVE  Len(at) \in Nat /\ \A i \in 1 .. Len(at) + 1 : Start(f, at, i) \in Nat
<1>1. Len(at) \in Nat /\ \A i \in 1 .. Len(at) : at[i] \in Nat
  BY LenProperties, ElementOfSeq DEF Layout
<1>2. \A i \in 1 .. Len(at) + 1 : i = 1 \/ i - 1 \in 1 .. Len(at)
  BY <1>1
<1> QED
  BY <1>1, <1>2 DEF Layout, Counts, Start, ChunksOf

\* The walks of save and load end a section where the next one begins.
LEMMA BeforeStdp ==
  ASSUME NEW f, NEW at, Layout(f, at), NEW i, EndsAtStdp(f, at, i)
  PROVE  EndsBefore(f, at, StdpItem(f[1], i))
<1>1. f[1].stdps \in Nat /\ i \in 1 .. f[1].stdps + 1
  BY DEF Layout, Counts, EndsAtStdp
<1>2. CASE i <= f[1].stdps
  BY <1>1, <1>2 DEF StdpItem, EndsBefore
<1>3. CASE i = f[1].stdps + 1
  BY <1>1, <1>3 DEF StdpItem, EndsBefore
<1> QED
  BY <1>1, <1>2, <1>3

LEMMA BeforeConn ==
  ASSUME NEW f, NEW at, Layout(f, at), NEW i, EndsAtConn(f, at, i)
  PROVE  EndsBefore(f, at, ConnItem(f[1], i))
<1>1. /\ f[1].conns \in Nat /\ f[1].stdps \in Nat /\ i \in 1 .. f[1].conns + 1
      /\ Len(at) = i - 1 /\ Len(f) + 1 = Start(f, at, i) /\ Len(f) \in Nat
  BY ListedLen DEF Layout, Counts, EndsAtConn
<1>2. CASE i <= f[1].conns
  BY <1>1, <1>2 DEF ConnItem, EndsBefore
<1>3. CASE i = f[1].conns + 1
  <2>1. Len(at) = f[1].conns /\ Len(at) + 1 = i
    BY <1>1, <1>3
  <2>2. EndsAtStdp(f, at, 1)
    BY <1>1, <2>1 DEF EndsAtStdp
  <2>3. ConnItem(f[1], i) = StdpItem(f[1], 1)
    BY <1>1, <1>3 DEF ConnItem
  <2> QED
    BY <2>2, <2>3, BeforeStdp
<1> QED
  BY <1>1, <1>2, <1>3

LEMMA BeforeGroup ==
  ASSUME NEW f, NEW at, Layout(f, at), NEW i, EndsAtGroup(f, at, i)
  PROVE  EndsBefore(f, at, GroupItem(f[1], i))
<1>1. /\ f[1].groups \in Nat /\ f[1].conns \in Nat /\ i \in 1 .. f[1].groups + 1
      /\ at = <<>> /\ Len(f) = i
  BY DEF Layout, Counts, EndsAtGroup
<1>2. CASE i <= f[1].groups
  BY <1>1, <1>2 DEF GroupItem, EndsBefore
<1>3. CASE i = f[1].groups + 1
  <2>1. EndsAtConn(f, at, 1)
    BY <1>1, <1>3 DEF EndsAtConn, Start
  <2>2. GroupItem(f[1], i) = ConnItem(f[1], 1)
    BY <1>1, <1>3 DEF GroupItem
  <2> QED
    BY <2>1, <2>2, BeforeConn
<1> QED
  BY <1>1, <1>2, <1>3

LEMMA StandsStdp ==
  ASSUME NEW f, NEW at, Layout(f, at), NEW l, l.at <= Len(f) + 1,
         NEW i, AtStdp(f, at, l, i), l.item = StdpItem(f[1], i)
  PROVE  Stands(f, at, l)
<1>1. f[1].stdps \in Nat /\ i \in 1 .. f[1].stdps + 1
  BY DEF Layout, Counts, AtStdp
<1>2. CASE i <= f[1].stdps
  BY <1>1, <1>2 DEF StdpItem, Stands
<1>3. CASE i = f[1].stdps + 1
  BY <1>1, <1>3 DEF StdpItem, Stands
<1> QED
  BY <1>1, <1>2, <1>3

LEMMA StandsConn ==
  ASSUME NEW f, NEW at, Layout(f, at), NEW l, l.at <= Len(f) + 1,
         NEW i, AtConn(f, at, l, i), l.item = ConnItem(f[1], i)
  PROVE  Stands(f, at, l)
<1>1. /\ f[1].conns \in Nat /\ f[1].stdps \in Nat /\ i \in 1 .. f[1].conns + 1
      /\ i <= Len(at) + 1 /\ l.at = Start(f, at, i) /\ Len(at) \in Nat /\ Len(at) <= f[1].conns
  BY LenProperties DEF Layout, Counts, AtConn
<1>2. CASE i <= f[1].conns
  BY <1>1, <1>2 DEF ConnItem, Stands
<1>3. CASE i = f[1].conns + 1
  <2>1. Len(at) = f[1].conns /\ Len(at) + 1 = i
    BY <1>1, <1>3
  <2>2. Start(f, at, Len(at) + 1) \in Int
    BY <1>1, <2>1, ListedLen, ElementOfSeq DEF Layout, Counts, Start, ChunksOf
  <2>3. AtStdp(f, at, l, 1)
    BY <1>1, <2>1, <2>2 DEF AtStdp
  <2>4. ConnItem(f[1], i) = StdpItem(f[1], 1)
    BY <1>1, <1>3 DEF ConnItem
  <2> QED
    BY <2>3, <2>4, StandsStdp
<1> QED
  BY <1>1, <1>2, <1>3

LEMMA StandsGroup ==
  ASSUME NEW f, NEW at, Layout(f, at), NEW l, l.at <= Len(f) + 1,
         NEW i, AtGroup(f, at, l, i), l.item = GroupItem(f[1], i)
  PROVE  Stands(f, at, l)
<1>1. /\ f[1].groups \in Nat /\ f[1].conns \in Nat /\ i \in 1 .. f[1].groups + 1
      /\ l.at = i + 1 /\ Len(at) \in Nat
  BY LenProperties DEF Layout, Counts, AtGroup
<1>2. CASE i <= f[1].groups
  BY <1>1, <1>2 DEF GroupItem, Stands
<1>3. CASE i = f[1].groups + 1
  <2>1. AtConn(f, at, l, 1)
    BY <1>1, <1>3 DEF AtConn, Start
  <2>2. GroupItem(f[1], i) = ConnItem(f[1], 1)
    BY <1>1, <1>3 DEF GroupItem
  <2> QED
    BY <2>1, <2>2, StandsConn
<1> QED
  BY <1>1, <1>2, <1>3

\* A chunk more leaves what stands before it where it was.
LEMMA Extended ==
  ASSUME NEW f, NEW at, Layout(f, at), NEW c
  PROVE  LET g == Append(f, c) IN
         /\ Layout(g, at) /\ Len(g) = Len(f) + 1 /\ g[1] = f[1] /\ g[Len(f) + 1] = c
         /\ \A i \in 1 .. Len(at) : g[at[i]] = f[at[i]]
         /\ \A i \in 1 .. Len(at) + 1 : Start(g, at, i) = Start(f, at, i)
<1> DEFINE g == Append(f, c)
<1>1. /\ Listed(g) /\ Len(g) = Len(f) + 1 /\ g # <<>> /\ g[Len(f) + 1] = c
      /\ \A i \in 1 .. Len(f) : g[i] = f[i]
  BY AppendListed DEF Layout
<1> HIDE DEF g
<1>2. Len(f) \in Nat /\ Len(f) >= 1 /\ Len(at) \in Nat /\ f # <<>>
  BY ListedLen, LenProperties, EmptySeq DEF Layout, Listed
<1>3. \A i \in 1 .. Len(at) : at[i] \in 1 .. Len(f)
  BY <1>2, ElementOfSeq DEF Layout
<1>4. g[1] = f[1] /\ \A i \in 1 .. Len(at) : g[at[i]] = f[at[i]]
  BY <1>1, <1>2, <1>3
<1>5. \A i \in 1 .. Len(at) + 1 : Start(g, at, i) = Start(f, at, i)
  <2> SUFFICES ASSUME NEW i \in 1 .. Len(at) + 1 PROVE Start(g, at, i) = Start(f, at, i)
    OBVIOUS
  <2>1. i # 1 => i - 1 \in 1 .. Len(at)
    BY <1>2
  <2> QED
    BY <1>4, <2>1 DEF Start
<1>6. Layout(g, at)
  <2>1. \A i \in 1 .. Len(at) : at[i] = Start(g, at, i) /\ at[i] <= Len(g)
    BY <1>1, <1>2, <1>3, <1>5 DEF Layout
  <2> QED
    BY <1>1, <1>4, <2>1 DEF Layout, Counts
<1> QED
  BY <1>1, <1>4, <1>5, <1>6 DEF g

\* The first chunk of a connection.
LEMMA Begins ==
  ASSUME NEW f, NEW at, Layout(f, at), NEW i, EndsAtConn(f, at, i), i <= f[1].conns, NEW c
  PROVE  LET g == Append(f, c)  b == Append(at, Len(f) + 1) IN
         /\ Layout(g, b) /\ g[1] = f[1]
         /\ EndsInConn(g, b, i, ChunksOf(c) - 1)
<1> DEFINE g == Append(f, c)
           b == Append(at, Len(f) + 1)
<1>1. /\ Layout(g, at) /\ Len(g) = Len(f) + 1 /\ g[1] = f[1] /\ g[Len(f) + 1] = c
      /\ \A k \in 1 .. Len(at) : g[at[k]] = f[at[k]]
      /\ \A k \in 1 .. Len(at) + 1 : Start(g, at, k) = Start(f, at, k)
  BY Extended
<1>2. /\ Len(f) \in Nat /\ Len(at) \in Nat /\ Len(at) = i - 1 /\ i \in 1 .. f[1].conns
      /\ Len(f) + 1 = Start(f, at, i) /\ f[1].conns \in Nat
  BY ListedLen, LenProperties DEF Layout, EndsAtConn, Counts
<1> HIDE DEF g
<1>3. /\ b \in Seq(Nat \ {0}) /\ Len(b) = i /\ b[i] = Len(f) + 1
      /\ \A k \in 1 .. Len(at) : b[k] = at[k]
  BY <1>2, AppendProperties DEF Layout
<1> HIDE DEF b
<1>4. \A k \in 1 .. i : Start(g, b, k) = Start(f, at, k)
  <2> SUFFICES ASSUME NEW k \in 1 .. i PROVE Start(g, b, k) = Start(f, at, k)
    OBVIOUS
  <2>1. k # 1 => k - 1 \in 1 .. Len(at)
    BY <1>2
  <2> QED
    BY <1>1, <1>3, <2>1 DEF Start
<1>5. \A k \in 1 .. i : b[k] = Start(g, b, k) /\ b[k] <= Len(g)
  <2> SUFFICES ASSUME NEW k \in 1 .. i PROVE b[k] = Start(g, b, k) /\ b[k] <= Len(g)
    OBVIOUS
  <2>1. CASE k = i
    BY <1>1, <1>2, <1>3, <1>4, <2>1
  <2>2. CASE k \in 1 .. Len(at)
    <3>1. at[k] = Start(f, at, k) /\ at[k] <= Len(f) /\ at[k] \in Nat
      BY <2>2, ElementOfSeq DEF Layout
    <3> QED
      BY <1>1, <1>2, <1>3, <1>4, <2>2, <3>1
  <2> QED
    BY <1>2, <2>1, <2>2
<1>6. Layout(g, b)
  BY <1>1, <1>2, <1>3, <1>5 DEF Layout
<1>7. EndsInConn(g, b, i, ChunksOf(c) - 1)
  <2>1. g[b[i]] = c /\ ChunksOf(c) \in {2, 4} /\ (ChunksOf(c) = 4 => c.kind = "sparse")
    BY <1>1, <1>3 DEF ChunksOf
  <2>2. Len(g) + 1 + (ChunksOf(c) - 1) = b[i] + ChunksOf(g[b[i]])
    BY <1>1, <1>2, <1>3, <2>1
  <2> QED
    BY <1>1, <1>2, <1>3, <2>1, <2>2 DEF EndsInConn
<1> QED
  BY <1>1, <1>6, <1>7 DEF g, b

\* A chunk that goes on with it, and the one that completes it.
LEMMA GoesOn ==
  ASSUME NEW f, NEW at, Layout(f, at), NEW i, NEW left, EndsInConn(f, at, i, left), NEW c
  PROVE  LET g == Append(f, c) IN
         /\ Layout(g, at) /\ g[1] = f[1]
         /\ left > 1 => EndsInConn(g, at, i, left - 1)
         /\ left = 1 => EndsAtConn(g, at, i + 1)
<1> DEFINE g == Append(f, c)
<1>1. /\ Layout(g, at) /\ Len(g) = Len(f) + 1 /\ g[1] = f[1] /\ g[Len(f) + 1] = c
      /\ \A k \in 1 .. Len(at) : g[at[k]] = f[at[k]]
      /\ \A k \in 1 .. Len(at) + 1 : Start(g, at, k) = Start(f, at, k)
  BY Extended
<1> HIDE DEF g
<1>2. /\ i \in 1 .. f[1].conns /\ Len(at) = i /\ Len(f) + 1 + left = at[i] + ChunksOf(f[at[i]])
      /\ left \in {1, 2, 3} /\ (left > 1 => f[at[i]].kind = "sparse")
      /\ Len(f) \in Nat /\ f[1].conns \in Nat /\ at[i] \in Nat
  BY ListedLen, ElementOfSeq DEF Layout, EndsInConn, Counts
<1>3. g[at[i]] = f[at[i]] /\ ChunksOf(f[at[i]]) \in Nat
  BY <1>1, <1>2 DEF ChunksOf
<1>4. ASSUME left > 1 PROVE EndsInConn(g, at, i, left - 1)
  BY <1>1, <1>2, <1>3, <1>4 DEF EndsInConn
<1>5. ASSUME left = 1 PROVE EndsAtConn(g, at, i + 1)
  <2>1. Start(g, at, i + 1) = at[i] + ChunksOf(f[at[i]])
    BY <1>2, <1>3 DEF Start
  <2> QED
    BY <1>1, <1>2, <1>3, <1>5, <2>1 DEF EndsAtConn
<1> QED
  BY <1>1, <1>4, <1>5 DEF g

-----------------------------------------------------------------------------
(* Memory: groups, connections and rules stay sequences.                    *)

LEMMA WindowListed ==
  ASSUME Listed(groups), NEW src, NEW dst, NEW window
  PROVE  Listed(WindowSet(groups, src, dst, window)) /\ Len(WindowSet(groups, src, dst, window)) = Len(groups)
<1> DEFINE t == WindowSet(groups, src, dst, window)
<1>1. Len(groups) \in Nat /\ DOMAIN groups = 1 .. Len(groups)
  BY ListedLen
<1>2. t = [g \in 1 .. Len(groups) |-> t[g]]
  BY <1>1 DEF WindowSet
<1> HIDE DEF t
<1>3. Listed(t) /\ Len(t) = Len(groups)
  BY <1>1, <1>2, MadeListed
<1> QED
  BY <1>3 DEF t

LEMMA ConfiguredListed ==
  ASSUME Listed(stdps), NEW src, NEW dst, NEW window
  PROVE  Listed(Configured(stdps, src, dst, window))
<1> DEFINE i == SelectInSeq(stdps, LAMBDA c : c.src = src /\ c.dst = dst)
           x == [stdps[i] EXCEPT !.window = window]
<1>1. Listed([stdps EXCEPT ![i] = x])
  BY ExceptListed
<1>2. Listed(Append(stdps, [src |-> src, dst |-> dst, window |-> window]))
  BY AppendListed
<1> QED
  BY <1>1, <1>2 DEF Configured

LEMMA LinkListed ==
  ASSUME Lists, NEW c, conns' = Append(DropConns(c.src, c.dst), c)
  PROVE  Listed(conns')
  BY Drops, AppendListed DEF Lists

\* The operations of a program that neither save nor load nor tick.
Edits ==
  \/ Building
  \/ \E p \in Pairs :
       \/ \E on \in BOOLEAN : SetPlasticity(p, on)
       \/ \E t \in Thresholds : Prune(p, t)
       \/ \E t \in Targets : Normalize(p, t)
       \/ \E pre \in PreLists, post \in PostLists, x \in Weights : Grow(p, pre, post, x)
Learns == \E p \in Pairs : \E k \in DOMAIN ConnOf(p).vals, x \in Weights, v \in {1} : Learn(p, k, x, v)

LEMMA Steps == [Next]_vars => Edits \/ Learns \/ Checkpoint \/ Crash \/ Restart \/ UNCHANGED vars
  BY DEF Next, Plasticity, Edits, Learns

LEMMA EditLists == ASSUME Lists, Edits PROVE Lists'
<1>1. ASSUME NEW n, NEW size, GroupCreate(n, size) PROVE Lists'
  BY <1>1, AppendListed DEF GroupCreate, Lists
<1>2. ASSUME NEW src, NEW dst, NEW plastic,
             DenseConnect(src, dst, plastic) \/ SparseConnect(src, dst, plastic) \/ OneToOneConnect(src, dst, plastic)
      PROVE  Lists'
  <2>1. UNCHANGED <<groups, stdps>> /\ \E c : conns' = Append(DropConns(c.src, c.dst), c)
    BY <1>2 DEF DenseConnect, SparseConnect, OneToOneConnect, Link
  <2>2. Listed(conns')
    BY <2>1, LinkListed
  <2> QED
    BY <2>1, <2>2 DEF Lists
<1>3. ASSUME NEW src, NEW dst, NEW w, ConfigureStdp(src, dst, w) PROVE Lists'
  BY <1>3, WindowListed, ConfiguredListed DEF ConfigureStdp, Lists
<1>4. ASSUME NEW p, NEW c, NEW request, Rewrite(p, c, request) PROVE Lists'
  BY <1>4, ExceptListed DEF Rewrite, Lists
<1>5. CASE Building
  BY <1>1, <1>2, <1>3, <1>5 DEF Building
<1>6. ASSUME NEW p, NEW on, SetPlasticity(p, on) PROVE Lists'
  BY <1>4, <1>6 DEF SetPlasticity
<1>7. ASSUME NEW p, NEW t, Prune(p, t) \/ Normalize(p, t) PROVE Lists'
  BY <1>4, <1>7 DEF Prune, Normalize
<1>8. ASSUME NEW p, NEW pre, NEW post, NEW x, Grow(p, pre, post, x) PROVE Lists'
  BY <1>4, <1>8 DEF Grow
<1> QED
  BY <1>5, <1>6, <1>7, <1>8 DEF Edits

LEMMA LearnLists ==
  ASSUME Lists, Learns
  PROVE  Lists' /\ Len(groups') = Len(groups) /\ Len(conns') = Len(conns) /\ Len(stdps') = Len(stdps)
<1>1. PICK p, k, x, v : Learn(p, k, x, v)
  BY DEF Learns
<1> DEFINE i == FindConn(p[1], p[2])
           c == [conns[i] EXCEPT !.vals = [@ EXCEPT ![k] = x]]
           g == [groups[p[2]] EXCEPT !.v = v]
<1>2. conns' = [conns EXCEPT ![i] = c] /\ groups' = [groups EXCEPT ![p[2]] = g] /\ stdps' = stdps
  BY <1>1 DEF Learn
<1> HIDE DEF i, c, g
<1> QED
  BY <1>2, ExceptListed DEF Lists

-----------------------------------------------------------------------------
(* The file: what each step does to it, and where it leaves save and load.  *)

\* What an edit does not touch.
Quiet == /\ saving = Idle /\ UNCHANGED <<file, saving, loading, image>>
         /\ last' = last \/ last'.op # "load"

LEMMA EditDisk == ASSUME Edits PROVE Quiet
<1>1. ASSUME NEW n, NEW size, GroupCreate(n, size) PROVE Quiet
  BY <1>1 DEF GroupCreate, MainFree, diskVars, Quiet
<1>2. ASSUME NEW src, NEW dst, NEW plastic,
             DenseConnect(src, dst, plastic) \/ SparseConnect(src, dst, plastic) \/ OneToOneConnect(src, dst, plastic)
      PROVE  Quiet
  <2>1. MainFree /\ UNCHANGED diskVars /\ \E c : last' = [op |-> "connect", pair |-> <<c.src, c.dst>>, conn |-> View(c)]
    BY <1>2 DEF DenseConnect, SparseConnect, OneToOneConnect, Link
  <2> QED
    BY <2>1 DEF MainFree, diskVars, Quiet
<1>3. ASSUME NEW src, NEW dst, NEW w, ConfigureStdp(src, dst, w) PROVE Quiet
  BY <1>3 DEF ConfigureStdp, MainFree, diskVars, Quiet
<1>4. ASSUME NEW p, NEW c, NEW request, Rewrite(p, c, request), request.op # "load" PROVE Quiet
  BY <1>4 DEF Rewrite, Unlocked, diskVars, Quiet
<1>5. ASSUME Building PROVE Quiet
  BY <1>1, <1>2, <1>3, <1>5 DEF Building
<1>6. ASSUME NEW p, NEW on, SetPlasticity(p, on) PROVE Quiet
  BY <1>4, <1>6 DEF SetPlasticity
<1>7. ASSUME NEW p, NEW t, Prune(p, t) \/ Normalize(p, t) PROVE Quiet
  BY <1>4, <1>7 DEF Prune, Normalize
<1>8. ASSUME NEW p, NEW pre, NEW post, NEW x, Grow(p, pre, post, x) PROVE Quiet
  BY <1>4, <1>8 DEF Grow
<1> QED
  BY <1>5, <1>6, <1>7, <1>8 DEF Edits

LEMMA LearnDisk ==
  ASSUME ImageShape, Learns
  PROVE  /\ UNCHANGED <<file, saving, loading>> /\ image'.complete = image.complete
         /\ ImageShape' /\ last'.op # "load"
<1>1. PICK p, k, x, v : Learn(p, k, x, v)
  BY DEF Learns
<1>2. /\ UNCHANGED <<file, saving, loading>> /\ last' = [op |-> "learn", pair |-> p, weight |-> x]
      /\ image' = [image EXCEPT !.learned = @ \/ saving # Idle]
  BY <1>1 DEF Learn
<1> QED
  BY <1>2 DEF ImageShape

\* Nothing is lost that neither writes, reads nor, during a save, grows.
LEMMA OnFileStays ==
  ASSUME OnFile, UNCHANGED <<file, saving, loading>>, image'.complete = image.complete,
         saving # Idle => Len(groups') = Len(groups) /\ Len(conns') = Len(conns) /\ Len(stdps') = Len(stdps)
  PROVE  OnFile'
  BY DEF OnFile, Filed

LEMMA SaveBeginFile == ASSUME Lists, SaveBegin PROVE OnFile' /\ ImageShape' /\ LoadIsWhole'
<1>1. /\ saving = Idle /\ loading = NoLoad /\ loading' = NoLoad
      /\ file' = <<Header>> /\ saving' = GroupItem(Header, 1) /\ UNCHANGED <<groups, conns, stdps>>
      /\ image' = [complete |-> saving' = Done, learned |-> FALSE, groups |-> groups, conns |-> conns, stdps |-> stdps]
      /\ last' = [op |-> "save"]
  BY DEF SaveBegin, MainFree
<1>2. Header = file'[1] /\ Len(file') = 1 /\ file' # <<>> /\ Listed(file')
  BY <1>1 DEF Listed
<1>3. /\ Header.groups = Len(groups) /\ Header.conns = Len(conns) /\ Header.stdps = Len(stdps)
      /\ Len(groups) \in Nat /\ Len(conns) \in Nat /\ Len(stdps) \in Nat
  BY ListedLen DEF Header, Lists
<1>4. Layout(file', <<>>)
  BY <1>2, <1>3 DEF Layout, Counts
<1>5. EndsBefore(file', <<>>, saving')
  <2>1. EndsAtGroup(file', <<>>, 1)
    BY <1>2, <1>3 DEF EndsAtGroup
  <2> QED
    BY <1>1, <1>2, <1>4, <2>1, BeforeGroup
<1>6. \E at, w : Filed(at, w)'
  <2>1. PICK w : w = saving'
    OBVIOUS
  <2>2. Filed(<<>>, w)'
    BY <1>1, <1>4, <1>5, <2>1 DEF Filed
  <2> QED
    BY <2>2
<1>7. OnFile'
  BY <1>1, <1>2, <1>3, <1>6 DEF OnFile
<1> QED
  BY <1>1, <1>7 DEF ImageShape, LoadIsWhole

\* A chunk takes the file to where the next item begins; that of a connection is where it begins.
NextAt(at, w) == IF w[1] = "conn" THEN Append(at, Len(file) + 1) ELSE at
LEMMA SaveWriteEnds ==
  ASSUME NEW at, NEW w, Layout(file, at), EndsBefore(file, at, w), w # Done,
         file[1].groups = Len(groups), file[1].conns = Len(conns), file[1].stdps = Len(stdps)
  PROVE  /\ Layout(Append(file, Chunk(w)), NextAt(at, w))
         /\ EndsBefore(Append(file, Chunk(w)), NextAt(at, w), Following(w))
<1> DEFINE c == Chunk(w)
           g == Append(file, c)
           h == file[1]
<1>1. /\ \A i : GroupItem(Header, i) = GroupItem(h, i) /\ ConnItem(Header, i) = ConnItem(h, i)
      /\ \A i : StdpItem(Header, i) = StdpItem(h, i)
  BY DEF Header, GroupItem, ConnItem, StdpItem
<1>2. /\ Layout(g, at) /\ Len(g) = Len(file) + 1 /\ g[1] = file[1] /\ g[Len(file) + 1] = c
      /\ \A i \in 1 .. Len(at) : g[at[i]] = file[at[i]]
      /\ \A i \in 1 .. Len(at) + 1 : Start(g, at, i) = Start(file, at, i)
  BY Extended
<1>3. /\ Layout(g, at) /\ Len(g) = Len(file) + 1 /\ g[1] = h
      /\ Start(g, at, Len(at) + 1) = Start(file, at, Len(at) + 1)
      /\ Len(file) \in Nat /\ Len(at) \in Nat /\ Counts(file)
  BY <1>2, ListedLen, LenProperties DEF Layout
<1> HIDE DEF g, h, c
<1>4. ASSUME NEW i \in 1 .. h.groups, w = <<"group", i>>, EndsAtGroup(file, at, i)
      PROVE  Layout(g, NextAt(at, w)) /\ EndsBefore(g, NextAt(at, w), Following(w))
  <2>1. EndsAtGroup(g, at, i + 1)
    BY <1>3, <1>4 DEF EndsAtGroup, Counts, h
  <2>2. Following(w) = GroupItem(g[1], i + 1)
    BY <1>1, <1>3, <1>4 DEF Following
  <2>3. NextAt(at, w) = at
    BY <1>4 DEF NextAt
  <2> QED
    BY <1>3, <2>1, <2>2, <2>3, BeforeGroup
<1>5. ASSUME NEW i \in 1 .. h.conns, w = <<"conn", i>>, EndsAtConn(file, at, i)
      PROVE  Layout(g, NextAt(at, w)) /\ EndsBefore(g, NextAt(at, w), Following(w))
  <2> DEFINE b == Append(at, Len(file) + 1)
  <2>1. i <= file[1].conns
    BY <1>3 DEF h, Counts
  <2>2. Layout(g, b) /\ g[1] = file[1] /\ EndsInConn(g, b, i, ChunksOf(c) - 1)
    BY <1>5, <2>1, Begins DEF g
  <2>3. NextAt(at, w) = b
    BY <1>5 DEF NextAt
  <2> HIDE DEF b
  <2>4. c.kind = conns[i].kind
    BY <1>5 DEF c, Chunk
  <2>5. CASE conns[i].kind = "sparse"
    <3>1. ChunksOf(c) - 1 = 3 /\ Following(w) = <<"rowptr", i>>
      BY <1>5, <2>4, <2>5 DEF ChunksOf, Following
    <3> QED
      BY <1>3, <2>3, <2>2, <3>1 DEF EndsBefore, h
  <2>6. CASE conns[i].kind # "sparse"
    <3>1. ChunksOf(c) - 1 = 1 /\ Following(w) = <<"vals", i>>
      BY <1>5, <2>4, <2>6 DEF ChunksOf, Following
    <3> QED
      BY <1>3, <2>3, <2>2, <3>1 DEF EndsBefore, h
  <2> QED
    BY <2>5, <2>6
<1>6. ASSUME NEW i \in 1 .. h.conns,
             \/ w = <<"rowptr", i>> /\ EndsInConn(file, at, i, 3)
             \/ w = <<"cols", i>> /\ EndsInConn(file, at, i, 2)
      PROVE  Layout(g, NextAt(at, w)) /\ EndsBefore(g, NextAt(at, w), Following(w))
  <2>1. CASE w = <<"rowptr", i>> /\ EndsInConn(file, at, i, 3)
    <3>1. EndsInConn(g, at, i, 2)
      BY <2>1, GoesOn DEF g
    <3>2. Following(w) = <<"cols", i>> /\ NextAt(at, w) = at
      BY <2>1 DEF Following, NextAt
    <3> QED
      BY <1>3, <3>1, <3>2 DEF EndsBefore, h
  <2>2. CASE w = <<"cols", i>> /\ EndsInConn(file, at, i, 2)
    <3>1. EndsInConn(g, at, i, 1)
      BY <2>2, GoesOn DEF g
    <3>2. Following(w) = <<"vals", i>> /\ NextAt(at, w) = at
      BY <2>2 DEF Following, NextAt
    <3> QED
      BY <1>3, <3>1, <3>2 DEF EndsBefore, h
  <2> QED
    BY <1>6, <2>1, <2>2
<1>7. ASSUME NEW i \in 1 .. h.conns, w = <<"vals", i>>, EndsInConn(file, at, i, 1)
      PROVE  Layout(g, NextAt(at, w)) /\ EndsBefore(g, NextAt(at, w), Following(w))
  <2>1. EndsAtConn(g, at, i + 1)
    BY <1>7, GoesOn DEF g
  <2>2. Following(w) = ConnItem(g[1], i + 1)
    BY <1>1, <1>3, <1>7 DEF Following
  <2>3. NextAt(at, w) = at
    BY <1>7 DEF NextAt
  <2> QED
    BY <1>3, <2>1, <2>2, <2>3, BeforeConn
<1>8. ASSUME NEW i \in 1 .. h.stdps, w = <<"stdp", i>>, EndsAtStdp(file, at, i)
      PROVE  Layout(g, NextAt(at, w)) /\ EndsBefore(g, NextAt(at, w), Following(w))
  <2>1. /\ i \in 1 .. h.stdps + 1 /\ Len(at) = h.conns /\ h.stdps \in Nat
        /\ Len(file) + 1 = Start(file, at, Len(at) + 1) + i - 1
    BY <1>3, <1>8 DEF EndsAtStdp, Counts, h
  <2>2. Start(file, at, Len(at) + 1) \in Int
    BY <1>3, StartNumber
  <2>3. Len(g) + 1 = Start(g, at, Len(at) + 1) + (i + 1) - 1
    BY <1>3, <2>1, <2>2
  <2>4. EndsAtStdp(g, at, i + 1)
    BY <1>3, <1>8, <2>1, <2>3, SMTT(30) DEF EndsAtStdp
  <2>5. Following(w) = StdpItem(g[1], i + 1)
    BY <1>1, <1>3, <1>8 DEF Following
  <2>6. NextAt(at, w) = at
    BY <1>8 DEF NextAt
  <2> QED
    BY <1>3, <2>5, <2>4, <2>6, BeforeStdp
<1>9. Layout(g, NextAt(at, w)) /\ EndsBefore(g, NextAt(at, w), Following(w))
  BY <1>4, <1>5, <1>6, <1>7, <1>8 DEF EndsBefore, h
<1> QED
  BY <1>9 DEF g, c

\* The file stays one a save is filling, and is complete with its last chunk.
LEMMA SaveWriteFile ==
  ASSUME ImageShape, OnFile, LoadIsWhole, SaveWrite
  PROVE  OnFile' /\ ImageShape' /\ LoadIsWhole'
<1>1. /\ saving # Idle /\ saving # Done /\ file' = Append(file, Chunk(saving)) /\ saving' = Following(saving)
      /\ image' = [image EXCEPT !.complete = (saving' = Done)]
      /\ UNCHANGED <<groups, conns, stdps, loading, last>>
  BY DEF SaveWrite
<1>2. /\ file # <<>> /\ loading = NoLoad
      /\ file[1].groups = Len(groups) /\ file[1].conns = Len(conns) /\ file[1].stdps = Len(stdps)
  BY <1>1 DEF OnFile
<1>3. PICK at : Layout(file, at) /\ EndsBefore(file, at, saving) /\ ~image.complete
  BY <1>1, <1>2 DEF OnFile, Filed
<1>4. PICK b : Layout(file', b) /\ EndsBefore(file', b, saving')
  BY <1>1, <1>2, <1>3, SaveWriteEnds
<1>5. file'[1] = file[1] /\ file' # <<>>
  BY <1>1, <1>3, <1>4, Extended DEF Layout
<1>6. ImageShape' /\ image'.complete = (saving' = Done)
  BY <1>1 DEF ImageShape
<1>7. \E a, w : Filed(a, w)'
  <2>1. PICK w : w = saving'
    OBVIOUS
  <2>2. Filed(b, w)'
    BY <1>1, <1>2, <1>4, <1>6, <2>1 DEF Filed
  <2> QED
    BY <2>2
<1>8. OnFile'
  BY <1>1, <1>2, <1>5, <1>7 DEF OnFile
<1> QED
  BY <1>1, <1>3, <1>6, <1>8 DEF LoadIsWhole

LEMMA SaveEndFile == ASSUME OnFile, SaveEnd PROVE OnFile'
<1>1. /\ saving = Done /\ saving' = Idle /\ UNCHANGED <<groups, conns, stdps, file, loading, image>>
      /\ Done # Idle
  BY DEF SaveEnd, Done, Idle
<1>2. file # <<>> /\ loading = NoLoad
  BY <1>1 DEF OnFile
<1>3. PICK at, w : Filed(at, w)
  BY <1>2 DEF OnFile
<1>4. Filed(at, w)'
  BY <1>1, <1>2, <1>3 DEF Filed
<1> QED
  BY <1>1, <1>2, <1>4 DEF OnFile

\* A load moves on to where the file holds what it reads next.
LEMMA LoadMoves ==
  ASSUME OnFile, saving = Idle, file # <<>>, UNCHANGED <<file, saving, image>>,
         \A at : Layout(file, at) /\ (\E w : EndsBefore(file, at, w)) /\ (loading # NoLoad => Stands(file, at, loading))
                   => Stands(file, at, loading')
  PROVE  OnFile'
<1>1. PICK at, w : Filed(at, w)
  BY DEF OnFile
<1>2. Stands(file, at, loading')
  BY <1>1 DEF Filed
<1>3. Filed(at, w)'
  BY <1>1, <1>2 DEF Filed
<1> QED
  BY <1>3 DEF OnFile

LEMMA LoadBeginFile == ASSUME OnFile, LoadBegin PROVE OnFile'
<1>1. /\ saving = Idle /\ file # <<>> /\ loading' = [item |-> GroupItem(file[1], 1), at |-> 2]
      /\ UNCHANGED <<file, saving, image>>
  BY DEF LoadBegin, MainFree
<1>2. ASSUME NEW at, Layout(file, at) PROVE Stands(file, at, loading')
  <2>1. Len(file) \in Nat /\ Len(file) >= 1 /\ file[1].groups \in Nat
    BY <1>2, ListedLen, EmptySeq DEF Layout, Listed, Counts
  <2>2. loading'.at = 2 /\ loading'.item = GroupItem(file[1], 1)
    BY <1>1
  <2>3. PICK l : l = loading'
    OBVIOUS
  <2>4. AtGroup(file, at, l, 1) /\ l.at <= Len(file) + 1
    BY <2>1, <2>2, <2>3 DEF AtGroup
  <2>5. Stands(file, at, l)
    BY <1>2, <2>2, <2>3, <2>4, StandsGroup
  <2> QED
    BY <2>3, <2>5
<1> QED
  BY <1>1, <1>2, LoadMoves

\* A load that reads is no save, and has a file.
LEMMA Loads ==
  ASSUME OnFile, NEW what \in {"group", "conn", "stdp", "done"}, Reads(what)
  PROVE  loading # NoLoad /\ saving = Idle /\ file # <<>>
<1>1. loading # NoLoad
  BY DEF Reads, NoLoad, Idle
<1> QED
  BY <1>1 DEF OnFile

LEMMA LoadGroupFile == ASSUME OnFile, LoadGroup PROVE OnFile'
<1>1. /\ Reads("group") /\ loading.at + 1 - 1 <= Len(file)
      /\ loading' = [item |-> GroupItem(file[1], loading.item[2] + 1), at |-> loading.at + 1]
      /\ UNCHANGED <<file, saving, image>>
  BY DEF LoadGroup, Found, Advance, Index
<1>2. loading # NoLoad /\ saving = Idle /\ file # <<>>
  BY <1>1, Loads
<1>3. ASSUME NEW at, Layout(file, at), Stands(file, at, loading) PROVE Stands(file, at, loading')
  <2>1. PICK i : i \in 1 .. file[1].groups /\ loading.item = <<"group", i>> /\ AtGroup(file, at, loading, i)
    BY <1>1, <1>3 DEF Stands, Reads, Done
  <2>2. Len(file) \in Nat /\ file[1].groups \in Nat
    BY <1>3, ListedLen DEF Layout, Counts
  <2>3. PICK l : l = loading'
    OBVIOUS
  <2>4. l.at = i + 2 /\ l.at <= Len(file) + 1 /\ l.item = GroupItem(file[1], i + 1)
    BY <1>1, <2>1, <2>2, <2>3 DEF AtGroup
  <2>5. AtGroup(file, at, l, i + 1)
    BY <2>1, <2>2, <2>4 DEF AtGroup
  <2>6. Stands(file, at, l)
    BY <1>3, <2>4, <2>5, StandsGroup
  <2> QED
    BY <2>3, <2>6
<1> QED
  BY <1>1, <1>2, <1>3, LoadMoves

LEMMA LoadStdpFile == ASSUME OnFile, LoadStdp PROVE OnFile'
<1>1. /\ Reads("stdp") /\ loading.at + 1 - 1 <= Len(file)
      /\ loading' = [item |-> StdpItem(file[1], loading.item[2] + 1), at |-> loading.at + 1]
      /\ UNCHANGED <<file, saving, image>>
  BY DEF LoadStdp, Found, Advance, Index
<1>2. loading # NoLoad /\ saving = Idle /\ file # <<>>
  BY <1>1, Loads
<1>3. ASSUME NEW at, Layout(file, at), Stands(file, at, loading) PROVE Stands(file, at, loading')
  <2>1. PICK i : i \in 1 .. file[1].stdps /\ loading.item = <<"stdp", i>> /\ AtStdp(file, at, loading, i)
    BY <1>1, <1>3 DEF Stands, Reads, Done
  <2>2. Len(file) \in Nat /\ file[1].stdps \in Nat /\ Start(file, at, Len(at) + 1) \in Nat
    BY <1>3, ListedLen, StartNumber DEF Layout, Counts
  <2>3. PICK l : l = loading'
    OBVIOUS
  <2>4. /\ l.at = Start(file, at, Len(at) + 1) + (i + 1) - 1 /\ l.at <= Len(file) + 1
        /\ l.item = StdpItem(file[1], i + 1)
    BY <1>1, <2>1, <2>2, <2>3 DEF AtStdp
  <2>5. AtStdp(file, at, l, i + 1)
    BY <2>1, <2>2, <2>4, SMTT(30) DEF AtStdp
  <2>6. Stands(file, at, l)
    BY <1>3, <2>4, <2>5, StandsStdp
  <2> QED
    BY <2>3, <2>6
<1> QED
  BY <1>1, <1>2, <1>3, LoadMoves

\* A connection whose first chunk is in the file is one of those whose place is known.
LEMMA InFile ==
  ASSUME NEW f, NEW at, NEW w, Layout(f, at), EndsBefore(f, at, w),
         NEW i \in 1 .. f[1].conns, i <= Len(at) + 1, Start(f, at, i) <= Len(f)
  PROVE  i \in 1 .. Len(at)
<1>1. /\ Len(f) \in Nat /\ Len(at) \in Nat /\ f[1].groups \in Nat /\ f[1].conns \in Nat
      /\ \A k \in 1 .. Len(at) + 1 : Start(f, at, k) \in Nat
  BY ListedLen, StartNumber DEF Layout, Counts
<1>2. SUFFICES ASSUME i = Len(at) + 1 PROVE FALSE
  BY <1>1
<1>3. ASSUME NEW k \in 1 .. f[1].groups, EndsAtGroup(f, at, k) PROVE FALSE
  BY <1>1, <1>2, <1>3 DEF EndsAtGroup, Start
<1>4. ASSUME NEW k \in 1 .. f[1].conns, EndsAtConn(f, at, k) PROVE FALSE
  BY <1>1, <1>2, <1>4 DEF EndsAtConn
<1>5. ASSUME NEW k \in 1 .. f[1].conns, NEW left, EndsInConn(f, at, k, left) PROVE FALSE
  <2>1. Start(f, at, i) = at[k] + ChunksOf(f[at[k]])
    BY <1>1, <1>2, <1>5 DEF EndsInConn, Start
  <2> QED
    BY <1>1, <1>5, <2>1 DEF EndsInConn
<1>6. ASSUME NEW k, EndsAtStdp(f, at, k) PROVE FALSE
  <2>1. Len(at) = f[1].conns
    BY <1>6 DEF EndsAtStdp
  <2> QED
    BY <1>1, <1>2, <2>1
<1> QED
  BY <1>3, <1>4, <1>5, <1>6 DEF EndsBefore

LEMMA LoadConnFile == ASSUME OnFile, LoadConn PROVE OnFile'
<1>1. /\ Reads("conn") /\ loading.at + ChunksOf(file[loading.at]) - 1 <= Len(file) /\ loading.at + 1 - 1 <= Len(file)
      /\ loading' = [item |-> ConnItem(file[1], loading.item[2] + 1), at |-> loading.at + ChunksOf(file[loading.at])]
      /\ UNCHANGED <<file, saving, image>>
  BY DEF LoadConn, Found, Advance, Index
<1>2. loading # NoLoad /\ saving = Idle /\ file # <<>>
  BY <1>1, Loads
<1>3. ASSUME NEW at, Layout(file, at), NEW w, EndsBefore(file, at, w), Stands(file, at, loading)
      PROVE  Stands(file, at, loading')
  <2>1. PICK i : i \in 1 .. file[1].conns /\ loading.item = <<"conn", i>> /\ AtConn(file, at, loading, i)
    BY <1>1, <1>3 DEF Stands, Reads, Done
  <2>2. Len(file) \in Nat /\ file[1].conns \in Nat /\ Len(at) \in Nat /\ \A k \in 1 .. Len(at) + 1 : Start(file, at, k) \in Nat
    BY <1>3, ListedLen, StartNumber DEF Layout, Counts
  <2>3. loading.at = Start(file, at, i) /\ i <= Len(at) + 1 /\ loading.at \in Nat /\ loading.at <= Len(file)
    BY <1>1, <2>1, <2>2 DEF AtConn
  <2>4. i \in 1 .. Len(at) /\ at[i] = loading.at
    BY <1>3, <2>1, <2>3, InFile DEF Layout
  <2>5. Start(file, at, i + 1) = loading.at + ChunksOf(file[loading.at]) /\ ChunksOf(file[loading.at]) \in Nat
    BY <2>2, <2>4 DEF Start, ChunksOf
  <2>6. PICK l : l = loading'
    OBVIOUS
  <2>7. /\ l.at = Start(file, at, i + 1) /\ l.at <= Len(file) + 1
        /\ l.item = ConnItem(file[1], i + 1)
    BY <1>1, <2>1, <2>2, <2>3, <2>5, <2>6
  <2>8. AtConn(file, at, l, i + 1)
    BY <2>1, <2>2, <2>4, <2>7 DEF AtConn
  <2>9. Stands(file, at, l)
    BY <1>3, <2>7, <2>8, StandsConn
  <2> QED
    BY <2>6, <2>9
<1> QED
  BY <1>1, <1>2, <1>3, LoadMoves

\* A load that has come to the end has come to the end of a whole file.
LEMMA EndOfFile ==
  ASSUME NEW f, NEW at, NEW w, NEW l, Layout(f, at), EndsBefore(f, at, w),
         AtStdp(f, at, l, f[1].stdps + 1), l.at <= Len(f) + 1
  PROVE  w = Done
<1>1. /\ Len(f) \in Nat /\ Len(at) \in Nat /\ f[1].groups \in Nat /\ f[1].conns \in Nat /\ f[1].stdps \in Nat
      /\ \A k \in 1 .. Len(at) + 1 : Start(f, at, k) \in Nat
  BY ListedLen, StartNumber DEF Layout, Counts
<1>2. Len(at) = f[1].conns /\ Start(f, at, Len(at) + 1) + f[1].stdps <= Len(f) + 1
  BY <1>1 DEF AtStdp
<1>3. ASSUME NEW k \in 1 .. f[1].groups, EndsAtGroup(f, at, k) PROVE FALSE
  BY <1>1, <1>2, <1>3 DEF EndsAtGroup, Start
<1>4. ASSUME NEW k \in 1 .. f[1].conns, EndsAtConn(f, at, k) PROVE FALSE
  BY <1>1, <1>2, <1>4 DEF EndsAtConn
<1>5. ASSUME NEW k \in 1 .. f[1].conns, NEW left, EndsInConn(f, at, k, left) PROVE FALSE
  <2>1. Start(f, at, Len(at) + 1) = at[k] + ChunksOf(f[at[k]])
    BY <1>1, <1>5 DEF EndsInConn, Start
  <2> QED
    BY <1>1, <1>2, <1>5, <2>1 DEF EndsInConn
<1>6. ASSUME NEW k \in 1 .. f[1].stdps, EndsAtStdp(f, at, k) PROVE FALSE
  <2>1. Len(f) + 1 = Start(f, at, Len(at) + 1) + k - 1
    BY <1>6 DEF EndsAtStdp
  <2>2. Start(f, at, Len(at) + 1) \in Nat
    BY <1>1
  <2> QED
    BY <1>1, <1>2, <2>1, <2>2
<1> QED
  BY <1>3, <1>4, <1>5, <1>6 DEF EndsBefore

LEMMA LoadEndFile == ASSUME OnFile, LoadEnd PROVE OnFile' /\ LoadIsWhole'
<1>1. Reads("done") /\ loading' = NoLoad /\ UNCHANGED <<groups, conns, stdps, file, saving, image>>
  BY DEF LoadEnd
<1>2. loading # NoLoad /\ saving = Idle /\ file # <<>>
  BY <1>1, Loads
<1>3. PICK at, w : Filed(at, w)
  BY <1>2 DEF OnFile
<1>4. AtStdp(file, at, loading, file[1].stdps + 1) /\ loading.at <= Len(file) + 1
  BY <1>1, <1>2, <1>3 DEF Filed, Stands, Reads
<1>5. w = Done
  BY <1>3, <1>4, EndOfFile DEF Filed
<1>6. image.complete
  BY <1>3, <1>5 DEF Filed
<1>7. Filed(at, w)'
  BY <1>1, <1>2, <1>3 DEF Filed
<1> QED
  BY <1>1, <1>2, <1>6, <1>7 DEF OnFile, LoadIsWhole

LEMMA GoneFile ==
  ASSUME ImageShape, OnFile, NEW how, Gone(how)
  PROVE  Lists' /\ ImageShape' /\ OnFile' /\ LoadIsWhole'
<1>1. /\ groups' = <<>> /\ conns' = <<>> /\ stdps' = <<>> /\ saving' = Idle /\ loading' = NoLoad
      /\ last'.op # "load" /\ UNCHANGED <<file, image>>
  BY DEF Gone
<1>2. Lists'
  BY <1>1 DEF Lists, Listed
<1>3. ASSUME NEW at, NEW w, Filed(at, w) PROVE Filed(at, w)'
  BY <1>1, <1>3 DEF Filed
<1>4. OnFile'
  BY <1>1, <1>3 DEF OnFile
<1> QED
  BY <1>1, <1>2, <1>4 DEF ImageShape, LoadIsWhole

\* The groups and rules a load makes or patches.
LEMMA LoadLists == ASSUME Lists, LoadGroup \/ LoadConn \/ LoadStdp PROVE Lists'
<1>1. CASE LoadGroup
  <2> DEFINE r == file[loading.at]
             g == ByName(r.name)
             x == [groups[g] EXCEPT !.v = r.v]
             h == [groups EXCEPT ![g] = x]
             y == [h[g] EXCEPT !.window = r.window]
  <2>1. /\ groups' = IF g # 0 THEN [groups EXCEPT ![g].v = r.v, ![g].window = r.window]
                     ELSE Append(groups, [name |-> r.name, size |-> r.size, v |-> r.v,
                                          window |-> r.window, hold |-> FALSE])
        /\ UNCHANGED <<conns, stdps>>
    BY <1>1 DEF LoadGroup
  <2>2. [groups EXCEPT ![g].v = r.v, ![g].window = r.window] = [h EXCEPT ![g] = y]
    OBVIOUS
  <2>3. Listed([h EXCEPT ![g] = y])
    <3>1. Listed(h)
      BY ExceptListed DEF Lists
    <3> HIDE DEF h, y
    <3> QED
      BY <3>1, ExceptListed
  <2>4. Listed(groups')
    BY <2>1, <2>2, <2>3, AppendListed DEF Lists
  <2> QED
    BY <2>1, <2>4 DEF Lists
<1>2. CASE LoadConn
  <2>1. UNCHANGED <<groups, stdps>> /\ \E c : conns' = Append(DropConns(c.src, c.dst), c)
    BY <1>2 DEF LoadConn, Link
  <2>2. Listed(conns')
    BY <2>1, LinkListed
  <2> QED
    BY <2>1, <2>2 DEF Lists
<1>3. CASE LoadStdp
  BY <1>3, WindowListed, ConfiguredListed DEF LoadStdp, Lists
<1> QED
  BY <1>1, <1>2, <1>3

-----------------------------------------------------------------------------

LEMMA InitInv == Init => IInv
  BY DEF Init, IInv, Lists, Listed, ImageShape, OnFile, LoadIsWhole

LEMMA NextInv == IInv /\ [Next]_vars => IInv'
<1> SUFFICES ASSUME IInv, [Next]_vars PROVE IInv'
  OBVIOUS
<1>1. Lists /\ ImageShape /\ OnFile /\ LoadIsWhole
  BY DEF IInv
<1>2. CASE Edits
  <2>1. Lists' /\ Quiet
    BY <1>1, <1>2, EditLists, EditDisk
  <2>2. OnFile'
    BY <1>1, <2>1, OnFileStays DEF Quiet
  <2> QED
    BY <1>1, <2>1, <2>2 DEF Quiet, IInv, ImageShape, LoadIsWhole
<1>3. CASE Learns
  <2>1. /\ Lists' /\ Len(groups') = Len(groups) /\ Len(conns') = Len(conns) /\ Len(stdps') = Len(stdps)
    BY <1>1, <1>3, LearnLists
  <2>2. UNCHANGED <<file, saving, loading>> /\ image'.complete = image.complete /\ ImageShape' /\ last'.op # "load"
    BY <1>1, <1>3, LearnDisk
  <2>3. OnFile'
    BY <1>1, <2>1, <2>2, OnFileStays
  <2> QED
    BY <2>1, <2>2, <2>3 DEF IInv, LoadIsWhole
<1>4. CASE SaveBegin
  <2>1. Lists'
    BY <1>1, <1>4 DEF SaveBegin, Lists
  <2> QED
    BY <1>1, <1>4, <2>1, SaveBeginFile DEF IInv
<1>5. CASE SaveWrite
  <2>1. Lists'
    BY <1>1, <1>5 DEF SaveWrite, Lists
  <2> QED
    BY <1>1, <1>5, <2>1, SaveWriteFile DEF IInv
<1>6. CASE SaveEnd
  <2>1. Lists' /\ ImageShape' /\ LoadIsWhole'
    BY <1>1, <1>6 DEF SaveEnd, Lists, ImageShape, LoadIsWhole
  <2> QED
    BY <1>1, <1>6, <2>1, SaveEndFile DEF IInv
<1>7. CASE LoadBegin
  <2>1. Lists' /\ ImageShape' /\ LoadIsWhole'
    BY <1>1, <1>7 DEF LoadBegin, Lists, ImageShape, LoadIsWhole
  <2> QED
    BY <1>1, <1>7, <2>1, LoadBeginFile DEF IInv
<1>8. CASE LoadGroup
  <2>1. ImageShape' /\ LoadIsWhole'
    BY <1>1, <1>8 DEF LoadGroup, ImageShape, LoadIsWhole
  <2> QED
    BY <1>1, <1>8, <2>1, LoadLists, LoadGroupFile DEF IInv
<1>9. CASE LoadConn
  <2>1. UNCHANGED image /\ last'.op = "connect"
    BY <1>9 DEF LoadConn, Link
  <2>2. ImageShape' /\ LoadIsWhole'
    BY <1>1, <2>1 DEF ImageShape, LoadIsWhole
  <2> QED
    BY <1>1, <1>9, <2>2, LoadLists, LoadConnFile DEF IInv
<1>10. CASE LoadStdp
  <2>1. ImageShape' /\ LoadIsWhole'
    BY <1>1, <1>10 DEF LoadStdp, ImageShape, LoadIsWhole
  <2> QED
    BY <1>1, <1>10, <2>1, LoadLists, LoadStdpFile DEF IInv
<1>11. CASE LoadEnd
  <2>1. Lists' /\ ImageShape'
    BY <1>1, <1>11 DEF LoadEnd, Lists, ImageShape
  <2> QED
    BY <1>1, <1>11, <2>1, LoadEndFile DEF IInv
<1>12. ASSUME LoadPanic \/ Crash PROVE IInv'
  <2>1. \E how : Gone(how)
    BY <1>12 DEF LoadPanic, Crash
  <2> QED
    BY <1>1, <2>1, GoneFile DEF IInv
<1>13. ASSUME Restart \/ UNCHANGED vars PROVE IInv'
  <2>1. UNCHANGED <<groups, conns, stdps, file, saving, loading, last, image>>
    BY <1>13 DEF Restart, vars
  <2>2. Lists' /\ ImageShape' /\ LoadIsWhole'
    BY <1>1, <2>1 DEF Lists, ImageShape, LoadIsWhole
  <2>3. OnFile'
    BY <1>1, <2>1, OnFileStays
  <2> QED
    BY <2>2, <2>3 DEF IInv
<1>14. CASE Checkpoint
  BY <1>4, <1>5, <1>6, <1>7, <1>8, <1>9, <1>10, <1>11, <1>12, <1>14 DEF Checkpoint
<1> QED
  BY <1>2, <1>3, <1>12, <1>13, <1>14, Steps

\* Where the file ends, where a save goes on and where a load reads agree, whatever
\* has been saved, loaded, cut short or changed before (ndl_rt_io.cpp 180-437).
THEOREM NetworkInvariant == Spec => []IInv
  BY InitInv, NextInv, PTL DEF Spec

\* A load that returns has read a file that a save completed: no crash and no full
\* disk in the middle of a save makes a file that a later load takes for whole
\* (ndl_rt_io.cpp 197-243, 262-437).
THEOREM NetworkLoadIsWhole == Spec => []LoadIsWhole
<1>1. IInv => LoadIsWhole
  BY DEF IInv
<1> QED
  BY <1>1, NetworkInvariant, PTL

-----------------------------------------------------------------------------
(* Sparse storage is built row after row.                                   *)

\* Compressed storage, and n rows to stack, of columns in S and weights in W.
RowArrays(S, W) == [rowptr : Seq(Nat), cols : Seq(S), vals : Seq(W)]
RowsOf(rows, n, S, W) ==
  DOMAIN rows = 1 .. n /\ \A j \in 1 .. n : rows[j].cols \in Seq(S) /\ rows[j].vals \in Seq(W)

\* Stacked goes through the rows one after the other.
LEMMA StackedPasses ==
  ASSUME NEW n \in Nat, NEW S, NEW W, NEW rows, RowsOf(rows, n, S, W), Len(rows) = n
  PROVE  \E f \in [0 .. n -> RowArrays(S, W)] :
           /\ f[0] = NoRows /\ Stacked(rows) = f[n]
           /\ \A j \in 1 .. n : f[j] = AddRow(f[j - 1], rows[j])
<1> DEFINE V == RowArrays(S, W)
           F == [p \in V \X (1 .. n) |-> AddRow(p[1], rows[p[2]])]
           Body(g) == [j \in 0 .. n |-> IF j = 0 THEN NoRows ELSE AddRow(g[j - 1], rows[j])]
<1>1. Stacked(rows) = (CHOOSE g : g = Body(g))[n]
  BY DEF Stacked
<1>2. NoRows \in V
  BY EmptySeq DEF NoRows, RowArrays
<1>3. ASSUME NEW a \in V, NEW j \in 1 .. n PROVE AddRow(a, rows[j]) \in V
  <2>1. a.rowptr \in Seq(Nat) /\ a.cols \in Seq(S) /\ a.vals \in Seq(W) /\ Len(a.cols) \in Nat
    BY LenProperties DEF RowArrays
  <2>2. rows[j].cols \in Seq(S) /\ rows[j].vals \in Seq(W) /\ Len(rows[j].cols) \in Nat
    BY LenProperties DEF RowsOf
  <2>3. Append(a.rowptr, Len(a.cols) + Len(rows[j].cols)) \in Seq(Nat)
    <3>1. \A u, v \in Nat : u + v \in Nat
      OBVIOUS
    <3>2. PICK x \in Nat : x = Len(a.cols) + Len(rows[j].cols)
      BY <2>1, <2>2, <3>1, Zenon
    <3> QED
      BY <2>1, <3>2, AppendProperties
  <2> QED
    BY <2>1, <2>2, <2>3, ConcatProperties DEF AddRow, RowArrays
<1> HIDE DEF V
<1>4. \A a \in V, j \in 1 .. n : F[<<a, j>>] = AddRow(a, rows[j]) /\ F[<<a, j>>] \in V
  BY <1>3
<1> HIDE DEF F
<1>5. PICK f : Passes(f, V, n, NoRows, F)
  <2>1. StaysIn(V, F, n)
    BY <1>4 DEF StaysIn
  <2> QED
    BY <1>2, <2>1, LoopExists
<1>6. f = Body(f)
  <2>1. ASSUME NEW j \in 1 .. n PROVE f[j] = AddRow(f[j - 1], rows[j])
    <3>1. j - 1 \in 0 .. n
      OBVIOUS
    <3>2. f[j - 1] \in V /\ f[j] = F[<<f[j - 1], j>>]
      BY <1>5, <3>1 DEF Passes
    <3> QED
      BY <1>4, <3>2
  <2> QED
    BY <1>5, <2>1 DEF Passes
<1>7. PICK g : g = Body(g) /\ Stacked(rows) = g[n]
  BY <1>1, <1>6
<1> HIDE DEF Body
<1>8. g = [j \in 0 .. n |-> g[j]] /\ g[0] = NoRows /\ \A j \in 1 .. n : g[j] = AddRow(g[j - 1], rows[j])
  BY <1>7 DEF Body
<1> DEFINE I == {j \in 0 .. n : g[j] \in V}
<1>9. ASSUME NEW j \in 1 .. n, j - 1 \in I PROVE j \in I
  <2>1. g[j - 1] \in V
    BY <1>9
  <2>2. AddRow(g[j - 1], rows[j]) \in V
    BY <1>3, <2>1
  <2>3. g[j] \in V
    BY <1>8, <2>2
  <2> QED
    BY <2>3
<1>10. 0 \in I
  BY <1>2, <1>8
<1> HIDE DEF I
<1>11. \A j \in 0 .. n : j \in I
  BY <1>9, <1>10, Induction
<1>12. g \in [0 .. n -> V]
  BY <1>8, <1>11 DEF I
<1> QED
  BY <1>7, <1>8, <1>12 DEF V

\* The arrays a hold the rows one after the other.
Rowed(a, rows, n) ==
  /\ a.rowptr \in Seq(Nat) /\ Len(a.rowptr) = n + 1 /\ a.rowptr[1] = 0
  /\ a.rowptr[n + 1] = Len(a.cols) /\ Len(a.vals) = Len(a.cols)
  /\ \A j \in 1 .. n :
       /\ a.rowptr[j + 1] = a.rowptr[j] + Len(rows[j].cols)
       /\ \A i \in 1 .. Len(rows[j].cols) :
            a.cols[a.rowptr[j] + i] = rows[j].cols[i] /\ a.vals[a.rowptr[j] + i] = rows[j].vals[i]
\* Each row has as many weights as columns.
Even(rows, n) == \A j \in 1 .. n : Len(rows[j].vals) = Len(rows[j].cols)

\* A row added is the last one, and leaves those before it in place.
LEMMA AddRowed ==
  ASSUME NEW n \in Nat, NEW S, NEW W, NEW rows, RowsOf(rows, n, S, W), Even(rows, n), NEW m \in 1 .. n,
         NEW a \in RowArrays(S, W), Rowed(a, rows, m - 1)
  PROVE  Rowed(AddRow(a, rows[m]), rows, m)
<1> DEFINE b == AddRow(a, rows[m])
           r == rows[m]
<1>1. /\ a.rowptr \in Seq(Nat) /\ a.cols \in Seq(S) /\ a.vals \in Seq(W) /\ Len(a.cols) \in Nat
      /\ Len(a.rowptr) = m /\ a.rowptr[1] = 0 /\ a.rowptr[m] = Len(a.cols) /\ Len(a.vals) = Len(a.cols)
  BY LenProperties DEF RowArrays, Rowed
<1>2. r.cols \in Seq(S) /\ r.vals \in Seq(W) /\ Len(r.cols) \in Nat /\ Len(r.vals) = Len(r.cols)
  BY LenProperties DEF RowsOf, Even
<1>3. b.rowptr = Append(a.rowptr, Len(a.cols) + Len(r.cols)) /\ b.cols = a.cols \o r.cols /\ b.vals = a.vals \o r.vals
  BY DEF AddRow
<1> HIDE DEF b, r
<1>4. /\ b.rowptr \in Seq(Nat) /\ Len(b.rowptr) = m + 1 /\ b.rowptr[m + 1] = Len(a.cols) + Len(r.cols)
      /\ \A j \in 1 .. m : b.rowptr[j] = a.rowptr[j]
  <2>1. \A u, v \in Nat : u + v \in Nat
    OBVIOUS
  <2>2. PICK x \in Nat : x = Len(a.cols) + Len(r.cols)
    BY <1>1, <1>2, <2>1, Zenon
  <2>3. PICK s \in Seq(Nat) : s = a.rowptr /\ Len(s) = m
    BY <1>1
  <2>4. /\ Append(s, x) \in Seq(Nat) /\ Len(Append(s, x)) = Len(s) + 1 /\ Append(s, x)[Len(s) + 1] = x
        /\ \A i \in 1 .. Len(s) : Append(s, x)[i] = s[i]
    BY AppendProperties
  <2> QED
    BY <1>3, <2>2, <2>3, <2>4
<1>5. /\ Len(b.cols) = Len(a.cols) + Len(r.cols)
      /\ \A k \in 1 .. Len(a.cols) : b.cols[k] = a.cols[k]
      /\ \A k \in 1 .. Len(r.cols) : b.cols[Len(a.cols) + k] = r.cols[k]
  <2>1. PICK s \in Seq(S), t \in Seq(S) : s = a.cols /\ t = r.cols
    BY <1>1, <1>2
  <2>2. /\ Len(s \o t) = Len(s) + Len(t)
        /\ \A k \in 1 .. Len(s) : (s \o t)[k] = s[k]
        /\ \A k \in 1 .. Len(t) : (s \o t)[Len(s) + k] = t[k]
    BY Joined
  <2> QED
    BY <1>1, <1>2, <1>3, <2>1, <2>2, Zenon
<1>6. /\ Len(b.vals) = Len(a.cols) + Len(r.cols)
      /\ \A k \in 1 .. Len(a.cols) : b.vals[k] = a.vals[k]
      /\ \A k \in 1 .. Len(r.cols) : b.vals[Len(a.cols) + k] = r.vals[k]
  <2>1. PICK s \in Seq(W), t \in Seq(W) : s = a.vals /\ t = r.vals
    BY <1>1, <1>2
  <2>2. /\ Len(s \o t) = Len(s) + Len(t)
        /\ \A k \in 1 .. Len(s) : (s \o t)[k] = s[k]
        /\ \A k \in 1 .. Len(t) : (s \o t)[Len(s) + k] = t[k]
    BY Joined
  <2> QED
    BY <1>1, <1>2, <1>3, <2>1, <2>2, Zenon
<1>7. ASSUME NEW j \in 1 .. m
      PROVE  /\ b.rowptr[j + 1] = b.rowptr[j] + Len(rows[j].cols)
             /\ \A i \in 1 .. Len(rows[j].cols) :
                  b.cols[b.rowptr[j] + i] = rows[j].cols[i] /\ b.vals[b.rowptr[j] + i] = rows[j].vals[i]
  <2>1. CASE j = m
    <3>1. r = rows[j] /\ b.rowptr[j] = Len(a.cols)
      BY <1>1, <1>4, <2>1 DEF r
    <3>2. b.rowptr[m + 1] = b.rowptr[m] + Len(r.cols)
      BY <1>4, <2>1, <3>1
    <3>3. ASSUME NEW i \in 1 .. Len(r.cols)
          PROVE  b.cols[Len(a.cols) + i] = r.cols[i] /\ b.vals[Len(a.cols) + i] = r.vals[i]
      BY <1>5, <1>6, Zenon
    <3> QED
      BY <2>1, <3>1, <3>2, <3>3
  <2>2. CASE j # m
    <3>1. j \in 1 .. m - 1 /\ j + 1 \in 1 .. m /\ j \in 1 .. m
      BY <2>2
    <3>2. /\ a.rowptr[j + 1] = a.rowptr[j] + Len(rows[j].cols)
          /\ \A i \in 1 .. Len(rows[j].cols) :
               a.cols[a.rowptr[j] + i] = rows[j].cols[i] /\ a.vals[a.rowptr[j] + i] = rows[j].vals[i]
      BY <3>1 DEF Rowed
    <3>3. a.rowptr[j + 1] <= Len(a.cols) /\ a.rowptr[j] \in Nat /\ Len(rows[j].cols) \in Nat
      <4> DEFINE I == {k \in 0 .. m - 1 : a.rowptr[m - k] <= Len(a.cols)}
      <4>1. 0 \in I
        BY <1>1
      <4>2. ASSUME NEW k \in 1 .. m - 1, k - 1 \in I PROVE k \in I
        <5>1. m - k \in 1 .. m - 1 /\ m - k + 1 = m - (k - 1) /\ m - k \in 1 .. n /\ m - k \in 1 .. m
          OBVIOUS
        <5>2. a.rowptr[m - k + 1] = a.rowptr[m - k] + Len(rows[m - k].cols)
          BY <5>1 DEF Rowed
        <5>3. Len(rows[m - k].cols) \in Nat
          BY <5>1, LenProperties DEF RowsOf
        <5>4. a.rowptr[m - k] \in Nat /\ a.rowptr[m - (k - 1)] <= Len(a.cols)
          BY <1>1, <4>2, <5>1, ElementOfSeq
        <5>5. a.rowptr[m - k] <= Len(a.cols)
          <6>1. a.rowptr[m - k + 1] = a.rowptr[m - (k - 1)]
            BY <5>1, Zenon
          <6>2. PICK u, v, z, l : /\ u = a.rowptr[m - k + 1] /\ v = a.rowptr[m - k]
                                  /\ z = Len(rows[m - k].cols) /\ l = Len(a.cols)
            OBVIOUS
          <6>3. u = v + z /\ v \in Nat /\ z \in Nat /\ u <= l /\ l \in Nat
            <7>1. u = v + z
              BY <5>2, <6>2, Zenon
            <7>2. v \in Nat /\ z \in Nat
              BY <5>3, <5>4, <6>2, Zenon
            <7>3. u <= l
              BY <5>4, <6>1, <6>2, Zenon
            <7>4. l \in Nat
              BY <1>1, <6>2, LenProperties
            <7> QED
              BY <7>1, <7>2, <7>3, <7>4
          <6>4. v <= l
            BY <6>3
          <6> QED
            BY <6>2, <6>4, Zenon
        <5> QED
          BY <5>5
      <4> HIDE DEF I
      <4>3. \A k \in 0 .. m - 1 : k \in I
        BY <4>1, <4>2, Induction
      <4>4. m - (j + 1) \in I /\ m - (m - (j + 1)) = j + 1
        BY <3>1, <4>3
      <4>5. a.rowptr[j + 1] <= Len(a.cols)
        BY <4>4 DEF I
      <4>6. a.rowptr[j] \in Nat
        BY <1>1, <3>1, ElementOfSeq
      <4>7. Len(rows[j].cols) \in Nat
        BY LenProperties DEF RowsOf
      <4> QED
        BY <4>5, <4>6, <4>7
    <3>4. \A i \in 1 .. Len(rows[j].cols) : a.rowptr[j] + i \in 1 .. Len(a.cols)
      <4>1. \A l, y, z \in Nat : y + z <= l => \A i \in 1 .. z : y + i \in 1 .. l
        OBVIOUS
      <4>2. a.rowptr[j] + Len(rows[j].cols) <= Len(a.cols)
        BY <3>2, <3>3, Zenon
      <4> QED
        BY <1>1, <3>3, <4>1, <4>2, Zenon
    <3>5. b.rowptr[j] = a.rowptr[j] /\ b.rowptr[j + 1] = a.rowptr[j + 1]
      BY <1>4, <3>1
    <3>6. ASSUME NEW i \in 1 .. Len(rows[j].cols)
          PROVE  b.cols[b.rowptr[j] + i] = rows[j].cols[i] /\ b.vals[b.rowptr[j] + i] = rows[j].vals[i]
      BY <1>5, <1>6, <3>2, <3>4, <3>5, Zenon
    <3> QED
      BY <3>2, <3>5, <3>6, Zenon
  <2> QED
    BY <2>1, <2>2
<1>8. b.rowptr[1] = 0 /\ b.rowptr[m + 1] = Len(b.cols) /\ Len(b.vals) = Len(b.cols)
  BY <1>1, <1>4, <1>5, <1>6
<1>9. Rowed(b, rows, m)
  BY <1>4, <1>7, <1>8 DEF Rowed
<1> QED
  BY <1>9 DEF b

\* Stacked puts the rows one after the other.
LEMMA StackedRows ==
  ASSUME NEW n \in Nat, NEW S, NEW W, NEW rows, RowsOf(rows, n, S, W), Len(rows) = n, Even(rows, n)
  PROVE  Stacked(rows) \in RowArrays(S, W) /\ Rowed(Stacked(rows), rows, n)
<1>1. PICK f \in [0 .. n -> RowArrays(S, W)] :
        f[0] = NoRows /\ Stacked(rows) = f[n] /\ \A j \in 1 .. n : f[j] = AddRow(f[j - 1], rows[j])
  BY StackedPasses
<1> DEFINE I == {m \in 0 .. n : Rowed(f[m], rows, m)}
<1>2. 0 \in I
  <2>1. Rowed(NoRows, rows, 0)
    BY DEF Rowed, NoRows
  <2> QED
    BY <1>1, <2>1
<1>3. ASSUME NEW m \in 1 .. n, m - 1 \in I PROVE m \in I
  <2>1. f[m - 1] \in RowArrays(S, W) /\ Rowed(f[m - 1], rows, m - 1)
    BY <1>3
  <2>2. Rowed(AddRow(f[m - 1], rows[m]), rows, m)
    BY <2>1, AddRowed
  <2> QED
    BY <1>1, <2>2
<1> HIDE DEF I
<1>4. \A m \in 0 .. n : m \in I
  BY <1>2, <1>3, Induction
<1>5. n \in I
  BY <1>4
<1> QED
  BY <1>1, <1>5 DEF I

-----------------------------------------------------------------------------
(* Sound rows.                                                              *)

\* Strictly ascending: a list, the columns of one row, of all rows (of m columns, n rows).
Climbs(s) == \A i, k \in 1 .. Len(s) : i < k => s[i] < s[k]
RowSound(ptr, cols, j) ==
  /\ ptr[j] <= ptr[j + 1]
  /\ \A i, k \in ptr[j] + 1 .. ptr[j + 1] : i < k => cols[i] < cols[k]
RowsSound(a, m, n) ==
  /\ a.rowptr \in Seq(Nat) /\ a.cols \in Seq(0 .. m - 1) /\ a.vals \in Seq(Int)
  /\ Len(a.rowptr) = n + 1 /\ a.rowptr[1] = 0 /\ a.rowptr[n + 1] = Len(a.cols) /\ Len(a.vals) = Len(a.cols)
  /\ \A j \in 1 .. n : RowSound(a.rowptr, a.cols, j)

\* Rows that ascend are sound once stacked.
LEMMA StackedSound ==
  ASSUME NEW n \in Nat, NEW m \in Nat, NEW rows, RowsOf(rows, n, 0 .. m - 1, Int), Len(rows) = n, Even(rows, n),
         \A j \in 1 .. n : Climbs(rows[j].cols)
  PROVE  RowsSound(Stacked(rows), m, n)
<1>1. PICK a : a = Stacked(rows)
  OBVIOUS
<1>2. a \in RowArrays(0 .. m - 1, Int) /\ Rowed(a, rows, n)
  BY <1>1, StackedRows
<1>3. ASSUME NEW j \in 1 .. n PROVE RowSound(a.rowptr, a.cols, j)
  <2>1. PICK x, y, z : x = a.rowptr[j] /\ y = a.rowptr[j + 1] /\ z = Len(rows[j].cols)
    OBVIOUS
  <2>2. x \in Nat /\ z \in Nat
    <3>1. j \in DOMAIN a.rowptr
      BY <1>2 DEF Rowed
    <3>2. x \in Nat
      BY <1>2, <2>1, <3>1, ElementOfSeq, Element DEF Rowed
    <3> QED
      BY <2>1, <3>2, LenProperties DEF RowsOf
  <2>3. y = x + z /\ \A i \in 1 .. z : a.cols[x + i] = rows[j].cols[i]
    BY <1>2, <2>1, Zenon DEF Rowed
  <2>4. ASSUME NEW i \in x + 1 .. y, NEW k \in x + 1 .. y, i < k PROVE a.cols[i] < a.cols[k]
    <3>1. /\ i - x \in 1 .. z /\ k - x \in 1 .. z /\ i - x < k - x
          /\ x + (i - x) = i /\ x + (k - x) = k
      BY <2>2, <2>3, <2>4
    <3>2. a.cols[i] = rows[j].cols[i - x] /\ a.cols[k] = rows[j].cols[k - x]
      BY <2>3, <3>1
    <3>3. rows[j].cols[i - x] < rows[j].cols[k - x]
      BY <2>1, <3>1, Zenon DEF Climbs
    <3> QED
      BY <3>2, <3>3
  <2>5. x <= y
    BY <2>2, <2>3
  <2> QED
    BY <2>1, <2>4, <2>5 DEF RowSound
<1> QED
  BY <1>1, <1>2, <1>3 DEF RowsSound, RowArrays, Rowed

\* The starts of rows ascend over any distance.
LEMMA StartsAscend ==
  ASSUME NEW n \in Nat, NEW ptr, \A j \in 1 .. n + 1 : ptr[j] \in Nat, \A j \in 1 .. n : ptr[j] <= ptr[j + 1],
         NEW i \in 1 .. n + 1, NEW k \in 1 .. n + 1, i <= k
  PROVE  ptr[i] <= ptr[k]
<1> DEFINE I == {d \in 0 .. n : i + d <= n + 1 => ptr[i] <= ptr[i + d]}
<1>1. 0 \in I
  OBVIOUS
<1>2. ASSUME NEW d \in 1 .. n, d - 1 \in I PROVE d \in I
  <2> SUFFICES ASSUME i + d <= n + 1 PROVE ptr[i] <= ptr[i + d]
    OBVIOUS
  <2>1. i + (d - 1) \in 1 .. n /\ i + (d - 1) + 1 = i + d /\ i + d \in 1 .. n + 1
    OBVIOUS
  <2>2. ptr[i] <= ptr[i + (d - 1)]
    BY <1>2, <2>1
  <2>3. ptr[i + (d - 1)] <= ptr[i + d]
    BY <2>1
  <2>4. ptr[i] \in Nat /\ ptr[i + (d - 1)] \in Nat /\ ptr[i + d] \in Nat
    BY <2>1
  <2> QED
    BY <2>2, <2>3, <2>4
<1> HIDE DEF I
<1>3. \A d \in 0 .. n : d \in I
  BY <1>1, <1>2, Induction
<1>4. k - i \in 0 .. n /\ i + (k - i) = k
  OBVIOUS
<1>5. k - i \in I
  BY <1>3, <1>4
<1> QED
  BY <1>4, <1>5 DEF I
\* The ascending list of a set of numbers.
LEMMA AscendingLists ==
  ASSUME NEW n \in Nat, NEW S \in SUBSET (0 .. n)
  PROVE  /\ Ascending(S) \in Seq(S) /\ Len(Ascending(S)) \in Nat /\ DOMAIN Ascending(S) = 1 .. Len(Ascending(S))
         /\ Climbs(Ascending(S)) /\ Range(Ascending(S)) = S
<1>1. AscendsOver(Ascending(S), S)
  <2>1. \E q : AscendsOver(q, S)
    BY ListExists
  <2>2. \E q \in [1 .. Cardinality(S) -> S] : \A i, k \in DOMAIN q : i < k => q[i] < q[k]
    BY <2>1 DEF AscendsOver
  <2> QED
    BY <2>2 DEF Ascending, AscendsOver
<1>2. PICK q : q = Ascending(S)
  OBVIOUS
<1>3. Cardinality(S) \in Nat /\ q \in Seq(S) /\ Len(q) = Cardinality(S) /\ Range(q) = S
  <2>1. AscendsOver(q, S)
    BY <1>1, <1>2
  <2> QED
    BY <2>1, ListCovers
<1>4. DOMAIN q = 1 .. Len(q)
  BY <1>3, LenProperties
<1>5. Climbs(q)
  BY <1>1, <1>2, <1>4 DEF AscendsOver, Climbs
<1> QED
  BY <1>2, <1>3, <1>4, <1>5

\* sparse_connect leaves sound rows.
LEMMA CompressedSound ==
  ASSUME NEW m \in Nat, NEW n \in Nat, NEW wired \in SUBSET ((0 .. m - 1) \X (0 .. n - 1)), NEW weight \in Int
  PROVE  RowsSound(Compressed(wired, n, weight), m, n)
<1> DEFINE row(j) == [cols |-> Columns(wired, j), vals |-> [k \in DOMAIN Columns(wired, j) |-> weight]]
           rows == [j \in 1 .. n |-> row(j - 1)]
<1>1. Compressed(wired, n, weight) = Stacked(rows)
  BY DEF Compressed
<1>2. ASSUME NEW j \in 1 .. n
      PROVE  /\ rows[j].cols \in Seq(0 .. m - 1) /\ rows[j].vals \in Seq(Int)
             /\ Len(rows[j].vals) = Len(rows[j].cols) /\ Climbs(rows[j].cols)
  <2> DEFINE S == {s[1] : s \in {s \in wired : s[2] = j - 1}}
  <2>1. S \in SUBSET (0 .. m - 1) /\ S \in SUBSET (0 .. m)
    OBVIOUS
  <2>2. Columns(wired, j - 1) = Ascending(S)
    BY DEF Columns
  <2> HIDE DEF S
  <2>3. PICK q : q = Columns(wired, j - 1)
    OBVIOUS
  <2>4. q \in Seq(S) /\ Len(q) \in Nat /\ DOMAIN q = 1 .. Len(q) /\ Climbs(q)
    BY <2>1, <2>2, <2>3, AscendingLists
  <2>5. q \in Seq(0 .. m - 1)
    BY <2>1, <2>4, Element, Widened
  <2>6. rows[j] = [cols |-> q, vals |-> [k \in 1 .. Len(q) |-> weight]]
    BY <2>3, <2>4
  <2>7. [k \in 1 .. Len(q) |-> weight] \in Seq(Int) /\ Len([k \in 1 .. Len(q) |-> weight]) = Len(q)
    BY <2>4
  <2> HIDE DEF rows
  <2> QED
    BY <2>4, <2>5, <2>6, <2>7
<1>3. DOMAIN rows = 1 .. n /\ Len(rows) = n
  OBVIOUS
<1> HIDE DEF rows
<1>4. RowsOf(rows, n, 0 .. m - 1, Int) /\ Even(rows, n)
  BY <1>2, <1>3 DEF RowsOf, Even
<1> QED
  BY <1>1, <1>2, <1>3, <1>4, StackedSound
-----------------------------------------------------------------------------
(* grow.                                                                    *)

\* A list stays ascending with a greater number at its end.
LEMMA AppendClimbs ==
  ASSUME NEW S \in SUBSET Int, NEW s \in Seq(S), Climbs(s), NEW x \in S, \A i \in 1 .. Len(s) : s[i] < x
  PROVE  /\ Append(s, x) \in Seq(S) /\ Len(s) \in Nat /\ Len(Append(s, x)) = Len(s) + 1 /\ Climbs(Append(s, x))
         /\ \A i \in 1 .. Len(s) + 1 : (i \in 1 .. Len(s) /\ Append(s, x)[i] = s[i]) \/ Append(s, x)[i] = x
<1>1. PICK t : t = Append(s, x)
  OBVIOUS
<1>2. /\ t \in Seq(S) /\ Len(t) = Len(s) + 1 /\ t[Len(s) + 1] = x /\ \A i \in 1 .. Len(s) : t[i] = s[i]
  BY <1>1, AppendProperties
<1>3. Len(s) \in Nat
  BY LenProperties
<1>4. \A i \in 1 .. Len(s) + 1 : i \in 1 .. Len(s) \/ i = Len(s) + 1
  BY <1>3
<1>5. ASSUME NEW i \in 1 .. Len(s) + 1, NEW k \in 1 .. Len(s) + 1, i < k PROVE t[i] < t[k]
  <2>1. i \in 1 .. Len(s)
    BY <1>3, <1>5
  <2>2. CASE k \in 1 .. Len(s)
    BY <1>2, <1>5, <2>1, <2>2 DEF Climbs
  <2>3. CASE k = Len(s) + 1
    BY <1>2, <2>1, <2>3
  <2> QED
    BY <1>4, <2>2, <2>3
<1> QED
  BY <1>1, <1>2, <1>3, <1>4, <1>5 DEF Climbs

\* What a merge of the positions after b up to e of the arrays of c with P goes through.
RowGood(c, b, e, S) ==
  /\ b \in Nat /\ e \in Nat /\ b <= e /\ \A k \in b + 1 .. e : c.cols[k] \in S /\ c.vals[k] \in Int
  /\ \A i, k \in b + 1 .. e : i < k => c.cols[i] < c.cols[k]
Merging(m, c, b, e, P) ==
  /\ m.k \in b + 1 .. e + 1 /\ m.p \in 1 .. Len(P) + 1 /\ Len(m.cols) = Len(m.vals) /\ Climbs(m.cols)
  /\ \A i \in 1 .. Len(m.cols) :
       (\A q \in m.k .. e : m.cols[i] < c.cols[q]) /\ \A q \in m.p .. Len(P) : m.cols[i] < P[q]
MergeStates(S) == [k : Nat, p : Nat, cols : Seq(S), vals : Seq(Int)]

\* A round that takes a column greater than those taken keeps the merge ascending.
LEMMA TakesMerging ==
  ASSUME NEW S \in SUBSET Int, NEW c, NEW b, NEW e, RowGood(c, b, e, S), NEW P \in Seq(S), Climbs(P),
         NEW m \in MergeStates(S), Merging(m, c, b, e, P),
         NEW k, NEW p, m.k <= k, m.p <= p, k \in b + 1 .. e + 1, p \in 1 .. Len(P) + 1,
         NEW x \in S, NEW y \in Int, \A i \in 1 .. Len(m.cols) : m.cols[i] < x,
         \A q \in k .. e : x < c.cols[q], \A q \in p .. Len(P) : x < P[q]
  PROVE  Takes(m, k, p, x, y) \in MergeStates(S) /\ Merging(Takes(m, k, p, x, y), c, b, e, P)
<1>1. PICK s, v, t : s = m.cols /\ v = m.vals /\ t = Takes(m, k, p, x, y)
  OBVIOUS
<1>2. s \in Seq(S) /\ v \in Seq(Int) /\ Len(s) = Len(v) /\ Climbs(s) /\ m.k \in Nat /\ m.p \in Nat /\ b \in Nat /\ e \in Nat
  BY <1>1 DEF MergeStates, Merging, RowGood
<1>3. t.k = k /\ t.p = p /\ t.cols = Append(s, x) /\ t.vals = Append(v, y) /\ t = [k |-> k, p |-> p, cols |-> t.cols, vals |-> t.vals]
  BY <1>1 DEF Takes
<1>4. /\ t.cols \in Seq(S) /\ Len(s) \in Nat /\ Len(t.cols) = Len(s) + 1 /\ Climbs(t.cols)
      /\ \A i \in 1 .. Len(s) + 1 : (i \in 1 .. Len(s) /\ t.cols[i] = s[i]) \/ t.cols[i] = x
  <2>1. \A i \in 1 .. Len(s) : s[i] < x
    BY <1>1
  <2>2. /\ Append(s, x) \in Seq(S) /\ Len(s) \in Nat /\ Len(Append(s, x)) = Len(s) + 1 /\ Climbs(Append(s, x))
        /\ \A i \in 1 .. Len(s) + 1 : (i \in 1 .. Len(s) /\ Append(s, x)[i] = s[i]) \/ Append(s, x)[i] = x
    BY <1>2, <2>1, AppendClimbs
  <2> QED
    BY <1>3, <2>2
<1>5. t.vals \in Seq(Int) /\ Len(t.vals) = Len(v) + 1
  BY <1>2, <1>3, AppendProperties
<1>6. Len(P) \in Nat
  BY LenProperties
<1>7. k \in Nat /\ p \in Nat
  BY <1>2, <1>6
<1>8. t \in MergeStates(S)
  BY <1>3, <1>4, <1>5, <1>7 DEF MergeStates
<1>9. ASSUME NEW i \in 1 .. Len(t.cols)
      PROVE  (\A q \in k .. e : t.cols[i] < c.cols[q]) /\ \A q \in p .. Len(P) : t.cols[i] < P[q]
  <2>1. CASE i \in 1 .. Len(s) /\ t.cols[i] = s[i]
    <3>1. \A q \in k .. e : q \in m.k .. e
      BY <1>2, <1>7
    <3>2. \A q \in p .. Len(P) : q \in m.p .. Len(P)
      BY <1>2, <1>6, <1>7
    <3>3. (\A q \in m.k .. e : s[i] < c.cols[q]) /\ \A q \in m.p .. Len(P) : s[i] < P[q]
      BY <1>1, <2>1 DEF Merging
    <3> QED
      BY <2>1, <3>1, <3>2, <3>3
  <2>2. CASE t.cols[i] = x
    BY <2>2
  <2> QED
    BY <1>4, <2>1, <2>2
<1>10. Len(t.cols) = Len(t.vals)
  BY <1>2, <1>4, <1>5
<1>11. Merging(t, c, b, e, P)
  BY <1>3, <1>4, <1>9, <1>10 DEF Merging
<1> QED
  BY <1>1, <1>8, <1>11
\* Every round of the merge does, whichever list it takes from.
LEMMA RoundMerging ==
  ASSUME NEW S \in SUBSET Int, NEW c, NEW j, NEW b, NEW e, e = c.rowptr[j + 2], RowGood(c, b, e, S),
         NEW P \in Seq(S), Climbs(P), NEW m \in MergeStates(S), Merging(m, c, b, e, P), NEW weight \in Int
  PROVE  MergeRound(m, c, j, P, weight) \in MergeStates(S) /\ Merging(MergeRound(m, c, j, P, weight), c, b, e, P)
<1> DEFINE Ok(t) == t \in MergeStates(S) /\ Merging(t, c, b, e, P)
<1>1. /\ b \in Nat /\ e \in Nat /\ Len(P) \in Nat /\ m.k \in b + 1 .. e + 1 /\ m.p \in 1 .. Len(P) + 1
      /\ \A i \in 1 .. Len(m.cols) : m.cols[i] \in Int
  BY LenProperties, ElementOfSeq DEF RowGood, Merging, MergeStates
<1>2. ASSUME m.k <= e
      PROVE  /\ m.k \in b + 1 .. e /\ m.k + 1 \in b + 1 .. e + 1 /\ m.k <= m.k + 1
             /\ c.cols[m.k] \in S /\ c.vals[m.k] \in Int /\ c.cols[m.k] \in Int
             /\ \A i \in 1 .. Len(m.cols) : m.cols[i] < c.cols[m.k]
             /\ \A q \in m.k + 1 .. e : c.cols[m.k] < c.cols[q]
  <2>1. m.k \in b + 1 .. e /\ m.k \in m.k .. e /\ m.k + 1 \in b + 1 .. e + 1 /\ m.k <= m.k + 1
    BY <1>1, <1>2
  <2>2. \A q \in m.k + 1 .. e : q \in b + 1 .. e /\ m.k < q
    BY <1>1
  <2>3. \A q \in m.k + 1 .. e : c.cols[m.k] < c.cols[q]
    BY <2>1, <2>2 DEF RowGood
  <2>4. \A i \in 1 .. Len(m.cols) : m.cols[i] < c.cols[m.k]
    BY <2>1 DEF Merging
  <2>5. c.cols[m.k] \in S /\ c.vals[m.k] \in Int
    BY <2>1 DEF RowGood
  <2> QED
    BY <2>1, <2>3, <2>4, <2>5
<1>3. ASSUME m.p <= Len(P)
      PROVE  /\ m.p \in 1 .. Len(P) /\ m.p + 1 \in 1 .. Len(P) + 1 /\ m.p <= m.p + 1 /\ P[m.p] \in S /\ P[m.p] \in Int
             /\ \A i \in 1 .. Len(m.cols) : m.cols[i] < P[m.p]
             /\ \A q \in m.p + 1 .. Len(P) : P[m.p] < P[q]
  <2>1. m.p \in 1 .. Len(P) /\ m.p \in m.p .. Len(P) /\ m.p + 1 \in 1 .. Len(P) + 1 /\ m.p <= m.p + 1
    BY <1>1, <1>3
  <2>2. \A q \in m.p + 1 .. Len(P) : q \in 1 .. Len(P) /\ m.p < q
    BY <1>1
  <2>3. \A q \in m.p + 1 .. Len(P) : P[m.p] < P[q]
    BY <2>1, <2>2 DEF Climbs
  <2>4. \A i \in 1 .. Len(m.cols) : m.cols[i] < P[m.p]
    BY <2>1 DEF Merging
  <2>5. P[m.p] \in S
    BY <2>1, ElementOfSeq
  <2> QED
    BY <2>1, <2>3, <2>4, <2>5
<1>4. CASE m.k > e /\ m.p > Len(P)
  BY <1>4 DEF MergeRound
<1>5. CASE m.k <= e /\ (m.p > Len(P) \/ c.cols[m.k] < P[m.p])
  <2>1. MergeRound(m, c, j, P, weight) = Takes(m, m.k + 1, m.p, c.cols[m.k], c.vals[m.k])
    BY <1>1, <1>5 DEF MergeRound
  <2>2. \A q \in m.p .. Len(P) : c.cols[m.k] < P[q]
    <3> SUFFICES ASSUME NEW q \in m.p .. Len(P) PROVE c.cols[m.k] < P[q]
      OBVIOUS
    <3>1. m.p <= Len(P) /\ c.cols[m.k] < P[m.p]
      BY <1>1, <1>5
    <3>2. q = m.p \/ q \in m.p + 1 .. Len(P)
      BY <1>1
    <3>3. q \in 1 .. Len(P) /\ P[q] \in Int
      <4>1. q \in 1 .. Len(P)
        BY <1>1
      <4>2. P[q] \in S
        BY <4>1, ElementOfSeq
      <4> QED
        BY <4>1, <4>2
    <3>4. CASE q \in m.p + 1 .. Len(P)
      <4>1. P[m.p] < P[q] /\ P[m.p] \in Int
        BY <1>3, <3>1, <3>4
      <4> QED
        BY <1>2, <1>5, <3>1, <3>3, <4>1
    <3> QED
      BY <3>1, <3>2, <3>4
  <2>3. m.p <= m.p
    BY <1>1
  <2> QED
    <3>1. /\ m.k + 1 \in b + 1 .. e + 1 /\ m.k <= m.k + 1 /\ c.cols[m.k] \in S /\ c.vals[m.k] \in Int
          /\ \A i \in 1 .. Len(m.cols) : m.cols[i] < c.cols[m.k]
          /\ \A q \in m.k + 1 .. e : c.cols[m.k] < c.cols[q]
      BY <1>2, <1>5
    <3>2. m.p \in 1 .. Len(P) + 1
      BY <1>1
    <3>3. Ok(Takes(m, m.k + 1, m.p, c.cols[m.k], c.vals[m.k]))
      BY <2>2, <2>3, <3>1, <3>2, TakesMerging
    <3> QED
      BY <2>1, <3>3
<1>6. CASE m.p <= Len(P) /\ (m.k > e \/ c.cols[m.k] > P[m.p])
  <2>1. MergeRound(m, c, j, P, weight) \in {Takes(m, m.k, m.p + 1, P[m.p], weight), [m EXCEPT !.p = @ + 1]}
    <3>1. ~(m.k > e /\ m.p > Len(P)) /\ ~(m.p > Len(P)) /\ ~(m.k <= e /\ c.cols[m.k] < P[m.p])
      <4>1. m.p <= Len(P) /\ ~(m.p > Len(P))
        BY <1>1, <1>6
      <4>2. CASE m.k <= e
        <5>1. c.cols[m.k] > P[m.p] /\ c.cols[m.k] \in Int /\ P[m.p] \in Int
          BY <1>1, <1>2, <1>3, <1>6, <4>2
        <5>2. ~(c.cols[m.k] < P[m.p])
          BY <5>1
        <5> QED
          BY <4>1, <5>2
      <4>3. CASE ~(m.k <= e)
        BY <4>1, <4>3
      <4> QED
        BY <4>2, <4>3
    <3> QED
      BY <1>6, <3>1, Zenon DEF MergeRound
  <2>2. \A q \in m.k .. e : P[m.p] < c.cols[q]
    <3> SUFFICES ASSUME NEW q \in m.k .. e PROVE P[m.p] < c.cols[q]
      OBVIOUS
    <3>1. m.k <= e /\ c.cols[m.k] > P[m.p]
      BY <1>1, <1>6
    <3>2. q = m.k \/ q \in m.k + 1 .. e
      BY <1>1
    <3>3. c.cols[q] \in Int
      <4>1. q \in b + 1 .. e
        BY <1>1
      <4>2. c.cols[q] \in S
        BY <4>1 DEF RowGood
      <4> QED
        BY <4>2
    <3>4. CASE q \in m.k + 1 .. e
      <4>1. c.cols[m.k] < c.cols[q] /\ c.cols[m.k] \in Int
        BY <1>2, <3>1, <3>4
      <4> QED
        BY <1>3, <1>6, <3>1, <3>3, <4>1
    <3> QED
      BY <1>3, <1>6, <3>1, <3>2, <3>3, <3>4
  <2>3. m.k <= m.k
    BY <1>1
  <2>4. Ok(Takes(m, m.k, m.p + 1, P[m.p], weight))
    BY <1>1, <1>3, <1>6, <2>2, <2>3, TakesMerging
  <2>5. Ok([m EXCEPT !.p = @ + 1])
    <3>1. PICK t : t = [m EXCEPT !.p = @ + 1]
      OBVIOUS
    <3>2. /\ t \in MergeStates(S) /\ t.k = m.k /\ t.p = m.p + 1 /\ t.cols = m.cols /\ t.vals = m.vals
      <4>1. m.p + 1 \in Nat
        BY <1>1
      <4>2. t = [k |-> m.k, p |-> m.p + 1, cols |-> m.cols, vals |-> m.vals]
        BY <3>1 DEF MergeStates
      <4> QED
        BY <4>1, <4>2 DEF MergeStates
    <3>3. \A q \in m.p + 1 .. Len(P) : q \in m.p .. Len(P)
      BY <1>1
    <3>4. Merging(t, c, b, e, P)
      BY <1>3, <1>6, <3>2, <3>3 DEF Merging
    <3> QED
      BY <3>1, <3>2, <3>4
  <2> QED
    BY <2>1, <2>4, <2>5
<1>7. CASE m.k <= e /\ m.p <= Len(P) /\ c.cols[m.k] = P[m.p]
  <2>1. MergeRound(m, c, j, P, weight) = Takes(m, m.k + 1, m.p + 1, c.cols[m.k], c.vals[m.k])
    BY <1>1, <1>2, <1>3, <1>7, SMTT(30) DEF MergeRound
  <2>2. \A q \in m.p + 1 .. Len(P) : c.cols[m.k] < P[q]
    BY <1>3, <1>7
  <2> QED
    <3>1. /\ m.k + 1 \in b + 1 .. e + 1 /\ m.k <= m.k + 1 /\ c.cols[m.k] \in S /\ c.vals[m.k] \in Int
          /\ \A i \in 1 .. Len(m.cols) : m.cols[i] < c.cols[m.k]
          /\ \A q \in m.k + 1 .. e : c.cols[m.k] < c.cols[q]
      BY <1>2, <1>7
    <3>2. m.p + 1 \in 1 .. Len(P) + 1 /\ m.p <= m.p + 1
      BY <1>3, <1>7
    <3>3. Ok(Takes(m, m.k + 1, m.p + 1, c.cols[m.k], c.vals[m.k]))
      BY <2>2, <3>1, <3>2, TakesMerging
    <3> QED
      BY <2>1, <3>3
<1>8. \/ m.k > e /\ m.p > Len(P)
      \/ m.k <= e /\ (m.p > Len(P) \/ c.cols[m.k] < P[m.p])
      \/ m.p <= Len(P) /\ (m.k > e \/ c.cols[m.k] > P[m.p])
      \/ m.k <= e /\ m.p <= Len(P) /\ c.cols[m.k] = P[m.p]
  BY <1>1, <1>2, <1>3, SMTT(30)
<1> QED
  BY <1>4, <1>5, <1>6, <1>7, <1>8
\* The rounds of a merge, from nothing to the row it leaves.
MergeRuns(g, c, j, b, e, P, weight, S) ==
  LET n == e - b + Len(P) IN
  /\ MergeRow(c, j, P, weight) = g[n] /\ n \in Nat
  /\ g[0] = [k |-> b + 1, p |-> 1, cols |-> <<>>, vals |-> <<>>]
  /\ \A i \in 1 .. n : g[i] = MergeRound(g[i - 1], c, j, P, weight)
  /\ \A i \in 0 .. n : g[i] \in MergeStates(S) /\ Merging(g[i], c, b, e, P)
LEMMA MergeRun ==
  ASSUME NEW S \in SUBSET Int, NEW c, NEW j, NEW b, NEW e, b = c.rowptr[j + 1], e = c.rowptr[j + 2], RowGood(c, b, e, S),
         NEW P \in Seq(S), Climbs(P), NEW weight \in Int
  PROVE  \E g : MergeRuns(g, c, j, b, e, P, weight, S)
<1> DEFINE n == e - b + Len(P)
           V == {m \in MergeStates(S) : Merging(m, c, b, e, P)}
           start == [k |-> b + 1, p |-> 1, cols |-> <<>>, vals |-> <<>>]
           F == [x \in V \X (1 .. n) |-> MergeRound(x[1], c, j, P, weight)]
           Body(g) == [i \in 0 .. n |-> IF i = 0 THEN start ELSE MergeRound(g[i - 1], c, j, P, weight)]
<1>1. MergeRow(c, j, P, weight) = (CHOOSE g : g = Body(g))[n]
  BY DEF MergeRow
<1>2. b \in Nat /\ e \in Nat /\ b <= e /\ Len(P) \in Nat
  BY LenProperties DEF RowGood
<1>3. n \in Nat
  <2>1. \A x, y, z \in Nat : x <= y => y - x + z \in Nat
    OBVIOUS
  <2> QED
    BY <1>2, <2>1, Zenon
<1>4. start \in V
  <2>1. start \in MergeStates(S)
    BY <1>2, EmptySeq DEF MergeStates
  <2>2. b + 1 \in b + 1 .. e + 1 /\ 1 \in 1 .. Len(P) + 1
    BY <1>2
  <2>3. Merging(start, c, b, e, P)
    BY <2>2 DEF Merging, Climbs
  <2> QED
    BY <2>1, <2>3
<1>5. ASSUME NEW m \in V PROVE MergeRound(m, c, j, P, weight) \in V
  BY RoundMerging
<1> HIDE DEF n, V, start
<1>6. \A m \in V, i \in 1 .. n : F[<<m, i>>] = MergeRound(m, c, j, P, weight) /\ F[<<m, i>>] \in V
  BY <1>5
<1> HIDE DEF F
<1>7. PICK f : Passes(f, V, n, start, F)
  <2>1. StaysIn(V, F, n)
    BY <1>6 DEF StaysIn
  <2> QED
    BY <1>3, <1>4, <2>1, LoopExists
<1>8. f = Body(f)
  <2>1. ASSUME NEW i \in 1 .. n PROVE f[i] = MergeRound(f[i - 1], c, j, P, weight)
    <3>1. i - 1 \in 0 .. n
      BY <1>3
    <3>2. f[i - 1] \in V /\ f[i] = F[<<f[i - 1], i>>]
      BY <1>7, <3>1 DEF Passes
    <3> QED
      BY <1>6, <3>2
  <2>2. f \in [0 .. n -> V] /\ f[0] = start
    BY <1>7 DEF Passes
  <2>3. \A i \in 0 .. n : i = 0 \/ i \in 1 .. n
    BY <1>3
  <2> QED
    BY <2>1, <2>2, <2>3
<1>9. PICK g : g = Body(g) /\ MergeRow(c, j, P, weight) = g[n]
  BY <1>1, <1>8
<1> HIDE DEF Body
<1>10. g[0] = start /\ \A i \in 1 .. n : g[i] = MergeRound(g[i - 1], c, j, P, weight)
  BY <1>3, <1>9 DEF Body
<1> DEFINE I == {i \in 0 .. n : g[i] \in V}
<1>11. ASSUME NEW i \in 1 .. n, i - 1 \in I PROVE i \in I
  <2>1. g[i - 1] \in V
    BY <1>11
  <2>2. MergeRound(g[i - 1], c, j, P, weight) \in V
    BY <1>5, <2>1
  <2>3. g[i] \in V
    BY <1>10, <2>2
  <2> QED
    BY <2>3
<1>12. 0 \in I
  BY <1>3, <1>4, <1>10
<1> HIDE DEF I
<1>13. \A i \in 0 .. n : i \in I
  BY <1>3, <1>11, <1>12, Induction
<1>14. \A i \in 0 .. n : g[i] \in V
  BY <1>13 DEF I
<1>15. MergeRuns(g, c, j, b, e, P, weight, S)
  BY <1>3, <1>9, <1>10, <1>14, Zenon DEF MergeRuns, V, n, start
<1> QED
  BY <1>15

\* The row a merge leaves ascends, and its columns are of the source.
LEMMA MergeRowClimbs ==
  ASSUME NEW S \in SUBSET Int, NEW c, NEW j, NEW b, NEW e, b = c.rowptr[j + 1], e = c.rowptr[j + 2], RowGood(c, b, e, S),
         NEW P \in Seq(S), Climbs(P), NEW weight \in Int
  PROVE  LET r == MergeRow(c, j, P, weight) IN
         r.cols \in Seq(S) /\ r.vals \in Seq(Int) /\ Len(r.cols) = Len(r.vals) /\ Climbs(r.cols)
<1>1. PICK g : MergeRuns(g, c, j, b, e, P, weight, S)
  BY MergeRun
<1>2. PICK n \in Nat : n = e - b + Len(P)
  BY <1>1 DEF MergeRuns
<1>3. MergeRow(c, j, P, weight) = g[n] /\ g[n] \in MergeStates(S) /\ Merging(g[n], c, b, e, P)
  BY <1>1, <1>2 DEF MergeRuns
<1> QED
  BY <1>3 DEF MergeStates, Merging
\* A row of sound rows.
LEMMA SoundRow ==
  ASSUME NEW m \in Nat, NEW n \in Nat, NEW c, RowsSound(c, m, n), NEW j \in 0 .. n - 1
  PROVE  /\ RowGood(c, c.rowptr[j + 1], c.rowptr[j + 2], 0 .. m - 1)
         /\ c.rowptr[j + 2] <= Len(c.cols) /\ Len(c.cols) \in Nat
<1>1. PICK ptr, cols : ptr = c.rowptr /\ cols = c.cols
  OBVIOUS
<1>2. /\ ptr \in Seq(Nat) /\ cols \in Seq(0 .. m - 1) /\ c.vals \in Seq(Int) /\ Len(ptr) = n + 1
      /\ ptr[n + 1] = Len(cols) /\ Len(c.vals) = Len(cols)
      /\ \A i \in 1 .. n : RowSound(ptr, cols, i)
  BY <1>1 DEF RowsSound
<1>3. Len(cols) \in Nat /\ \A i \in 1 .. n + 1 : ptr[i] \in Nat
  BY <1>2, LenProperties, ElementOfSeq
<1>4. \A i \in 1 .. n : ptr[i] <= ptr[i + 1]
  BY <1>2 DEF RowSound
<1>5. j + 1 \in 1 .. n /\ j + 2 \in 1 .. n + 1 /\ j + 1 \in 1 .. n + 1 /\ n + 1 \in 1 .. n + 1 /\ j + 1 + 1 = j + 2 /\ j + 2 <= n + 1
  OBVIOUS
<1>6. ptr[j + 2] <= ptr[n + 1]
  BY <1>3, <1>4, <1>5, StartsAscend
<1>7. PICK b, e : b = ptr[j + 1] /\ e = ptr[j + 2]
  OBVIOUS
<1>8. b \in Nat /\ e \in Nat /\ b <= e /\ e <= Len(cols)
  BY <1>2, <1>3, <1>4, <1>5, <1>6, <1>7
<1>9. \A k \in b + 1 .. e : cols[k] \in 0 .. m - 1 /\ c.vals[k] \in Int
  <2>1. \A k \in b + 1 .. e : k \in 1 .. Len(cols)
    BY <1>3, <1>8
  <2>2. \A k \in 1 .. Len(cols) : cols[k] \in 0 .. m - 1 /\ c.vals[k] \in Int
    BY <1>2, ElementOfSeq
  <2> QED
    BY <2>1, <2>2
<1>10. \A i, k \in b + 1 .. e : i < k => cols[i] < cols[k]
  <2>1. RowSound(ptr, cols, j + 1)
    BY <1>2, <1>5
  <2> QED
    BY <1>5, <1>7, <2>1 DEF RowSound
<1> QED
  BY <1>1, <1>3, <1>7, <1>8, <1>9, <1>10 DEF RowGood

\* The weight v of i is in row j of the arrays c; in one row of its own.
Has(c, j, i, v) == \E k \in c.rowptr[j] + 1 .. c.rowptr[j + 1] : c.cols[k] = i /\ c.vals[k] = v
Shows(r, i, v) == \E k \in 1 .. Len(r.cols) : r.cols[k] = i /\ r.vals[k] = v

\* The l positions after p.
LEMMA Shift ==
  ASSUME NEW p \in Nat, NEW l \in Nat
  PROVE  /\ \A k \in 1 .. l : p + k \in p + 1 .. p + l /\ (p + 1) + k - 1 = p + k
         /\ \A k \in p + 1 .. p + l : k - p \in 1 .. l /\ p + (k - p) = k
         /\ \A i, k \in 1 .. l : i < k => p + i < p + k
  OBVIOUS

\* The positions from d = p + 1 to q, of h.
Spans(p, q, h, d, l) == d \in Nat /\ l \in Nat /\ d = p + 1 /\ q = p + l /\ q - d + 1 = l /\ d \in 1 .. h + 1 /\ q \in d - 1 .. h
LEMMA Between ==
  ASSUME NEW p \in Nat, NEW q \in Nat, NEW h \in Nat, p <= q, q <= h
  PROVE  \E d, l : Spans(p, q, h, d, l)
<1>1. /\ p + 1 \in Nat /\ q - p \in Nat /\ q = p + (q - p) /\ q - (p + 1) + 1 = q - p
      /\ p + 1 \in 1 .. h + 1 /\ q \in (p + 1) - 1 .. h
  OBVIOUS
<1> QED
  BY <1>1 DEF Spans

\* A row as it is.
RowKept(c, b, e) == [cols |-> SubSeq(c.cols, b + 1, e), vals |-> SubSeq(c.vals, b + 1, e)]
LEMMA KeptRow ==
  ASSUME NEW m \in Nat, NEW n \in Nat, NEW c, RowsSound(c, m, n), NEW j \in 0 .. n - 1,
         NEW b, NEW e, b = c.rowptr[j + 1], e = c.rowptr[j + 2], NEW r, r = RowKept(c, b, e)
  PROVE  /\ r.cols \in Seq(0 .. m - 1) /\ r.vals \in Seq(Int) /\ Len(r.vals) = Len(r.cols) /\ Climbs(r.cols)
         /\ \A i, v : Shows(r, i, v) <=> Has(c, j + 1, i, v)
<1>1. RowGood(c, b, e, 0 .. m - 1) /\ e <= Len(c.cols) /\ Len(c.cols) \in Nat
  BY SoundRow
<1>2. PICK s, v : s = SubSeq(c.cols, b + 1, e) /\ v = SubSeq(c.vals, b + 1, e)
  OBVIOUS
<1>3. r.cols = s /\ r.vals = v
  BY <1>2 DEF RowKept
<1>4. PICK p \in Nat, q \in Nat : p = b /\ q = e /\ p <= q
  BY <1>1 DEF RowGood
<1>5. PICK x \in Seq(0 .. m - 1), y \in Seq(Int) : x = c.cols /\ y = c.vals /\ Len(y) = Len(x)
  BY DEF RowsSound
<1>6. PICK h \in Nat : h = Len(x) /\ q <= h
  BY <1>1, <1>4, <1>5
<1>7. PICK d, l : Spans(p, q, h, d, l)
  BY <1>4, <1>6, Between
<1>8. d \in Nat /\ l \in Nat /\ d = p + 1 /\ q = p + l /\ q - d + 1 = l /\ d \in 1 .. h + 1 /\ q \in d - 1 .. h
  BY <1>7 DEF Spans
<1>9. \A i \in 1 .. l : d + i - 1 = p + i
  BY <1>8, Shift
<1>10. s = SubSeq(x, d, q) /\ v = SubSeq(y, d, q)
  BY <1>2, <1>4, <1>5, <1>8
<1>11. s \in Seq(0 .. m - 1) /\ Len(s) = l /\ \A i \in 1 .. l : s[i] = c.cols[p + i]
  <2>1. d \in 1 .. Len(x) + 1 /\ q \in d - 1 .. Len(x)
    BY <1>6, <1>8
  <2>2. /\ SubSeq(x, d, q) \in Seq(0 .. m - 1) /\ Len(SubSeq(x, d, q)) = q - d + 1
        /\ \A i \in 1 .. q - d + 1 : SubSeq(x, d, q)[i] = x[d + i - 1]
    BY <2>1, SubSeqProperties, SMTT(30)
  <2> QED
    BY <1>5, <1>8, <1>9, <1>10, <2>2
<1>12. v \in Seq(Int) /\ Len(v) = l /\ \A i \in 1 .. l : v[i] = c.vals[p + i]
  <2>1. d \in 1 .. Len(y) + 1 /\ q \in d - 1 .. Len(y)
    BY <1>5, <1>6, <1>8
  <2>2. /\ SubSeq(y, d, q) \in Seq(Int) /\ Len(SubSeq(y, d, q)) = q - d + 1
        /\ \A i \in 1 .. q - d + 1 : SubSeq(y, d, q)[i] = y[d + i - 1]
    BY <2>1, SubSeqProperties, SMTT(30)
  <2> QED
    BY <1>5, <1>8, <1>9, <1>10, <2>2
<1>13. /\ \A k \in 1 .. l : p + k \in p + 1 .. q
       /\ \A k \in p + 1 .. q : k - p \in 1 .. l /\ p + (k - p) = k
       /\ \A i, k \in 1 .. l : i < k => p + i < p + k
  BY <1>8, Shift
<1>14. Climbs(s)
  <2>1. \A i, k \in p + 1 .. q : i < k => c.cols[i] < c.cols[k]
    BY <1>1, <1>4 DEF RowGood
  <2> QED
    BY <1>11, <1>13, <2>1 DEF Climbs
<1>15. ASSUME NEW i, NEW w PROVE Shows(r, i, w) <=> Has(c, j + 1, i, w)
  <2>1. c.rowptr[j + 1] = p /\ c.rowptr[(j + 1) + 1] = q
    <3>1. (j + 1) + 1 = j + 2
      OBVIOUS
    <3> QED
      BY <1>4, <3>1
  <2>2. Shows(r, i, w) <=> \E k \in 1 .. l : s[k] = i /\ v[k] = w
    BY <1>3, <1>11 DEF Shows
  <2>3. \A k \in 1 .. l : s[k] = i /\ v[k] = w => c.cols[p + k] = i /\ c.vals[p + k] = w
    BY <1>11, <1>12
  <2>4. \A k \in p + 1 .. q : c.cols[k] = i /\ c.vals[k] = w => s[k - p] = i /\ v[k - p] = w
    BY <1>11, <1>12, <1>13
  <2>5. (\E k \in 1 .. l : s[k] = i /\ v[k] = w) <=> \E k \in p + 1 .. q : c.cols[k] = i /\ c.vals[k] = w
    BY <1>13, <2>3, <2>4
  <2> QED
    BY <2>1, <2>2, <2>5 DEF Has
<1> QED
  BY <1>3, <1>11, <1>12, <1>14, <1>15

\* The rows that grow stacks: merged for the neurons of Q, kept for the others.
GrowsTo(rows, c, P, Q, weight, m, n) ==
  /\ RowsOf(rows, n, 0 .. m - 1, Int) /\ Len(rows) = n /\ Even(rows, n) /\ \A j \in 1 .. n : Climbs(rows[j].cols)
  /\ MergeRows(c, P, Q, weight) = Stacked(rows)
  /\ \A j \in 1 .. n : IF j - 1 \in Range(Q) THEN rows[j] = MergeRow(c, j - 1, P, weight)
                       ELSE \A i, v : Shows(rows[j], i, v) <=> Has(c, j, i, v)
LEMMA MergedRows ==
  ASSUME NEW m \in Nat, NEW c, SizeOf(c.dst) \in Nat, RowsSound(c, m, SizeOf(c.dst)),
         NEW P \in Seq(0 .. m - 1), Climbs(P), NEW Q, NEW weight \in Int
  PROVE  \E rows : GrowsTo(rows, c, P, Q, weight, m, SizeOf(c.dst))
<1> DEFINE n == SizeOf(c.dst)
           kept(j) == [cols |-> SubSeq(c.cols, c.rowptr[j + 1] + 1, c.rowptr[j + 2]),
                       vals |-> SubSeq(c.vals, c.rowptr[j + 1] + 1, c.rowptr[j + 2])]
           row(j) == IF j \in Range(Q) THEN MergeRow(c, j, P, weight) ELSE kept(j)
           rows == [j \in 1 .. n |-> row(j - 1)]
<1>1. MergeRows(c, P, Q, weight) = Stacked(rows)
  BY DEF MergeRows
<1> HIDE DEF n
<1>2. n \in Nat /\ RowsSound(c, m, n)
  BY DEF n
<1> DEFINE Good(r) == r.cols \in Seq(0 .. m - 1) /\ r.vals \in Seq(Int) /\ Len(r.vals) = Len(r.cols) /\ Climbs(r.cols)
<1>3. ASSUME NEW j \in 0 .. n - 1
      PROVE  /\ Good(row(j))
             /\ IF j \in Range(Q) THEN row(j) = MergeRow(c, j, P, weight)
                ELSE \A i, v : Shows(row(j), i, v) <=> Has(c, j + 1, i, v)
  <2>1. PICK b, e : b = c.rowptr[j + 1] /\ e = c.rowptr[j + 2]
    OBVIOUS
  <2>2. RowGood(c, b, e, 0 .. m - 1)
    BY <1>2, <2>1, SoundRow
  <2>3. CASE j \in Range(Q)
    <3>1. 0 .. m - 1 \in SUBSET Int
      OBVIOUS
    <3>2. PICK r : r = MergeRow(c, j, P, weight)
      OBVIOUS
    <3>3. r.cols \in Seq(0 .. m - 1) /\ r.vals \in Seq(Int) /\ Len(r.cols) = Len(r.vals) /\ Climbs(r.cols)
      BY <2>1, <2>2, <3>1, <3>2, MergeRowClimbs
    <3>4. row(j) = r
      BY <2>3, <3>2
    <3> HIDE DEF row
    <3> QED
      BY <2>3, <3>2, <3>3, <3>4
  <2>4. CASE j \notin Range(Q)
    <3>1. PICK r : r = RowKept(c, b, e)
      OBVIOUS
    <3>2. row(j) = r
      BY <2>1, <2>4, <3>1 DEF RowKept
    <3>3. Good(r) /\ \A i, v : Shows(r, i, v) <=> Has(c, j + 1, i, v)
      BY <1>2, <2>1, <3>1, KeptRow
    <3> HIDE DEF row
    <3> QED
      BY <2>4, <3>2, <3>3
  <2> QED
    BY <2>3, <2>4
<1> HIDE DEF row
<1>4. DOMAIN rows = 1 .. n /\ Len(rows) = n
  BY <1>2
<1>5. ASSUME NEW j \in 1 .. n
      PROVE  /\ Good(rows[j])
             /\ IF j - 1 \in Range(Q) THEN rows[j] = MergeRow(c, j - 1, P, weight)
                ELSE \A i, v : Shows(rows[j], i, v) <=> Has(c, j, i, v)
  <2>1. rows[j] = row(j - 1) /\ j - 1 \in 0 .. n - 1 /\ (j - 1) + 1 = j
    BY <1>2
  <2> HIDE DEF rows, Good
  <2>2. PICK i : i = j - 1
    OBVIOUS
  <2>3. /\ Good(row(i))
        /\ IF i \in Range(Q) THEN row(i) = MergeRow(c, i, P, weight)
           ELSE \A x, v : Shows(row(i), x, v) <=> Has(c, i + 1, x, v)
    BY <1>3, <2>1, <2>2
  <2> QED
    BY <2>1, <2>2, <2>3
<1> HIDE DEF rows
<1>6. RowsOf(rows, n, 0 .. m - 1, Int) /\ Even(rows, n)
  BY <1>4, <1>5 DEF RowsOf, Even
<1>7. GrowsTo(rows, c, P, Q, weight, m, n)
  BY <1>1, <1>4, <1>5, <1>6 DEF GrowsTo
<1> QED
  BY <1>7 DEF n

\* grow leaves sound rows.
LEMMA MergedSound ==
  ASSUME NEW m \in Nat, NEW c, SizeOf(c.dst) \in Nat, RowsSound(c, m, SizeOf(c.dst)),
         NEW P \in Seq(0 .. m - 1), Climbs(P), NEW Q, NEW weight \in Int
  PROVE  RowsSound(MergeRows(c, P, Q, weight), m, SizeOf(c.dst))
<1>1. PICK n : n = SizeOf(c.dst)
  OBVIOUS
<1>2. PICK rows : GrowsTo(rows, c, P, Q, weight, m, n)
  BY <1>1, MergedRows
<1>3. RowsSound(Stacked(rows), m, n)
  BY <1>1, <1>2, StackedSound DEF GrowsTo
<1> QED
  BY <1>1, <1>2, <1>3 DEF GrowsTo
-----------------------------------------------------------------------------
(* prune.                                                                   *)

\* What the pass of a prune works on: n rows of l synapses in all.
Compactions(n, l, S) == [rowptr : [1 .. n + 1 -> Nat], cols : [1 .. l -> S], vals : [1 .. l -> Int], out : Nat]

\* One synapse is kept, after those that are, or is not.
LEMMA KeepEither ==
  ASSUME NEW n \in Nat, NEW l \in Nat, NEW S, NEW a \in Compactions(n, l, S), NEW k \in 1 .. l, NEW t
  PROVE  /\ Keep(a, k, t) \in Compactions(n, l, S)
         /\ IF Abs(a.vals[k]) < t THEN Keep(a, k, t) = a
            ELSE LET b == Keep(a, k, t) IN
                 /\ b.rowptr = a.rowptr /\ b.out = a.out + 1
                 /\ b.cols = [a.cols EXCEPT ![a.out + 1] = a.cols[k]]
                 /\ b.vals = [a.vals EXCEPT ![a.out + 1] = a.vals[k]]
<1>1. CASE Abs(a.vals[k]) < t
  BY <1>1 DEF Keep
<1>2. CASE ~(Abs(a.vals[k]) < t)
  <2> DEFINE cs == [a.cols EXCEPT ![a.out + 1] = a.cols[k]]
             vs == [a.vals EXCEPT ![a.out + 1] = a.vals[k]]
  <2>1. a = [rowptr |-> a.rowptr, cols |-> a.cols, vals |-> a.vals, out |-> a.out]
    BY DEF Compactions
  <2>2. /\ a.rowptr \in [1 .. n + 1 -> Nat] /\ a.cols \in [1 .. l -> S] /\ a.vals \in [1 .. l -> Int] /\ a.out \in Nat
        /\ a.cols[k] \in S /\ a.vals[k] \in Int
    BY DEF Compactions
  <2>3. Keep(a, k, t) = [rowptr |-> a.rowptr, cols |-> cs, vals |-> vs, out |-> a.out + 1]
    BY <1>2, <2>1 DEF Keep
  <2>4. cs \in [1 .. l -> S] /\ vs \in [1 .. l -> Int]
    BY <2>2
  <2> HIDE DEF cs, vs
  <2>5. Keep(a, k, t) \in Compactions(n, l, S)
    BY <2>2, <2>3, <2>4 DEF Compactions
  <2>6. /\ Keep(a, k, t).rowptr = a.rowptr /\ Keep(a, k, t).out = a.out + 1
        /\ Keep(a, k, t).cols = cs /\ Keep(a, k, t).vals = vs
    BY <2>3
  <2> QED
    BY <1>2, <2>5, <2>6 DEF cs, vs
<1> QED
  BY <1>1, <1>2
\* What the pass over the row of c after b up to e keeps to after k synapses: the first
\* o entries are those of s, then come those kept, in their order, and after them what
\* was there.
Packed(x, o, s, c, b, e, k, l) ==
  /\ x.out \in o .. b + k
  /\ \A q \in x.out + 1 .. l : x.cols[q] = c.cols[q]
  /\ \A q \in 1 .. o : x.cols[q] = s[q]
  /\ \A p \in o + 1 .. x.out : /\ \A q \in o + 1 .. x.out : p < q => x.cols[p] < x.cols[q]
                               /\ \A q \in b + k + 1 .. e : x.cols[p] < c.cols[q]

\* One entry kept or dropped: what was written ascends and comes from entries read.
LEMMA KeepPacked ==
  ASSUME NEW n \in Nat, NEW l \in Nat, NEW S \in SUBSET Int, NEW x \in Compactions(n, l, S), NEW t,
         NEW c, NEW b, NEW e, RowGood(c, b, e, S), e <= l, NEW o \in Nat, o <= b, NEW s,
         NEW k \in 1 .. e - b, Packed(x, o, s, c, b, e, k - 1, l)
  PROVE  Packed(Keep(x, b + k, t), o, s, c, b, e, k, l)
<1>1. /\ b \in Nat /\ e \in Nat /\ x.out \in o .. b + (k - 1) /\ b + k \in b + 1 .. e /\ b + k \in 1 .. l
      /\ b + (k - 1) + 1 = b + k /\ b + k \in x.out + 1 .. l /\ x.out + 1 \in 1 .. l /\ x.out \in Nat
  BY DEF RowGood, Packed
<1>2. PICK y, w : y = Keep(x, b + k, t) /\ w = c.cols[b + k]
  OBVIOUS
<1>3. /\ \A q \in x.out + 1 .. l : x.cols[q] = c.cols[q]
      /\ \A q \in 1 .. o : x.cols[q] = s[q]
      /\ \A p, q \in o + 1 .. x.out : p < q => x.cols[p] < x.cols[q]
      /\ \A p \in o + 1 .. x.out : \A q \in b + k .. e : x.cols[p] < c.cols[q]
  BY <1>1 DEF Packed
<1>4. CASE y = x
  <2>1. \A q \in b + k + 1 .. e : q \in b + k .. e
    BY <1>1
  <2>2. x.out \in o .. b + k
    BY <1>1
  <2> QED
    BY <1>2, <1>3, <1>4, <2>1, <2>2 DEF Packed
<1>5. CASE y.rowptr = x.rowptr /\ y.out = x.out + 1 /\ y.cols = [x.cols EXCEPT ![x.out + 1] = x.cols[b + k]]
  <2>1. x.cols \in [1 .. l -> S] /\ x.cols[b + k] = w
    BY <1>1, <1>2, <1>3 DEF Compactions
  <2>2. \A q \in 1 .. l : y.cols[q] = IF q = x.out + 1 THEN w ELSE x.cols[q]
    BY <1>5, <2>1
  <2>3. y.out \in o .. b + k
    BY <1>1, <1>5
  <2>4. ASSUME NEW q \in y.out + 1 .. l PROVE y.cols[q] = c.cols[q]
    <3>1. q \in x.out + 1 .. l /\ q # x.out + 1 /\ q \in 1 .. l
      BY <1>1, <1>5
    <3> QED
      BY <1>3, <2>2, <3>1
  <2>5. ASSUME NEW q \in 1 .. o PROVE y.cols[q] = s[q]
    <3>1. q # x.out + 1 /\ q \in 1 .. l
      BY <1>1
    <3> QED
      BY <1>3, <2>2, <3>1
  <2>6. \A p \in o + 1 .. y.out : p = x.out + 1 \/ (p \in o + 1 .. x.out /\ p # x.out + 1)
    BY <1>1, <1>5
  <2>7. \A p \in o + 1 .. y.out : p \in 1 .. l
    BY <1>1, <1>5
  <2>8. ASSUME NEW p \in o + 1 .. y.out, NEW q \in o + 1 .. y.out, p < q PROVE y.cols[p] < y.cols[q]
    <3>1. p \in o + 1 .. x.out /\ p # x.out + 1 /\ y.cols[p] = x.cols[p]
      <4>1. p # x.out + 1
        BY <1>1, <1>5, <2>8
      <4> QED
        BY <2>2, <2>6, <2>7, <4>1
    <3>2. CASE q = x.out + 1
      <4>1. y.cols[q] = w /\ b + k \in b + k .. e
        BY <1>1, <2>2, <2>7, <3>2
      <4> QED
        BY <1>2, <1>3, <3>1, <4>1
    <3>3. CASE q # x.out + 1
      <4>1. q \in o + 1 .. x.out /\ y.cols[q] = x.cols[q]
        BY <2>2, <2>6, <2>7, <3>3
      <4> QED
        BY <1>3, <2>8, <3>1, <4>1
    <3> QED
      BY <3>2, <3>3
  <2>9. ASSUME NEW p \in o + 1 .. y.out, NEW q \in b + k + 1 .. e PROVE y.cols[p] < c.cols[q]
    <3>1. q \in b + k .. e /\ q \in b + 1 .. e /\ b + k < q
      BY <1>1
    <3>2. CASE p = x.out + 1
      <4>1. y.cols[p] = w
        BY <2>2, <2>7, <3>2
      <4>2. w < c.cols[q]
        BY <1>1, <1>2, <3>1 DEF RowGood
      <4> QED
        BY <4>1, <4>2
    <3>3. CASE p # x.out + 1
      <4>1. p \in o + 1 .. x.out /\ y.cols[p] = x.cols[p]
        BY <2>2, <2>6, <2>7, <3>3
      <4> QED
        BY <1>3, <3>1, <4>1
    <3> QED
      BY <3>2, <3>3
  <2>10. Packed(y, o, s, c, b, e, k, l)
    BY <2>3, <2>4, <2>5, <2>8, <2>9 DEF Packed
  <2> QED
    BY <1>2, <2>10
<1>6. \/ y = x
      \/ y.rowptr = x.rowptr /\ y.out = x.out + 1 /\ y.cols = [x.cols EXCEPT ![x.out + 1] = x.cols[b + k]]
  <2>1. b + k \in 1 .. l
    BY <1>1
  <2>2. PICK q : q = b + k
    OBVIOUS
  <2>3. /\ Keep(x, q, t) \in Compactions(n, l, S)
        /\ IF Abs(x.vals[q]) < t THEN Keep(x, q, t) = x
           ELSE LET w1 == Keep(x, q, t) IN
                /\ w1.rowptr = x.rowptr /\ w1.out = x.out + 1
                /\ w1.cols = [x.cols EXCEPT ![x.out + 1] = x.cols[q]]
                /\ w1.vals = [x.vals EXCEPT ![x.out + 1] = x.vals[q]]
    BY <2>1, <2>2, KeepEither
  <2> QED
    BY <1>2, <2>2, <2>3, Zenon
<1> QED
  BY <1>4, <1>5, <1>6
\* The states of the pass of row j, from a on.
RowRuns(g, a, j, t, c, b, e, n, l, S) ==
  /\ CompactRow(a, j, t) = g[e - b]
  /\ g[0].out = a.out /\ g[0].cols = a.cols /\ g[0].vals = a.vals
  /\ \A k \in 1 .. e - b : g[k] = Keep(g[k - 1], b + k, t)
  /\ \A k \in 0 .. e - b : /\ g[k] \in Compactions(n, l, S) /\ g[k].rowptr = [a.rowptr EXCEPT ![j + 1] = a.out]
                           /\ Packed(g[k], a.out, a.cols, c, b, e, k, l)

\* The pass over a whole row.
LEMMA RowRun ==
  ASSUME NEW n \in Nat, NEW l \in Nat, NEW S \in SUBSET Int, NEW a \in Compactions(n, l, S), NEW t, NEW c,
         NEW j \in 0 .. n - 1, NEW b, NEW e, b = a.rowptr[j + 1], e = a.rowptr[j + 2], RowGood(c, b, e, S), e <= l,
         a.out <= b, \A q \in a.out + 1 .. l : a.cols[q] = c.cols[q]
  PROVE  \E g : RowRuns(g, a, j, t, c, b, e, n, l, S)
<1> DEFINE d == e - b
           E == [a.rowptr EXCEPT ![j + 1] = a.out]
           V == {x \in Compactions(n, l, S) : x.rowptr = E}
           start == [a EXCEPT !.rowptr[j + 1] = a.out]
           F == [x \in V \X (1 .. d) |-> Keep(x[1], b + x[2], t)]
           Body(g) == [k \in 0 .. d |-> IF k = 0 THEN start ELSE Keep(g[k - 1], b + k, t)]
<1>1. CompactRow(a, j, t) = (CHOOSE g : g = Body(g))[d]
  BY DEF CompactRow
<1>2. b \in Nat /\ e \in Nat /\ b <= e /\ d \in Nat /\ \A k \in 1 .. d : b + k \in 1 .. l
  BY DEF RowGood
<1>3. /\ a.rowptr \in [1 .. n + 1 -> Nat] /\ a.cols \in [1 .. l -> S] /\ a.vals \in [1 .. l -> Int] /\ a.out \in Nat
      /\ a = [rowptr |-> a.rowptr, cols |-> a.cols, vals |-> a.vals, out |-> a.out]
  BY DEF Compactions
<1>4. start = [rowptr |-> E, cols |-> a.cols, vals |-> a.vals, out |-> a.out]
  <2>1. start = [a EXCEPT !.rowptr = E]
    OBVIOUS
  <2> HIDE DEF start, E
  <2> QED
    BY <1>3, <2>1
<1>5. E \in [1 .. n + 1 -> Nat]
  BY <1>3
<1> HIDE DEF d, E, start
<1>6. start \in V /\ start.out = a.out /\ start.cols = a.cols
  BY <1>3, <1>4, <1>5 DEF Compactions
<1>7. ASSUME NEW x \in V, NEW k \in 1 .. d PROVE Keep(x, b + k, t) \in V
  <2>1. x \in Compactions(n, l, S) /\ x.rowptr = E /\ b + k \in 1 .. l
    BY <1>2
  <2>2. /\ Keep(x, b + k, t) \in Compactions(n, l, S)
        /\ Keep(x, b + k, t) = x \/ Keep(x, b + k, t).rowptr = x.rowptr
    <3>1. PICK i, y : i = b + k /\ y = Keep(x, i, t)
      OBVIOUS
    <3>2. i \in 1 .. l
      BY <2>1, <3>1
    <3>3. y \in Compactions(n, l, S) /\ (y = x \/ y.rowptr = x.rowptr)
      <4>1. /\ Keep(x, i, t) \in Compactions(n, l, S)
            /\ IF Abs(x.vals[i]) < t THEN Keep(x, i, t) = x
               ELSE LET w == Keep(x, i, t) IN
                    /\ w.rowptr = x.rowptr /\ w.out = x.out + 1
                    /\ w.cols = [x.cols EXCEPT ![x.out + 1] = x.cols[i]]
                    /\ w.vals = [x.vals EXCEPT ![x.out + 1] = x.vals[i]]
        BY <2>1, <3>2, KeepEither
      <4> QED
        BY <3>1, <4>1, Zenon
    <3> QED
      BY <3>1, <3>3
  <2> QED
    BY <2>1, <2>2
<1> HIDE DEF V
<1>8. \A x \in V, k \in 1 .. d : F[<<x, k>>] = Keep(x, b + k, t) /\ F[<<x, k>>] \in V
  BY <1>7
<1> HIDE DEF F
<1>9. PICK f : Passes(f, V, d, start, F)
  <2>1. StaysIn(V, F, d)
    BY <1>8 DEF StaysIn
  <2> QED
    BY <1>2, <1>6, <2>1, LoopExists
<1>10. f = Body(f)
  <2>1. ASSUME NEW k \in 1 .. d PROVE f[k] = Keep(f[k - 1], b + k, t)
    <3>1. k - 1 \in 0 .. d
      BY <1>2
    <3>2. f[k - 1] \in V /\ f[k] = F[<<f[k - 1], k>>]
      BY <1>9, <3>1 DEF Passes
    <3> QED
      BY <1>8, <3>2
  <2>2. f \in [0 .. d -> V] /\ f[0] = start
    BY <1>9 DEF Passes
  <2>3. \A k \in 0 .. d : k = 0 \/ k \in 1 .. d
    BY <1>2
  <2> QED
    BY <2>1, <2>2, <2>3
<1>11. PICK g : g = Body(g) /\ CompactRow(a, j, t) = g[d]
  BY <1>1, <1>10
<1> HIDE DEF Body
<1>12. g[0] = start /\ \A k \in 1 .. d : g[k] = Keep(g[k - 1], b + k, t)
  <2>1. \A k \in 0 .. d : g[k] = IF k = 0 THEN start ELSE Keep(g[k - 1], b + k, t)
    BY <1>11 DEF Body
  <2>2. 0 \in 0 .. d /\ \A k \in 1 .. d : k \in 0 .. d /\ k # 0
    BY <1>2
  <2> QED
    BY <2>1, <2>2
<1> DEFINE I == {k \in 0 .. d : g[k] \in V /\ Packed(g[k], a.out, a.cols, c, b, e, k, l)}
<1>13. ASSUME NEW k \in 1 .. d, k - 1 \in I PROVE k \in I
  <2>1. g[k - 1] \in V /\ Packed(g[k - 1], a.out, a.cols, c, b, e, k - 1, l) /\ k \in 1 .. e - b
    BY <1>13 DEF d
  <2>2. g[k - 1] \in Compactions(n, l, S)
    BY <2>1 DEF V
  <2>3. Packed(Keep(g[k - 1], b + k, t), a.out, a.cols, c, b, e, k, l)
    BY <1>3, <2>1, <2>2, KeepPacked
  <2>4. Keep(g[k - 1], b + k, t) \in V
    BY <1>7, <2>1
  <2>5. g[k] \in V /\ Packed(g[k], a.out, a.cols, c, b, e, k, l)
    BY <1>12, <2>3, <2>4
  <2> QED
    BY <2>5
<1>14. 0 \in I
  <2>1. Packed(start, a.out, a.cols, c, b, e, 0, l)
    <3>1. a.out \in a.out .. b + 0 /\ a.out + 1 .. a.out = {}
      BY <1>2, <1>3
    <3> QED
      BY <1>6, <3>1 DEF Packed
  <2> QED
    BY <1>2, <1>6, <1>12, <2>1
<1> HIDE DEF I
<1>15. \A k \in 0 .. d : k \in I
  BY <1>2, <1>13, <1>14, Induction
<1>16. \A k \in 0 .. d : g[k] \in V /\ Packed(g[k], a.out, a.cols, c, b, e, k, l)
  BY <1>15 DEF I
<1>17. \A k \in 0 .. d : g[k] \in Compactions(n, l, S) /\ g[k].rowptr = E
  BY <1>16 DEF V
<1>18. /\ g[0].out = a.out /\ g[0].cols = a.cols /\ g[0].vals = a.vals
  BY <1>4, <1>12
<1>19. d = e - b /\ E = [a.rowptr EXCEPT ![j + 1] = a.out]
  BY DEF d, E
<1> QED
  BY <1>11, <1>12, <1>16, <1>17, <1>18, <1>19, Zenon DEF RowRuns

\* The entries of x after lo up to hi are those of c after b up to e that are not weak.
Copied(x, c, t, lo, hi, b, e) ==
  /\ \A p \in lo + 1 .. hi : \E q \in b + 1 .. e :
       x.cols[p] = c.cols[q] /\ x.vals[p] = c.vals[q] /\ ~(Abs(c.vals[q]) < t)
  /\ \A q \in b + 1 .. e : ~(Abs(c.vals[q]) < t) =>
       \E p \in lo + 1 .. hi : x.cols[p] = c.cols[q] /\ x.vals[p] = c.vals[q]
LEMMA CopiedFrom ==
  ASSUME NEW x, NEW c, NEW t, NEW lo, NEW hi, NEW b, NEW e, Copied(x, c, t, lo, hi, b, e),
         NEW y, \A p \in lo + 1 .. hi : y.cols[p] = x.cols[p] /\ y.vals[p] = x.vals[p]
  PROVE  Copied(y, c, t, lo, hi, b, e)
  BY DEF Copied

\* After k entries of a row that is written from position o on.
RowCopied(x, o, v, c, t, b, k, l) ==
  /\ \A q \in x.out + 1 .. l : x.vals[q] = c.vals[q]
  /\ \A q \in 1 .. o : x.vals[q] = v[q]
  /\ Copied(x, c, t, o, x.out, b, b + k)

\* One entry kept or dropped: what was written are the strong entries read.
LEMMA KeepCopied ==
  ASSUME NEW n \in Nat, NEW l \in Nat, NEW S \in SUBSET Int, NEW x \in Compactions(n, l, S), NEW t,
         NEW c, NEW b, NEW e, RowGood(c, b, e, S), e <= l, NEW o \in Nat, o <= b, NEW s, NEW v,
         NEW k \in 1 .. e - b, Packed(x, o, s, c, b, e, k - 1, l), RowCopied(x, o, v, c, t, b, k - 1, l)
  PROVE  RowCopied(Keep(x, b + k, t), o, v, c, t, b, k, l)
<1>1. /\ b \in Nat /\ e \in Nat /\ x.out \in o .. b + (k - 1) /\ b + k \in b + 1 .. e /\ b + k \in 1 .. l
      /\ b + k \in x.out + 1 .. l /\ x.out + 1 \in 1 .. l /\ x.out \in Nat
  BY DEF RowGood, Packed
<1>2. PICK y, q0 : y = Keep(x, q0, t) /\ q0 = b + k
  OBVIOUS
<1>3. x.cols[q0] = c.cols[q0] /\ x.vals[q0] = c.vals[q0]
  BY <1>1, <1>2 DEF Packed, RowCopied
<1>4. IF Abs(x.vals[q0]) < t THEN Keep(x, q0, t) = x
      ELSE LET w == Keep(x, q0, t) IN
           /\ w.rowptr = x.rowptr /\ w.out = x.out + 1
           /\ w.cols = [x.cols EXCEPT ![x.out + 1] = x.cols[q0]]
           /\ w.vals = [x.vals EXCEPT ![x.out + 1] = x.vals[q0]]
  BY <1>1, <1>2, KeepEither
<1>5. /\ \A q \in x.out + 1 .. l : x.vals[q] = c.vals[q]
      /\ \A q \in 1 .. o : x.vals[q] = v[q]
      /\ \A p \in o + 1 .. x.out : \E q \in b + 1 .. b + (k - 1) :
           x.cols[p] = c.cols[q] /\ x.vals[p] = c.vals[q] /\ ~(Abs(c.vals[q]) < t)
      /\ \A q \in b + 1 .. b + (k - 1) : ~(Abs(c.vals[q]) < t) =>
           \E p \in o + 1 .. x.out : x.cols[p] = c.cols[q] /\ x.vals[p] = c.vals[q]
  BY DEF RowCopied, Copied
<1>6. /\ \A q \in b + 1 .. b + (k - 1) : q \in b + 1 .. b + k
      /\ \A q \in b + 1 .. b + k : q = q0 \/ q \in b + 1 .. b + (k - 1)
      /\ q0 \in b + 1 .. b + k
  BY <1>1, <1>2
<1>7. CASE Abs(c.vals[q0]) < t
  <2>1. y = x
    BY <1>2, <1>3, <1>4, <1>7
  <2>2. Copied(x, c, t, o, x.out, b, b + k)
    BY <1>5, <1>6, <1>7 DEF Copied
  <2>3. RowCopied(x, o, v, c, t, b, k, l)
    BY <1>5, <2>2 DEF RowCopied
  <2> QED
    BY <1>2, <2>1, <2>3
<1>8. CASE ~(Abs(c.vals[q0]) < t)
  <2>1. /\ y.out = x.out + 1 /\ y.cols = [x.cols EXCEPT ![x.out + 1] = c.cols[q0]]
        /\ y.vals = [x.vals EXCEPT ![x.out + 1] = c.vals[q0]]
    BY <1>2, <1>3, <1>4, <1>8
  <2>2. x.cols \in [1 .. l -> S] /\ x.vals \in [1 .. l -> Int]
    BY DEF Compactions
  <2>3. \A q \in 1 .. l : /\ y.cols[q] = IF q = x.out + 1 THEN c.cols[q0] ELSE x.cols[q]
                         /\ y.vals[q] = IF q = x.out + 1 THEN c.vals[q0] ELSE x.vals[q]
    BY <2>1, <2>2
  <2>4. \A p \in o + 1 .. x.out : /\ p \in 1 .. l /\ p # x.out + 1 /\ p \in o + 1 .. y.out
                               /\ y.cols[p] = x.cols[p] /\ y.vals[p] = x.vals[p]
    <3>1. \A p \in o + 1 .. x.out : p \in 1 .. l /\ p # x.out + 1 /\ p \in o + 1 .. y.out
      BY <1>1, <2>1
    <3> QED
      BY <2>3, <3>1
  <2>5. \A p \in o + 1 .. y.out : p = x.out + 1 \/ p \in o + 1 .. x.out
    BY <1>1, <2>1
  <2>6. x.out + 1 \in o + 1 .. y.out /\ y.cols[x.out + 1] = c.cols[q0] /\ y.vals[x.out + 1] = c.vals[q0]
    BY <1>1, <2>1, <2>3
  <2>7. ASSUME NEW p \in o + 1 .. y.out
        PROVE  \E q \in b + 1 .. b + k : y.cols[p] = c.cols[q] /\ y.vals[p] = c.vals[q] /\ ~(Abs(c.vals[q]) < t)
    <3>1. CASE p = x.out + 1
      BY <1>6, <1>8, <2>6, <3>1
    <3>2. CASE p \in o + 1 .. x.out
      BY <1>5, <1>6, <2>4, <3>2
    <3> QED
      BY <2>5, <3>1, <3>2
  <2>8. ASSUME NEW q \in b + 1 .. b + k, ~(Abs(c.vals[q]) < t)
        PROVE  \E p \in o + 1 .. y.out : y.cols[p] = c.cols[q] /\ y.vals[p] = c.vals[q]
    <3>1. CASE q = q0
      BY <2>6, <3>1
    <3>2. CASE q \in b + 1 .. b + (k - 1)
      BY <1>5, <2>4, <2>8, <3>2
    <3> QED
      BY <1>6, <3>1, <3>2
  <2>9. \A q \in y.out + 1 .. l : y.vals[q] = c.vals[q]
    <3>1. \A q \in y.out + 1 .. l : q \in x.out + 1 .. l /\ q # x.out + 1 /\ q \in 1 .. l
      BY <1>1, <2>1
    <3> QED
      BY <1>5, <2>3, <3>1
  <2>10. \A q \in 1 .. o : y.vals[q] = v[q]
    <3>1. \A q \in 1 .. o : q # x.out + 1 /\ q \in 1 .. l
      BY <1>1
    <3> QED
      BY <1>5, <2>3, <3>1
  <2>11. RowCopied(y, o, v, c, t, b, k, l)
    BY <2>7, <2>8, <2>9, <2>10 DEF RowCopied, Copied
  <2> QED
    BY <1>2, <2>11
<1> QED
  BY <1>7, <1>8

\* A whole row.
LEMMA RowPacked ==
  ASSUME NEW n \in Nat, NEW l \in Nat, NEW S \in SUBSET Int, NEW a \in Compactions(n, l, S), NEW t, NEW c,
         NEW j \in 0 .. n - 1, NEW b, NEW e, b = a.rowptr[j + 1], e = a.rowptr[j + 2], RowGood(c, b, e, S), e <= l,
         a.out <= b, \A q \in a.out + 1 .. l : a.cols[q] = c.cols[q] /\ a.vals[q] = c.vals[q]
  PROVE  LET y == CompactRow(a, j, t) IN
         /\ y \in Compactions(n, l, S) /\ y.rowptr = [a.rowptr EXCEPT ![j + 1] = a.out]
         /\ Packed(y, a.out, a.cols, c, b, e, e - b, l)
         /\ RowCopied(y, a.out, a.vals, c, t, b, e - b, l)
<1>1. PICK g : RowRuns(g, a, j, t, c, b, e, n, l, S)
  BY RowRun
<1>2. b \in Nat /\ e \in Nat /\ b <= e /\ e - b \in Nat /\ e - b \in 0 .. e - b /\ 0 \in 0 .. e - b /\ b + 0 = b
  BY DEF RowGood
<1>3. a.out \in Nat
  BY DEF Compactions
<1> DEFINE I == {k \in 0 .. e - b : RowCopied(g[k], a.out, a.vals, c, t, b, k, l)}
<1>4. 0 \in I
  <2>1. Copied(g[0], c, t, a.out, a.out, b, b)
    BY <1>2, <1>3 DEF Copied
  <2> QED
    BY <1>1, <1>2, <2>1 DEF RowRuns, RowCopied
<1>5. ASSUME NEW k \in 1 .. e - b, k - 1 \in I PROVE k \in I
  <2>1. k - 1 \in 0 .. e - b
    BY <1>2
  <2>2. PICK x : x = g[k - 1]
    OBVIOUS
  <2>3. /\ x \in Compactions(n, l, S) /\ Packed(x, a.out, a.cols, c, b, e, k - 1, l)
        /\ g[k] = Keep(x, b + k, t)
    BY <1>1, <2>1, <2>2 DEF RowRuns
  <2>4. RowCopied(x, a.out, a.vals, c, t, b, k - 1, l)
    BY <1>5, <2>2
  <2>5. RowCopied(Keep(x, b + k, t), a.out, a.vals, c, t, b, k, l)
    BY <1>3, <2>3, <2>4, KeepCopied
  <2> QED
    BY <2>3, <2>5
<1> HIDE DEF I
<1>6. \A k \in 0 .. e - b : k \in I
  BY <1>2, <1>4, <1>5, Induction
<1>7. RowCopied(g[e - b], a.out, a.vals, c, t, b, e - b, l)
  BY <1>2, <1>6 DEF I
<1> QED
  BY <1>1, <1>2, <1>7 DEF RowRuns

\* What prune keeps to after j rows: those are sound, if the entry that becomes the start
\* of the next one is where they end; the rest is as it was.
Passed(a, c, j, n, m, t) ==
  LET l == Len(c.cols)  ptr == [a.rowptr EXCEPT ![j + 1] = a.out] IN
  /\ a \in Compactions(n, l, 0 .. m - 1) /\ a.out <= c.rowptr[j + 1]
  /\ \A i \in j + 1 .. n + 1 : a.rowptr[i] = c.rowptr[i]
  /\ \A q \in a.out + 1 .. l : a.cols[q] = c.cols[q] /\ a.vals[q] = c.vals[q]
  /\ ptr[1] = 0 /\ \A i \in 1 .. j : RowSound(ptr, a.cols, i)
  /\ \A i \in 1 .. j : Copied(a, c, t, ptr[i], ptr[i + 1], c.rowptr[i], c.rowptr[i + 1])

\* One row compacted: the rows done are sound, the others as they were.
LEMMA CompactRowPassed ==
  ASSUME NEW m \in Nat, NEW n \in Nat, NEW c, RowsSound(c, m, n), NEW t, NEW j \in 0 .. n - 1, NEW a, Passed(a, c, j, n, m, t)
  PROVE  Passed(CompactRow(a, j, t), c, j + 1, n, m, t)
<1> DEFINE l == Len(c.cols)
           S == 0 .. m - 1
           b == a.rowptr[j + 1]
           e == a.rowptr[j + 2]
           ptr == [a.rowptr EXCEPT ![j + 1] = a.out]
<1>1. RowGood(c, c.rowptr[j + 1], c.rowptr[j + 2], S) /\ c.rowptr[j + 2] <= l /\ l \in Nat
  BY SoundRow
<1> HIDE DEF l, S, ptr
<1>2. /\ a \in Compactions(n, l, S) /\ a.out <= c.rowptr[j + 1]
      /\ \A i \in j + 1 .. n + 1 : a.rowptr[i] = c.rowptr[i]
      /\ \A q \in a.out + 1 .. l : a.cols[q] = c.cols[q] /\ a.vals[q] = c.vals[q]
      /\ ptr[1] = 0 /\ \A i \in 1 .. j : RowSound(ptr, a.cols, i)
      /\ \A i \in 1 .. j : Copied(a, c, t, ptr[i], ptr[i + 1], c.rowptr[i], c.rowptr[i + 1])
  BY DEF Passed, l, S, ptr
<1>3. j + 1 \in j + 1 .. n + 1 /\ j + 2 \in j + 1 .. n + 1 /\ j \in Nat
  OBVIOUS
<1>4. b = c.rowptr[j + 1] /\ e = c.rowptr[j + 2]
  BY <1>2, <1>3
<1>5. RowGood(c, b, e, S) /\ e <= l /\ a.out <= b
  BY <1>1, <1>2, <1>4
<1>6. b \in Nat /\ e \in Nat /\ b <= e /\ a.out \in Nat /\ a.rowptr \in [1 .. n + 1 -> Nat]
  BY <1>2, <1>5 DEF RowGood, Compactions
<1>7. S \in SUBSET Int
  BY DEF S
<1>8. PICK y : y = CompactRow(a, j, t)
  OBVIOUS
<1>9. /\ y \in Compactions(n, l, S) /\ y.rowptr = ptr /\ Packed(y, a.out, a.cols, c, b, e, e - b, l)
      /\ RowCopied(y, a.out, a.vals, c, t, b, e - b, l)
  <2> HIDE DEF b, e
  <2>1. b = a.rowptr[j + 1] /\ e = a.rowptr[j + 2]
    BY DEF b, e
  <2> QED
    <3>1. LET z == CompactRow(a, j, t) IN
          /\ z \in Compactions(n, l, S) /\ z.rowptr = [a.rowptr EXCEPT ![j + 1] = a.out]
          /\ Packed(z, a.out, a.cols, c, b, e, e - b, l)
          /\ RowCopied(z, a.out, a.vals, c, t, b, e - b, l)
      <4>1. \A q \in a.out + 1 .. l : a.cols[q] = c.cols[q] /\ a.vals[q] = c.vals[q]
        BY <1>2
      <4>2. a \in Compactions(n, l, S) /\ l \in Nat
        BY <1>1, <1>2
      <4> QED
        BY <1>5, <1>7, <2>1, <4>1, <4>2, RowPacked
    <3> QED
      BY <1>8, <3>1 DEF ptr
<1> HIDE DEF b, e
<1>10. /\ y.out \in a.out .. e
       /\ \A q \in y.out + 1 .. l : y.cols[q] = c.cols[q]
       /\ \A q \in 1 .. a.out : y.cols[q] = a.cols[q]
       /\ \A p, q \in a.out + 1 .. y.out : p < q => y.cols[p] < y.cols[q]
       /\ \A q \in y.out + 1 .. l : y.vals[q] = c.vals[q]
       /\ \A q \in 1 .. a.out : y.vals[q] = a.vals[q]
       /\ Copied(y, c, t, a.out, y.out, b, e)
  <2>1. b + (e - b) = e
    BY <1>6
  <2> QED
    BY <1>9, <2>1 DEF Packed, RowCopied
<1>11. ptr \in [1 .. n + 1 -> Nat] /\ \A i \in 1 .. n + 1 : ptr[i] = IF i = j + 1 THEN a.out ELSE a.rowptr[i]
  BY <1>6 DEF ptr
<1> DEFINE next == [y.rowptr EXCEPT ![j + 2] = y.out]
<1>12. \A i \in 1 .. n + 1 : next[i] = IF i = j + 2 THEN y.out ELSE ptr[i]
  BY <1>9, <1>11
<1> HIDE DEF next
<1>13. \A i \in j + 2 .. n + 1 : y.rowptr[i] = c.rowptr[i]
  <2> SUFFICES ASSUME NEW i \in j + 2 .. n + 1 PROVE y.rowptr[i] = c.rowptr[i]
    OBVIOUS
  <2>1. i \in j + 1 .. n + 1 /\ i \in 1 .. n + 1 /\ i # j + 1
    OBVIOUS
  <2> QED
    BY <1>2, <1>9, <1>11, <2>1
<1>14. next[1] = 0
  <2>1. 1 \in 1 .. n + 1 /\ 1 # j + 2
    OBVIOUS
  <2> QED
    BY <1>2, <1>12, <2>1
<1>15. ASSUME NEW i \in 1 .. j
       PROVE  RowSound(next, y.cols, i) /\ Copied(y, c, t, next[i], next[i + 1], c.rowptr[i], c.rowptr[i + 1])
  <2>1. i \in 1 .. n + 1 /\ i + 1 \in 1 .. n + 1 /\ i # j + 2 /\ i + 1 # j + 2 /\ i + 1 \in 1 .. j + 1 /\ j + 1 \in 1 .. j + 1 /\ i + 1 <= j + 1
    OBVIOUS
  <2>2. next[i] = ptr[i] /\ next[i + 1] = ptr[i + 1] /\ ptr[i] \in Nat /\ ptr[i + 1] \in Nat
    BY <1>11, <1>12, <2>1
  <2>3. ptr[i + 1] <= ptr[j + 1]
    <3>1. \A k \in 1 .. j : ptr[k] <= ptr[k + 1]
      BY <1>2 DEF RowSound
    <3>2. \A k \in 1 .. j + 1 : ptr[k] \in Nat
      BY <1>11
    <3> QED
      BY <1>3, <2>1, <3>1, <3>2, StartsAscend
  <2>4. ptr[j + 1] = a.out
    BY <1>3, <1>11
  <2>5. \A q \in ptr[i] + 1 .. ptr[i + 1] : q \in 1 .. a.out
    BY <1>6, <2>2, <2>3, <2>4, SMTT(30)
  <2>6. RowSound(ptr, a.cols, i) /\ Copied(a, c, t, ptr[i], ptr[i + 1], c.rowptr[i], c.rowptr[i + 1])
    BY <1>2
  <2>7. RowSound(next, y.cols, i)
    BY <1>10, <2>2, <2>5, <2>6 DEF RowSound
  <2>8. \A q \in ptr[i] + 1 .. ptr[i + 1] : y.cols[q] = a.cols[q] /\ y.vals[q] = a.vals[q]
    BY <1>10, <2>5
  <2>9. Copied(y, c, t, ptr[i], ptr[i + 1], c.rowptr[i], c.rowptr[i + 1])
    BY <2>6, <2>8, CopiedFrom
  <2> QED
    BY <2>2, <2>7, <2>9
<1>16. RowSound(next, y.cols, j + 1) /\ Copied(y, c, t, next[j + 1], next[j + 1 + 1], c.rowptr[j + 1], c.rowptr[j + 1 + 1])
  <2>1. j + 1 \in 1 .. n + 1 /\ j + 2 \in 1 .. n + 1 /\ j + 1 # j + 2 /\ j + 1 + 1 = j + 2
    OBVIOUS
  <2>2. next[j + 1] = a.out /\ next[j + 2] = y.out /\ j + 1 + 1 = j + 2
    BY <1>11, <1>12, <2>1
  <2>3. RowSound(next, y.cols, j + 1)
    BY <1>6, <1>10, <2>2 DEF RowSound
  <2>4. c.rowptr[j + 1] = b /\ c.rowptr[j + 2] = e
    BY <1>4
  <2> QED
    BY <1>10, <2>2, <2>3, <2>4
<1>17. \A i \in 1 .. j + 1 : i \in 1 .. j \/ i = j + 1
  OBVIOUS
<1>18. \A i \in 1 .. j + 1 : RowSound(next, y.cols, i) /\ Copied(y, c, t, next[i], next[i + 1], c.rowptr[i], c.rowptr[i + 1])
  BY <1>15, <1>16, <1>17
<1>19. j + 1 + 1 = j + 2
  OBVIOUS
<1>20. y.out <= c.rowptr[j + 2]
  BY <1>4, <1>6, <1>10
<1> QED
  BY <1>8, <1>9, <1>10, <1>13, <1>14, <1>18, <1>19, <1>20 DEF Passed, l, S, next
\* All the rows, one after the other.
LEMMA CompactRowsPassed ==
  ASSUME NEW m \in Nat, NEW c, SizeOf(c.dst) \in Nat, RowsSound(c, m, SizeOf(c.dst)), NEW t
  PROVE  Passed(CompactRows(c, t), c, SizeOf(c.dst), SizeOf(c.dst), m, t)
<1> DEFINE n == SizeOf(c.dst)
           l == Len(c.cols)
           V == Compactions(n, l, 0 .. m - 1)
           start == [rowptr |-> c.rowptr, cols |-> c.cols, vals |-> c.vals, out |-> 0]
           F == [x \in V \X (1 .. n) |-> IF Passed(x[1], c, x[2] - 1, n, m, t) THEN CompactRow(x[1], x[2] - 1, t) ELSE x[1]]
           Body(g) == [j \in 0 .. n |-> IF j = 0 THEN start ELSE CompactRow(g[j - 1], j - 1, t)]
<1>1. CompactRows(c, t) = (CHOOSE g : g = Body(g))[n]
  BY DEF CompactRows
<1> HIDE DEF n
<1>2. n \in Nat /\ RowsSound(c, m, n)
  BY DEF n
<1>3. Passed(start, c, 0, n, m, t)
  <2>1. /\ c.rowptr \in Seq(Nat) /\ c.cols \in Seq(0 .. m - 1) /\ c.vals \in Seq(Int) /\ Len(c.rowptr) = n + 1
        /\ c.rowptr[1] = 0 /\ Len(c.vals) = l
    BY <1>2 DEF RowsSound
  <2>2. c.rowptr \in [1 .. n + 1 -> Nat] /\ c.cols \in [1 .. l -> 0 .. m - 1] /\ c.vals \in [1 .. l -> Int]
    BY <2>1, LenProperties
  <2>3. start \in V
    BY <2>2 DEF Compactions
  <2>4. /\ start.out <= c.rowptr[0 + 1] /\ [start.rowptr EXCEPT ![0 + 1] = start.out][1] = 0
        /\ \A i \in 0 + 1 .. n + 1 : start.rowptr[i] = c.rowptr[i]
        /\ \A q \in start.out + 1 .. l : start.cols[q] = c.cols[q] /\ start.vals[q] = c.vals[q]
    BY <1>2, <2>1, <2>2
  <2> HIDE DEF start
  <2>5. 1 .. 0 = {}
    OBVIOUS
  <2> QED
    BY <2>3, <2>4, <2>5 DEF Passed
<1>4. ASSUME NEW a, NEW j \in 1 .. n, Passed(a, c, j - 1, n, m, t)
      PROVE  Passed(CompactRow(a, j - 1, t), c, j, n, m, t)
  <2>1. j - 1 \in 0 .. n - 1 /\ j - 1 + 1 = j
    BY <1>2
  <2> QED
    BY <1>2, <1>4, <2>1, CompactRowPassed
<1>5. \A a, j : Passed(a, c, j, n, m, t) => a \in V
  BY DEF Passed
<1> HIDE DEF V, start
<1>6. StaysIn(V, F, n) /\ \A a \in V, j \in 1 .. n : Passed(a, c, j - 1, n, m, t) => F[<<a, j>>] = CompactRow(a, j - 1, t)
  <2>1. ASSUME NEW a \in V, NEW j \in 1 .. n
        PROVE  F[<<a, j>>] \in V /\ (Passed(a, c, j - 1, n, m, t) => F[<<a, j>>] = CompactRow(a, j - 1, t))
    <3>1. F[<<a, j>>] = IF Passed(a, c, j - 1, n, m, t) THEN CompactRow(a, j - 1, t) ELSE a
      OBVIOUS
    <3> QED
      BY <1>4, <1>5, <3>1
  <2> HIDE DEF F
  <2> QED
    BY <2>1 DEF StaysIn
<1> HIDE DEF F
<1>7. PICK f : Passes(f, V, n, start, F)
  BY <1>2, <1>3, <1>5, <1>6, LoopExists
<1>8. f = Body(f)
  <2> DEFINE I == {j \in 0 .. n : Passed(f[j], c, j, n, m, t)}
  <2>1. ASSUME NEW j \in 1 .. n, Passed(f[j - 1], c, j - 1, n, m, t) PROVE f[j] = CompactRow(f[j - 1], j - 1, t)
    <3>1. f[j - 1] \in V /\ f[j] = F[<<f[j - 1], j>>]
      BY <1>5, <1>7, <2>1 DEF Passes
    <3> QED
      BY <1>6, <2>1, <3>1
  <2>2. ASSUME NEW j \in 1 .. n, j - 1 \in I PROVE j \in I
    <3>1. Passed(f[j - 1], c, j - 1, n, m, t)
      BY <2>2
    <3>2. Passed(f[j], c, j, n, m, t)
      BY <1>4, <2>1, <3>1
    <3> QED
      BY <3>2
  <2>3. 0 \in I
    BY <1>2, <1>3, <1>7 DEF Passes
  <2> HIDE DEF I
  <2>4. \A j \in 0 .. n : j \in I
    BY <1>2, <2>2, <2>3, Induction
  <2>5. \A j \in 1 .. n : f[j] = CompactRow(f[j - 1], j - 1, t)
    <3> SUFFICES ASSUME NEW j \in 1 .. n PROVE f[j] = CompactRow(f[j - 1], j - 1, t)
      OBVIOUS
    <3>1. j - 1 \in I
      BY <1>2, <2>4
    <3> QED
      BY <2>1, <3>1 DEF I
  <2>6. f = [j \in 0 .. n |-> f[j]] /\ f[0] = start /\ \A j \in 0 .. n : j = 0 \/ j \in 1 .. n
    BY <1>2, <1>7 DEF Passes
  <2> QED
    BY <2>5, <2>6
<1>9. PICK g : g = Body(g) /\ CompactRows(c, t) = g[n]
  BY <1>1, <1>8
<1> HIDE DEF Body
<1>10. g[0] = start /\ \A j \in 1 .. n : g[j] = CompactRow(g[j - 1], j - 1, t)
  BY <1>2, <1>9 DEF Body
<1> DEFINE I == {j \in 0 .. n : Passed(g[j], c, j, n, m, t)}
<1>11. ASSUME NEW j \in 1 .. n, j - 1 \in I PROVE j \in I
  <2>1. Passed(g[j - 1], c, j - 1, n, m, t)
    BY <1>11
  <2>2. Passed(g[j], c, j, n, m, t)
    BY <1>4, <1>10, <2>1
  <2> QED
    BY <2>2
<1>12. 0 \in I
  BY <1>2, <1>3, <1>10
<1> HIDE DEF I
<1>13. \A j \in 0 .. n : j \in I
  BY <1>2, <1>11, <1>12, Induction
<1>14. Passed(g[n], c, n, n, m, t)
  BY <1>2, <1>13 DEF I
<1> QED
  BY <1>9, <1>14 DEF n

\* Each row of d has the strong entries of that of c.
RowsCopied(d, c, t, n) ==
  \A i \in 1 .. n : Copied(d, c, t, d.rowptr[i], d.rowptr[i + 1], c.rowptr[i], c.rowptr[i + 1])

LEMMA FirstOnes ==
  ASSUME NEW S, NEW s \in Seq(S), NEW o \in Nat, o <= Len(s)
  PROVE  SubSeq(s, 1, o) \in Seq(S) /\ Len(SubSeq(s, 1, o)) = o /\ \A i \in 1 .. o : SubSeq(s, 1, o)[i] = s[i]
<1>1. 1 \in 1 .. Len(s) + 1 /\ o \in 1 - 1 .. Len(s)
  BY LenProperties
<1>2. SubSeq(s, 1, o) \in Seq(S) /\ Len(SubSeq(s, 1, o)) = o - 1 + 1
        /\ \A i \in 1 .. o - 1 + 1 : SubSeq(s, 1, o)[i] = s[1 + i - 1]
  BY <1>1, SubSeqProperties
<1>3. o - 1 + 1 = o /\ \A i \in 1 .. o : 1 + i - 1 = i
  OBVIOUS
<1> QED
  BY <1>2, <1>3

\* prune leaves sound rows, of the strong entries.
LEMMA CompactedSound ==
  ASSUME NEW m \in Nat, NEW c, SizeOf(c.dst) \in Nat, RowsSound(c, m, SizeOf(c.dst)), NEW t,
         NEW d, LET a == CompactRows(c, t) IN
                /\ d.rowptr = [a.rowptr EXCEPT ![SizeOf(c.dst) + 1] = a.out]
                /\ d.cols = SubSeq(a.cols, 1, a.out) /\ d.vals = SubSeq(a.vals, 1, a.out)
  PROVE  RowsSound(d, m, SizeOf(c.dst)) /\ RowsCopied(d, c, t, SizeOf(c.dst))
<1> DEFINE n == SizeOf(c.dst)
           l == Len(c.cols)
<1>1. PICK a : a = CompactRows(c, t)
  OBVIOUS
<1>2. /\ d.rowptr = [a.rowptr EXCEPT ![n + 1] = a.out]
      /\ d.cols = SubSeq(a.cols, 1, a.out) /\ d.vals = SubSeq(a.vals, 1, a.out)
  BY <1>1
<1>3. Passed(a, c, n, n, m, t)
  BY <1>1, CompactRowsPassed
<1> HIDE DEF n, l
<1>4. n \in Nat /\ RowsSound(c, m, n)
  BY DEF n
<1>5. l \in Nat /\ c.rowptr[n + 1] = l
  BY <1>4, LenProperties DEF RowsSound, l
<1>6. /\ a.rowptr \in [1 .. n + 1 -> Nat] /\ a.cols \in [1 .. l -> 0 .. m - 1] /\ a.vals \in [1 .. l -> Int] /\ a.out \in Nat
      /\ a.out <= l /\ d.rowptr[1] = 0 /\ \A i \in 1 .. n : RowSound(d.rowptr, a.cols, i)
      /\ \A i \in 1 .. n : Copied(a, c, t, d.rowptr[i], d.rowptr[i + 1], c.rowptr[i], c.rowptr[i + 1])
  <2>1. LET ptr == [a.rowptr EXCEPT ![n + 1] = a.out] IN
        /\ a \in Compactions(n, l, 0 .. m - 1) /\ a.out <= c.rowptr[n + 1]
        /\ ptr[1] = 0 /\ \A i \in 1 .. n : RowSound(ptr, a.cols, i)
        /\ \A i \in 1 .. n : Copied(a, c, t, ptr[i], ptr[i + 1], c.rowptr[i], c.rowptr[i + 1])
    BY <1>3, Zenon DEF Passed, l
  <2>2. /\ d.rowptr[1] = 0 /\ \A i \in 1 .. n : RowSound(d.rowptr, a.cols, i)
        /\ \A i \in 1 .. n : Copied(a, c, t, d.rowptr[i], d.rowptr[i + 1], c.rowptr[i], c.rowptr[i + 1])
    BY <1>2, <2>1, Zenon
  <2>3. a \in Compactions(n, l, 0 .. m - 1) /\ a.out <= l
    BY <1>5, <2>1, Zenon
  <2> QED
    BY <2>2, <2>3 DEF Compactions
<1>7. d.rowptr \in [1 .. n + 1 -> Nat] /\ d.rowptr[n + 1] = a.out
  <2>1. PICK r : r = a.rowptr
    OBVIOUS
  <2>2. d.rowptr = [r EXCEPT ![n + 1] = a.out] /\ r \in [1 .. n + 1 -> Nat]
    BY <1>2, <1>6, <2>1, Zenon
  <2>3. n + 1 \in 1 .. n + 1 /\ a.out \in Nat
    BY <1>4, <1>6
  <2> QED
    BY <2>2, <2>3
<1>8. d.rowptr \in Seq(Nat) /\ Len(d.rowptr) = n + 1
  <2>1. n + 1 \in Nat
    BY <1>4
  <2> QED
    BY <1>7, <2>1, MadeSeq
<1>9. a.cols \in Seq(0 .. m - 1) /\ Len(a.cols) = l /\ a.vals \in Seq(Int) /\ Len(a.vals) = l
  BY <1>5, <1>6, MadeSeq
<1>10. PICK x \in Seq(0 .. m - 1), y \in Seq(Int), o \in Nat : x = a.cols /\ y = a.vals /\ o = a.out
  BY <1>6, <1>9
<1>11. o \in Nat /\ o <= Len(x) /\ o <= Len(y)
  BY <1>5, <1>6, <1>9, <1>10
<1>12. SubSeq(x, 1, o) \in Seq(0 .. m - 1) /\ Len(SubSeq(x, 1, o)) = o /\ \A i \in 1 .. o : SubSeq(x, 1, o)[i] = x[i]
  BY <1>11, FirstOnes
<1>13. SubSeq(y, 1, o) \in Seq(Int) /\ Len(SubSeq(y, 1, o)) = o /\ \A i \in 1 .. o : SubSeq(y, 1, o)[i] = y[i]
  BY <1>11, FirstOnes
<1>14. d.cols \in Seq(0 .. m - 1) /\ Len(d.cols) = o /\ d.vals \in Seq(Int) /\ Len(d.vals) = o
  BY <1>2, <1>10, <1>12, <1>13
<1>15. \A q \in 1 .. o : d.cols[q] = a.cols[q] /\ d.vals[q] = a.vals[q]
  BY <1>2, <1>10, <1>12, <1>13
<1>16. ASSUME NEW i \in 1 .. n
       PROVE  RowSound(d.rowptr, d.cols, i) /\ Copied(d, c, t, d.rowptr[i], d.rowptr[i + 1], c.rowptr[i], c.rowptr[i + 1])
  <2>1. i \in 1 .. n + 1 /\ i + 1 \in 1 .. n + 1 /\ n + 1 \in 1 .. n + 1 /\ i + 1 <= n + 1
    BY <1>4
  <2>2. d.rowptr[i + 1] <= d.rowptr[n + 1]
    <3>1. PICK ptr : ptr = d.rowptr
      OBVIOUS
    <3>2. (\A k \in 1 .. n + 1 : ptr[k] \in Nat) /\ \A k \in 1 .. n : ptr[k] <= ptr[k + 1]
      BY <1>6, <1>7, <3>1 DEF RowSound
    <3>3. ptr[i + 1] <= ptr[n + 1]
      BY <1>4, <2>1, <3>2, StartsAscend
    <3> QED
      BY <3>1, <3>3
  <2>3. d.rowptr[i] \in Nat /\ d.rowptr[i + 1] \in Nat
    BY <1>7, <2>1
  <2>4. \A q \in d.rowptr[i] + 1 .. d.rowptr[i + 1] : q \in 1 .. o
    BY <1>7, <1>10, <1>11, <2>2, <2>3
  <2>5. RowSound(d.rowptr, a.cols, i) /\ Copied(a, c, t, d.rowptr[i], d.rowptr[i + 1], c.rowptr[i], c.rowptr[i + 1])
    BY <1>6
  <2>6. RowSound(d.rowptr, d.cols, i)
    BY <1>15, <2>4, <2>5 DEF RowSound
  <2>7. \A q \in d.rowptr[i] + 1 .. d.rowptr[i + 1] : d.cols[q] = a.cols[q] /\ d.vals[q] = a.vals[q]
    BY <1>15, <2>4
  <2>8. Copied(d, c, t, d.rowptr[i], d.rowptr[i + 1], c.rowptr[i], c.rowptr[i + 1])
    <3>1. PICK lo, hi, b, e : /\ lo = d.rowptr[i] /\ hi = d.rowptr[i + 1]
                              /\ b = c.rowptr[i] /\ e = c.rowptr[i + 1]
      OBVIOUS
    <3>2. Copied(a, c, t, lo, hi, b, e) /\ \A q \in lo + 1 .. hi : d.cols[q] = a.cols[q] /\ d.vals[q] = a.vals[q]
      BY <2>5, <2>7, <3>1
    <3>3. Copied(d, c, t, lo, hi, b, e)
      BY <3>2, CopiedFrom
    <3> QED
      BY <3>1, <3>3
  <2> QED
    BY <2>6, <2>8
<1>17. d.rowptr[1] = 0 /\ d.rowptr[n + 1] = Len(d.cols) /\ Len(d.vals) = Len(d.cols)
  BY <1>6, <1>7, <1>10, <1>14
<1>18. RowsSound(d, m, n) /\ RowsCopied(d, c, t, n)
  BY <1>8, <1>14, <1>16, <1>17 DEF RowsSound, RowsCopied
<1> QED
  BY <1>18 DEF n
-----------------------------------------------------------------------------
(* normalize.                                                               *)

\* The sums of the weights after position b, n of them.
RowSums(sum, vals, b, n) ==
  /\ sum[0] = 0 /\ \A k \in 1 .. n : sum[k] = sum[k - 1] + Abs(vals[b + k])
  /\ \A k \in 0 .. n : sum[k] \in Nat
\* The row of the positions after b up to e, normalized by their drive.
Drives(row, vals, b, e, target) ==
  \E drive \in Nat :
    /\ \E sum : RowSums(sum, vals, b, e - b) /\ drive = sum[e - b]
    /\ row = IF drive <= target THEN vals
             ELSE [k \in DOMAIN vals |-> IF k \in b + 1 .. e THEN Scaled(vals[k], target, drive) ELSE vals[k]]
\* What a neuron is driven with is a number.
LEMMA DriveNumber ==
  ASSUME NEW vals \in Seq(Int), NEW b \in Nat, NEW e \in Nat, b <= e, e <= Len(vals), NEW target \in Nat \ {0}
  PROVE  Drives(NormalizedRow(vals, b, e, target), vals, b, e, target)
<1> DEFINE n == e - b
           F == [x \in Nat \X (1 .. n) |-> x[1] + Abs(vals[b + x[2]])]
           Body(g) == [k \in 0 .. n |-> IF k = 0 THEN 0 ELSE g[k - 1] + Abs(vals[b + k])]
           sum == CHOOSE g : g = Body(g)
<1>1. NormalizedRow(vals, b, e, target) =
        IF sum[n] <= target THEN vals
        ELSE [k \in DOMAIN vals |-> IF k \in b + 1 .. e THEN Scaled(vals[k], target, sum[n]) ELSE vals[k]]
  BY DEF NormalizedRow
<1>2. n \in Nat
  OBVIOUS
<1>3. ASSUME NEW k \in 1 .. n PROVE Abs(vals[b + k]) \in Nat
  <2>1. b + k \in 1 .. Len(vals)
    BY LenProperties
  <2>2. PICK x : x = vals[b + k]
    OBVIOUS
  <2>3. x \in Int
    BY <2>1, <2>2, ElementOfSeq
  <2> QED
    BY <2>2, <2>3 DEF Abs
<1> HIDE DEF n
<1>4. \A x \in Nat, k \in 1 .. n : F[<<x, k>>] = x + Abs(vals[b + k]) /\ F[<<x, k>>] \in Nat
  BY <1>3, SMTT(30)
<1> HIDE DEF F
<1>5. PICK f : Passes(f, Nat, n, 0, F)
  <2>1. StaysIn(Nat, F, n)
    BY <1>4 DEF StaysIn
  <2> QED
    BY <1>2, <2>1, LoopExists
<1>6. f = Body(f)
  <2>1. ASSUME NEW k \in 1 .. n PROVE f[k] = f[k - 1] + Abs(vals[b + k])
    <3>1. k - 1 \in 0 .. n
      BY <1>2
    <3>2. f[k - 1] \in Nat /\ f[k] = F[<<f[k - 1], k>>]
      BY <1>5, <3>1 DEF Passes
    <3> QED
      BY <1>4, <3>2
  <2>2. f \in [0 .. n -> Nat] /\ f[0] = 0
    BY <1>5 DEF Passes
  <2>3. \A k \in 0 .. n : k = 0 \/ k \in 1 .. n
    BY <1>2
  <2> QED
    BY <2>1, <2>2, <2>3
<1>7. sum = Body(sum)
  BY <1>6
<1> HIDE DEF sum, Body
<1>8. sum[0] = 0 /\ \A k \in 1 .. n : sum[k] = sum[k - 1] + Abs(vals[b + k])
  BY <1>2, <1>7 DEF Body
<1> DEFINE I == {k \in 0 .. n : sum[k] \in Nat}
<1>9. ASSUME NEW k \in 1 .. n, k - 1 \in I PROVE k \in I
  <2>1. sum[k - 1] \in Nat
    BY <1>9
  <2>2. sum[k] \in Nat
    BY <1>3, <1>8, <2>1
  <2> QED
    BY <2>2
<1>10. 0 \in I
  BY <1>2, <1>8
<1> HIDE DEF I
<1>11. \A k \in 0 .. n : k \in I
  BY <1>2, <1>9, <1>10, Induction
<1>12. RowSums(sum, vals, b, n) /\ sum[n] \in Nat
  <2>1. \A k \in 0 .. n : sum[k] \in Nat
    BY <1>11 DEF I
  <2>2. RowSums(sum, vals, b, n)
    BY <1>8, <2>1 DEF RowSums
  <2> QED
    BY <1>2, <2>1, <2>2
<1> QED
  BY <1>1, <1>12 DEF Drives, n

\* One row normalised: as many weights, all of them numbers.
LEMMA NormalizedRowNumbers ==
  ASSUME NEW l \in Nat, NEW vals \in [1 .. l -> Int], NEW b \in Nat, NEW e \in Nat, b <= e, e <= l, NEW target \in Nat \ {0}
  PROVE  NormalizedRow(vals, b, e, target) \in [1 .. l -> Int]
<1>1. vals \in Seq(Int) /\ Len(vals) = l
  BY MadeSeq
<1>2. PICK drive \in Nat :
        NormalizedRow(vals, b, e, target) =
          IF drive <= target THEN vals
          ELSE [k \in DOMAIN vals |-> IF k \in b + 1 .. e THEN Scaled(vals[k], target, drive) ELSE vals[k]]
  <2>1. e <= Len(vals)
    BY <1>1
  <2>2. Drives(NormalizedRow(vals, b, e, target), vals, b, e, target)
    BY <1>1, <2>1, DriveNumber
  <2> QED
    BY <2>2 DEF Drives
<1>3. ASSUME NEW x \in Int, drive > target PROVE Scaled(x, target, drive) \in Int
  <2>1. \A y \in Int : y \div drive \in Int
    BY <1>3
  <2>2. x * target \in Int /\ -x \in Int /\ (-x) * target \in Int
    OBVIOUS
  <2>3. Abs(x) * target \in Int
    BY <2>2 DEF Abs
  <2>4. (Abs(x) * target) \div drive \in Int /\ (x * target) \div drive \in Int
    BY <2>1, <2>2, <2>3
  <2>5. -((Abs(x) * target) \div drive) \in Int
    BY <2>4
  <2> QED
    BY <2>4, <2>5 DEF Scaled
<1> QED
  <2>1. CASE drive <= target
    BY <1>2, <2>1
  <2>2. CASE drive > target
    <3>1. \A k \in 1 .. l : Scaled(vals[k], target, drive) \in Int /\ vals[k] \in Int
      BY <1>3, <2>2
    <3>2. ~(drive <= target)
      BY <2>2
    <3>3. NormalizedRow(vals, b, e, target) =
            [k \in 1 .. l |-> IF k \in b + 1 .. e THEN Scaled(vals[k], target, drive) ELSE vals[k]]
      BY <1>2, <3>2
    <3> QED
      BY <3>1, <3>3
  <2> QED
    BY <2>1, <2>2
\* A sound connection, from m neurons to n: the storage its layout asks for.
ConnSound(c, m, n) ==
  /\ c.kind \in {"dense", "one2one", "sparse"} /\ c.vals \in Seq(Int)
  /\ c.kind = "sparse" => RowsSound(c, m, n)
  /\ c.kind = "dense" => Len(c.vals) = m * n
  /\ c.kind = "one2one" => Len(c.vals) = m /\ m = n

\* The row of a neuron lies within the weights.
LEMMA RowBounds ==
  ASSUME NEW m \in Nat, NEW n \in Nat, NEW c, SizeOf(c.src) = m, ConnSound(c, m, n), NEW j \in 0 .. n - 1
  PROVE  Begin(c, j) \in Nat /\ End(c, j) \in Nat /\ Begin(c, j) <= End(c, j) /\ End(c, j) <= Len(c.vals)
<1>1. CASE c.kind = "dense"
  <2>1. Begin(c, j) = j * m /\ End(c, j) = (j + 1) * m /\ Len(c.vals) = m * n
    BY <1>1 DEF Begin, End, ConnSound
  <2>2. PICK d \in Nat : n = (j + 1) + d
    <3>1. n - (j + 1) \in Nat /\ n = (j + 1) + (n - (j + 1))
      OBVIOUS
    <3> QED
      BY <3>1
  <2>3. PICK x \in Nat, y \in Nat : x = j * m /\ y = d * m
    <3>1. j * m \in Nat /\ d * m \in Nat
      OBVIOUS
    <3> QED
      BY <3>1
  <2>4. (j + 1) * m = x + m /\ m * n = x + m + y
    <3>1. (j + 1) * m = j * m + m /\ m * ((j + 1) + d) = j * m + m + d * m
      OBVIOUS
    <3> QED
      BY <2>2, <2>3, <3>1
  <2> QED
    BY <2>1, <2>3, <2>4
<1>2. CASE c.kind = "one2one"
  <2>1. Begin(c, j) = j /\ End(c, j) = j + 1 /\ Len(c.vals) = n
    BY <1>2 DEF Begin, End, ConnSound
  <2> QED
    BY <2>1
<1>3. CASE c.kind = "sparse"
  <2>1. RowsSound(c, m, n) /\ Begin(c, j) = c.rowptr[j + 1] /\ End(c, j) = c.rowptr[j + 1 + 1]
    BY <1>3 DEF Begin, End, ConnSound
  <2>2. j + 1 + 1 = j + 2 /\ Len(c.vals) = Len(c.cols)
    BY <2>1 DEF RowsSound
  <2>3. RowGood(c, c.rowptr[j + 1], c.rowptr[j + 2], 0 .. m - 1) /\ c.rowptr[j + 2] <= Len(c.cols)
    BY <2>1, SoundRow
  <2> QED
    BY <2>1, <2>2, <2>3 DEF RowGood
<1> QED
  BY <1>1, <1>2, <1>3 DEF ConnSound

\* The weights g[j] once j rows of c are normalized.
NormalizeRuns(g, c, target, n) ==
  /\ Normalized(c, target) = [c EXCEPT !.vals = g[n]] /\ g[0] = c.vals
  /\ \A j \in 1 .. n : g[j] = NormalizedRow(g[j - 1], Begin(c, j - 1), End(c, j - 1), target)
  /\ \A j \in 0 .. n : g[j] \in [1 .. Len(c.vals) -> Int]
LEMMA NormalizeRun ==
  ASSUME NEW m \in Nat, NEW c, SizeOf(c.src) = m, SizeOf(c.dst) \in Nat, ConnSound(c, m, SizeOf(c.dst)),
         NEW target \in Nat \ {0}
  PROVE  \E g : NormalizeRuns(g, c, target, SizeOf(c.dst))
<1> DEFINE n == SizeOf(c.dst)
           l == Len(c.vals)
           V == [1 .. l -> Int]
           F == [x \in V \X (1 .. n) |-> NormalizedRow(x[1], Begin(c, x[2] - 1), End(c, x[2] - 1), target)]
           Body(g) == [j \in 0 .. n |-> IF j = 0 THEN c.vals
                                        ELSE NormalizedRow(g[j - 1], Begin(c, j - 1), End(c, j - 1), target)]
<1>1. Normalized(c, target) = [c EXCEPT !.vals = (CHOOSE g : g = Body(g))[n]]
  BY DEF Normalized
<1> HIDE DEF n
<1>2. n \in Nat /\ ConnSound(c, m, n)
  BY DEF n
<1>3. l \in Nat /\ c.vals \in V
  BY <1>2, LenProperties DEF ConnSound
<1>4. ASSUME NEW x \in V, NEW j \in 1 .. n
      PROVE  NormalizedRow(x, Begin(c, j - 1), End(c, j - 1), target) \in V
  <2>1. PICK b, e : b = Begin(c, j - 1) /\ e = End(c, j - 1)
    OBVIOUS
  <2>2. j - 1 \in 0 .. n - 1
    BY <1>2
  <2>3. b \in Nat /\ e \in Nat /\ b <= e /\ e <= l
    BY <1>2, <2>1, <2>2, RowBounds
  <2> HIDE DEF l
  <2>4. NormalizedRow(x, b, e, target) \in [1 .. l -> Int]
    BY <1>3, <2>3, NormalizedRowNumbers
  <2> QED
    BY <2>1, <2>4
<1> HIDE DEF V, l
<1>5. \A x \in V, j \in 1 .. n :
        F[<<x, j>>] = NormalizedRow(x, Begin(c, j - 1), End(c, j - 1), target) /\ F[<<x, j>>] \in V
  BY <1>4
<1> HIDE DEF F
<1>6. PICK f : Passes(f, V, n, c.vals, F)
  <2>1. StaysIn(V, F, n)
    BY <1>5 DEF StaysIn
  <2> QED
    BY <1>2, <1>3, <2>1, LoopExists
<1>7. f = Body(f)
  <2>1. ASSUME NEW j \in 1 .. n PROVE f[j] = NormalizedRow(f[j - 1], Begin(c, j - 1), End(c, j - 1), target)
    <3>1. j - 1 \in 0 .. n
      BY <1>2
    <3>2. f[j - 1] \in V /\ f[j] = F[<<f[j - 1], j>>]
      BY <1>6, <3>1 DEF Passes
    <3> QED
      BY <1>5, <3>2
  <2>2. f \in [0 .. n -> V] /\ f[0] = c.vals
    BY <1>6 DEF Passes
  <2>3. \A j \in 0 .. n : j = 0 \/ j \in 1 .. n
    BY <1>2
  <2> QED
    BY <2>1, <2>2, <2>3
<1>8. PICK g : g = Body(g) /\ Normalized(c, target) = [c EXCEPT !.vals = g[n]]
  BY <1>1, <1>7
<1> HIDE DEF Body
<1>9. g[0] = c.vals /\ \A j \in 1 .. n : g[j] = NormalizedRow(g[j - 1], Begin(c, j - 1), End(c, j - 1), target)
  <2>1. 0 \in 0 .. n /\ \A j \in 1 .. n : j \in 0 .. n /\ j # 0
    BY <1>2
  <2>2. g = Body(g)
    BY <1>8
  <2>3. \A j \in 0 .. n : Body(g)[j] = IF j = 0 THEN c.vals
                                     ELSE NormalizedRow(g[j - 1], Begin(c, j - 1), End(c, j - 1), target)
    BY Zenon DEF Body
  <2>4. \A j \in 0 .. n : g[j] = IF j = 0 THEN c.vals
                              ELSE NormalizedRow(g[j - 1], Begin(c, j - 1), End(c, j - 1), target)
    BY <2>2, <2>3, Zenon
  <2> QED
    BY <2>1, <2>4, Zenon
<1> DEFINE I == {j \in 0 .. n : g[j] \in V}
<1>10. ASSUME NEW j \in 1 .. n, j - 1 \in I PROVE j \in I
  <2>1. g[j - 1] \in V
    BY <1>10
  <2>2. NormalizedRow(g[j - 1], Begin(c, j - 1), End(c, j - 1), target) \in V
    BY <1>4, <2>1
  <2>3. g[j] \in V
    BY <1>9, <2>2
  <2> QED
    BY <2>3
<1>11. 0 \in I
  BY <1>2, <1>3, <1>9
<1> HIDE DEF I
<1>12. \A j \in 0 .. n : j \in I
  BY <1>2, <1>10, <1>11, Induction
<1>13. \A j \in 0 .. n : g[j] \in [1 .. Len(c.vals) -> Int]
  BY <1>12 DEF I, V, l
<1>14. NormalizeRuns(g, c, target, n)
  BY <1>8, <1>9, <1>13 DEF NormalizeRuns
<1> QED
  BY <1>14 DEF n

\* normalize leaves as many weights.
LEMMA NormalizedNumbers ==
  ASSUME NEW m \in Nat, NEW c, SizeOf(c.src) = m, SizeOf(c.dst) \in Nat, ConnSound(c, m, SizeOf(c.dst)),
         NEW target \in Nat \ {0}
  PROVE  \E v \in Seq(Int) : Len(v) = Len(c.vals) /\ Normalized(c, target) = [c EXCEPT !.vals = v]
<1>1. PICK n : n = SizeOf(c.dst)
  OBVIOUS
<1>2. PICK g : NormalizeRuns(g, c, target, n)
  BY <1>1, NormalizeRun
<1>3. PICK v : v = g[n]
  OBVIOUS
<1>4. PICK l \in Nat : l = Len(c.vals)
  BY LenProperties DEF ConnSound
<1>5. v \in [1 .. l -> Int] /\ Normalized(c, target) = [c EXCEPT !.vals = v]
  <2>1. n \in 0 .. n
    BY <1>1
  <2> QED
    BY <1>2, <1>3, <1>4, <2>1 DEF NormalizeRuns
<1>6. v \in Seq(Int) /\ Len(v) = l
  BY <1>5, MadeSeq
<1> QED
  BY <1>4, <1>5, <1>6
=============================================================================
