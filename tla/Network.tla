------------------------------- MODULE Network -------------------------------
(***************************************************************************)
(* The stored network: groups, connections in their three layouts, the     *)
(* structural operations on them and checkpoints (ndl_rt_network.cpp and   *)
(* ndl_rt_io.cpp).                                                         *)
(*                                                                         *)
(* Neurons are numbered from 0 as in the code, arrays are sequences.       *)
(* Weights are small integers; a membrane is one value.  A checkpoint is a *)
(* sequence of chunks, each written by one group of fwrite calls; a crash  *)
(* or a full disk leaves a prefix of it, and the process is gone.          *)
(***************************************************************************)
EXTENDS Integers, SequencesExt

CONSTANTS Names,         \* names of node_group declarations
          Sizes,         \* [Names -> the sizes a program may declare]
          Weights,       \* weights of synapses
          Draws,         \* pairs of weights the generator returns in turn
          Thresholds,    \* of prune_weights
          Targets,       \* of normalize_incoming
          Projections,   \* pairs of names a program may connect
          Flags,         \* values of plastic at connect time
          PreLists,      \* the pre and post arrays of grow_synapses
          PostLists,
          Windows,       \* of configure_stdp
          MaxConnects,   \* bound on the connections made
          MaxWork,       \* bound on rules, structural operations, learning and saves
          MaxStarts      \* bound on the starts of a process

ASSUME SizeAssumption == \A n \in Names : Sizes[n] \subseteq Nat \ {0}
ASSUME WeightAssumption == Weights \subseteq Int /\ Draws \subseteq Int \X Int
ASSUME ThresholdAssumption == Thresholds \subseteq Int
ASSUME TargetAssumption == \A t \in Targets : t \in Nat \ {0}

VARIABLES groups,    \* [name, size, v, window, hold] in order of creation
          conns,     \* [kind, src, dst, plastic, rowptr, cols, vals], src and dst in DOMAIN groups
          stdps,     \* [src, dst, window]
          file,      \* the chunks on disk
          saving,    \* the item a save writes next, Idle when none is in progress
          loading,   \* [item, at]: the item a load reads next and its first chunk
          process,   \* up, down, or down because a load found the file corrupt
          last,      \* the structural operation carried out last
          image,     \* what the save that wrote the file began with
          used       \* how often each bounded action has happened

vars == <<groups, conns, stdps, file, saving, loading, process, last, image, used>>

Idle == <<"idle", 0>>
NoLoad == [item |-> Idle, at |-> 0]
Group == DOMAIN groups
SizeOf(g) == groups[g].size
Neuron(g) == 0..SizeOf(g) - 1
Abs(x) == IF x < 0 THEN -x ELSE x

-----------------------------------------------------------------------------
(* Rows of compressed storage: the positions of row j are those after       *)
(* rowptr[j] up to rowptr[j + 1].  A loop is a function of the number of    *)
(* rounds it has done.                                                      *)

RowOf(c, j) == c.rowptr[j + 1] + 1..c.rowptr[j + 2]
SynapsesOf(c) ==
    CASE c.kind = "dense" -> Neuron(c.src) \X Neuron(c.dst)
      [] c.kind = "one2one" -> {<<i, i>> : i \in Neuron(c.src)}
      [] c.kind = "sparse" -> UNION {{<<c.cols[k], j>> : k \in RowOf(c, j)} : j \in Neuron(c.dst)}

(* Where get_weight finds a synapse: in a sparse row, its first entry.      *)
Position(c, s) ==
    CASE c.kind = "dense" -> s[2] * SizeOf(c.src) + s[1] + 1
      [] c.kind = "one2one" -> s[1] + 1
      [] c.kind = "sparse" -> CHOOSE k \in RowOf(c, s[2]) :
                                 c.cols[k] = s[1] /\ \A m \in RowOf(c, s[2]) : c.cols[m] = s[1] => k <= m
GetWeight(c, s) == c.vals[Position(c, s)]

FindConn(src, dst) == SelectInSeq(conns, LAMBDA c : c.src = src /\ c.dst = dst)
(* A pair has one connection at most (OnePerPair): to erase those that match *)
(* is to erase the one that is found.                                       *)
DropConns(src, dst) ==
    LET i == FindConn(src, dst) IN IF i = 0 THEN conns ELSE RemoveAt(conns, i)
Pairs == {<<c.src, c.dst>> : c \in Range(conns)}
ConnOf(p) == conns[FindConn(p[1], p[2])]

-----------------------------------------------------------------------------
(* Sparse storage is built row after row; sparse_connect draws once for     *)
(* every pair, rows and columns ascending, and gives all the one weight.    *)

Ascending(S) == CHOOSE q \in [1..Cardinality(S) -> S] : \A i, k \in DOMAIN q : i < k => q[i] < q[k]
Columns(wired, j) == Ascending({s[1] : s \in {s \in wired : s[2] = j}})
NoRows == [rowptr |-> <<0>>, cols |-> <<>>, vals |-> <<>>]
AddRow(a, row) ==
    [rowptr |-> Append(a.rowptr, Len(a.cols) + Len(row.cols)),
     cols |-> a.cols \o row.cols, vals |-> a.vals \o row.vals]
Stacked(rows) ==
    LET upTo[j \in 0..Len(rows)] == IF j = 0 THEN NoRows ELSE AddRow(upTo[j - 1], rows[j])
    IN  upTo[Len(rows)]
Compressed(wired, n, weight) ==
    LET row(j) == [cols |-> Columns(wired, j), vals |-> [k \in DOMAIN Columns(wired, j) |-> weight]]
    IN  Stacked([j \in 1..n |-> row(j - 1)])

(* prune compacts the arrays in place: the end of row j is read from the    *)
(* entry that becomes the start of row j + 1.                               *)
Keep(a, k, threshold) ==
    IF Abs(a.vals[k]) < threshold THEN a
    ELSE [a EXCEPT !.cols[a.out + 1] = a.cols[k], !.vals[a.out + 1] = a.vals[k], !.out = @ + 1]

CompactRow_WritesEnd(a, j, threshold) ==
    LET begin == a.rowptr[j + 1]  end == a.rowptr[j + 2]
        kept[k \in 0..end - begin] == IF k = 0 THEN a ELSE Keep(kept[k - 1], begin + k, threshold)
    IN  [kept[end - begin] EXCEPT !.rowptr[j + 2] = kept[end - begin].out]
CompactRow(a, j, threshold) ==
    LET begin == a.rowptr[j + 1]  end == a.rowptr[j + 2]
        kept[k \in 0..end - begin] ==
          IF k = 0 THEN [a EXCEPT !.rowptr[j + 1] = a.out] ELSE Keep(kept[k - 1], begin + k, threshold)
    IN  kept[end - begin]

CompactRows(c, threshold) ==
    LET upTo[j \in 0..SizeOf(c.dst)] ==
          IF j = 0 THEN [rowptr |-> c.rowptr, cols |-> c.cols, vals |-> c.vals, out |-> 0]
          ELSE CompactRow(upTo[j - 1], j - 1, threshold)
    IN  upTo[SizeOf(c.dst)]
Compacted(c, threshold) ==
    LET a == CompactRows(c, threshold)
    IN  [c EXCEPT !.rowptr = [a.rowptr EXCEPT ![SizeOf(c.dst) + 1] = a.out],
                  !.cols = SubSeq(a.cols, 1, a.out), !.vals = SubSeq(a.vals, 1, a.out)]

(* grow merges the ascending list P into an ascending row, from position k  *)
(* of the row and p of the list; a neuron is not connected to itself.       *)
Takes(m, k, p, col, val) ==
    [k |-> k, p |-> p, cols |-> Append(m.cols, col), vals |-> Append(m.vals, val)]
MergeRound(m, c, j, P, weight) ==
    LET end == c.rowptr[j + 2]
    IN  IF m.k > end /\ m.p > Len(P) THEN m
        ELSE IF m.p > Len(P) \/ (m.k <= end /\ c.cols[m.k] < P[m.p])
          THEN Takes(m, m.k + 1, m.p, c.cols[m.k], c.vals[m.k])
        ELSE IF m.k > end \/ c.cols[m.k] > P[m.p]
          THEN IF c.src = c.dst /\ P[m.p] = j THEN [m EXCEPT !.p = @ + 1]
               ELSE Takes(m, m.k, m.p + 1, P[m.p], weight)
        ELSE Takes(m, m.k + 1, m.p + 1, c.cols[m.k], c.vals[m.k])
MergeRow(c, j, P, weight) ==
    LET begin == c.rowptr[j + 1]
        rounds == c.rowptr[j + 2] - begin + Len(P)
        upTo[i \in 0..rounds] ==
          IF i = 0 THEN [k |-> begin + 1, p |-> 1, cols |-> <<>>, vals |-> <<>>]
          ELSE MergeRound(upTo[i - 1], c, j, P, weight)
    IN  upTo[rounds]

MergeRows(c, P, Q, weight) ==
    LET kept(j) == [cols |-> SubSeq(c.cols, c.rowptr[j + 1] + 1, c.rowptr[j + 2]),
                    vals |-> SubSeq(c.vals, c.rowptr[j + 1] + 1, c.rowptr[j + 2])]
        row(j) == IF j \in Range(Q) THEN MergeRow(c, j, P, weight) ELSE kept(j)
    IN  Stacked([j \in 1..SizeOf(c.dst) |-> row(j - 1)])
Grown(c, P, Q, weight) ==
    LET a == MergeRows(c, P, Q, weight)
    IN  [c EXCEPT !.rowptr = a.rowptr, !.cols = a.cols, !.vals = a.vals]

(* normalize scales the rows whose drive exceeds the target.  Rounding is   *)
(* towards zero here.  The row of j goes from after Begin to End.           *)
Begin(c, j) ==
    CASE c.kind = "dense" -> j * SizeOf(c.src)
      [] c.kind = "one2one" -> j
      [] c.kind = "sparse" -> c.rowptr[j + 1]
End(c, j) == Begin(c, j + 1)
Scaled(x, target, sum) == IF x < 0 THEN -((Abs(x) * target) \div sum) ELSE (x * target) \div sum
NormalizedRow(vals, begin, end, target) ==
    LET sum[k \in 0..end - begin] == IF k = 0 THEN 0 ELSE sum[k - 1] + Abs(vals[begin + k])
        drive == sum[end - begin]
    IN  IF drive <= target THEN vals
        ELSE [k \in DOMAIN vals |-> IF k \in begin + 1..end THEN Scaled(vals[k], target, drive) ELSE vals[k]]
Normalized(c, target) ==
    LET upTo[j \in 0..SizeOf(c.dst)] ==
          IF j = 0 THEN c.vals ELSE NormalizedRow(upTo[j - 1], Begin(c, j - 1), End(c, j - 1), target)
    IN  [c EXCEPT !.vals = upTo[SizeOf(c.dst)]]

-----------------------------------------------------------------------------
(* The view of the abstract specification.                                  *)

View(c) == [kind |-> c.kind, plastic |-> c.plastic,
            w |-> [s \in SynapsesOf(c) |-> GetWeight(c, s)]]
Wired == [p \in Pairs |-> View(ConnOf(p))]
Synapses == INSTANCE Synapses WITH syn <- Wired, request <- last

-----------------------------------------------------------------------------
(* Who may act.  Main builds the network and is busy while it saves or      *)
(* loads; the loop thread applies structural commands between ticks and     *)
(* learns within them.  Structural commands hold struct_mx UNIQUE, as a     *)
(* load does; ticks and saves hold it SHARED.                               *)

MainFree == process = "up" /\ saving = Idle /\ loading = NoLoad
Unlocked_DuringSave == process = "up" /\ loading = NoLoad
Unlocked == process = "up" /\ saving = Idle /\ loading = NoLoad
TickLock == process = "up" /\ loading = NoLoad
Count(what, bound) == used[what] < bound /\ used' = [used EXCEPT ![what] = @ + 1]

Init ==
    /\ groups = <<>> /\ conns = <<>> /\ stdps = <<>>
    /\ file = <<>> /\ saving = Idle /\ loading = NoLoad
    /\ process = "up" /\ last = [op |-> "none"]
    /\ image = [complete |-> FALSE, learned |-> FALSE, groups |-> <<>>, conns |-> <<>>, stdps |-> <<>>]
    /\ used = [connects |-> 0, work |-> 0, starts |-> 1]

diskVars == <<file, saving, loading, process, image>>

(* A program declares a name once; loading may have made a group of it.     *)
GroupCreate(n, size) ==
    /\ MainFree /\ \A g \in Group : groups[g].name = n => ~groups[g].hold
    /\ groups' = Append(groups, [name |-> n, size |-> size, v |-> 0, window |-> 20, hold |-> TRUE])
    /\ UNCHANGED <<conns, stdps, last, used, diskVars>>

(* The new connection replaces the one the pair may have, and goes last.    *)
Link_NoDrop(c) ==
    /\ conns' = Append(conns, c)
    /\ last' = [op |-> "connect", pair |-> <<c.src, c.dst>>, conn |-> View(c)]
Link(c) ==
    /\ conns' = Append(DropConns(c.src, c.dst), c)
    /\ last' = [op |-> "connect", pair |-> <<c.src, c.dst>>, conn |-> View(c)]

NewConn(kind, src, dst, plastic) ==
    [kind |-> kind, src |-> src, dst |-> dst, plastic |-> plastic,
     rowptr |-> <<>>, cols |-> <<>>, vals |-> <<>>]

(* Dense weights may be drawn one by one from a distribution.               *)
Drawn(n, draw) == [k \in 1..n |-> draw[(k % 2) + 1]]
DenseConnect(src, dst, plastic) ==
    /\ MainFree /\ Count("connects", MaxConnects)
    /\ \E draw \in Draws :
         Link([NewConn("dense", src, dst, plastic) EXCEPT
                 !.vals = Drawn(SizeOf(src) * SizeOf(dst), draw)])
    /\ UNCHANGED <<groups, stdps, diskVars>>

SparseConnect(src, dst, plastic) ==
    /\ MainFree /\ Count("connects", MaxConnects)
    /\ \E wired \in SUBSET (Neuron(src) \X Neuron(dst)), weight \in Weights :
         LET a == Compressed(wired, SizeOf(dst), weight)
         IN  Link([NewConn("sparse", src, dst, plastic) EXCEPT
                     !.rowptr = a.rowptr, !.cols = a.cols, !.vals = a.vals])
    /\ UNCHANGED <<groups, stdps, diskVars>>

OneToOneConnect(src, dst, plastic) ==
    /\ MainFree /\ SizeOf(src) = SizeOf(dst) /\ Count("connects", MaxConnects)
    /\ \E weight \in Weights :
         Link([NewConn("one2one", src, dst, plastic) EXCEPT !.vals = [k \in 1..SizeOf(src) |-> weight]])
    /\ UNCHANGED <<groups, stdps, diskVars>>

Configured(cfgs, src, dst, window) ==
    LET i == SelectInSeq(cfgs, LAMBDA c : c.src = src /\ c.dst = dst)
    IN  IF i = 0 THEN Append(cfgs, [src |-> src, dst |-> dst, window |-> window])
        ELSE [cfgs EXCEPT ![i].window = window]
WindowSet(gs, src, dst, window) ==
    [g \in DOMAIN gs |-> IF g \in {src, dst} THEN [gs[g] EXCEPT !.window = window] ELSE gs[g]]

ConfigureStdp(src, dst, window) ==
    /\ MainFree /\ Count("work", MaxWork)
    /\ stdps' = Configured(stdps, src, dst, window)
    /\ groups' = WindowSet(groups, src, dst, window)
    /\ UNCHANGED <<conns, last, diskVars>>

(* The structural operations, by main or by the draining loop.              *)
Rewrite(p, c, request) ==
    /\ Unlocked /\ p \in Pairs /\ Count("work", MaxWork)
    /\ conns' = [conns EXCEPT ![FindConn(p[1], p[2])] = c]
    /\ last' = request
    /\ UNCHANGED <<groups, stdps, diskVars>>

SetPlasticity(p, enabled) ==
    Rewrite(p, [ConnOf(p) EXCEPT !.plastic = enabled],
            [op |-> "set_plasticity", pair |-> p, enabled |-> enabled])

Pruned(c, threshold) ==
    IF threshold = 0 THEN c
    ELSE IF c.kind = "sparse" THEN Compacted(c, threshold)
    ELSE [c EXCEPT !.vals = [k \in DOMAIN c.vals |-> IF Abs(c.vals[k]) < threshold THEN 0 ELSE c.vals[k]]]
Prune(p, threshold) ==
    Rewrite(p, Pruned(ConnOf(p), threshold), [op |-> "prune", pair |-> p, threshold |-> threshold])

Normalize(p, target) ==
    Rewrite(p, Normalized(ConnOf(p), target), [op |-> "normalize", pair |-> p, target |-> target])

(* The index lists are checked against the sizes, sorted and deduplicated.  *)
Sanitized_KeepsDups(list, g) == SortSeq(SelectSeq(list, LAMBDA i : i \in Neuron(g)), <)
Sanitized(list, g) == Ascending(Range(list) \cap Neuron(g))
Grow(p, pre, post, weight) ==
    LET c == ConnOf(p)  P == Sanitized(pre, c.src)  Q == Sanitized(post, c.dst)
    IN  /\ c.kind = "sparse"
        /\ Rewrite(p, IF P = <<>> \/ Q = <<>> THEN c ELSE Grown(c, P, Q, weight),
                   [op |-> "grow", pair |-> p, pre |-> Range(P), post |-> Range(Q), weight |-> weight])

(* A tick of the loop: a plastic weight and a membrane move.                *)
Learn(p, k, weight, v) ==
    LET c == ConnOf(p)
    IN  /\ TickLock /\ p \in Pairs /\ c.plastic /\ Count("work", MaxWork)
        /\ k \in DOMAIN c.vals
        /\ conns' = [conns EXCEPT ![FindConn(p[1], p[2])].vals[k] = weight]
        /\ groups' = [groups EXCEPT ![p[2]].v = v]
        /\ last' = [op |-> "learn", pair |-> p, weight |-> weight]
        /\ image' = [image EXCEPT !.learned = @ \/ saving # Idle]
        /\ UNCHANGED <<stdps, file, saving, loading, process>>

-----------------------------------------------------------------------------
(* Checkpoints.                                                             *)

(* Both walk through the groups, the connections, each followed by its      *)
(* arrays, and the rules, as many of each as the header h says.             *)
Done == <<"done", 0>>
StdpItem(h, i) == IF i <= h.stdps THEN <<"stdp", i>> ELSE Done
ConnItem(h, i) == IF i <= h.conns THEN <<"conn", i>> ELSE StdpItem(h, 1)
GroupItem(h, i) == IF i <= h.groups THEN <<"group", i>> ELSE ConnItem(h, 1)

Header == [k |-> "header", groups |-> Len(groups), conns |-> Len(conns), stdps |-> Len(stdps)]
Following(item) ==
    LET i == item[2]
    IN  CASE item[1] = "group" -> GroupItem(Header, i + 1)
          [] item[1] = "conn" -> IF conns[i].kind = "sparse" THEN <<"rowptr", i>> ELSE <<"vals", i>>
          [] item[1] = "rowptr" -> <<"cols", i>>
          [] item[1] = "cols" -> <<"vals", i>>
          [] item[1] = "vals" -> ConnItem(Header, i + 1)
          [] item[1] = "stdp" -> StdpItem(Header, i + 1)

Chunk(item) ==
    LET i == item[2]
    IN  CASE item[1] = "group" ->
               [k |-> "group", name |-> groups[i].name, size |-> groups[i].size,
                v |-> groups[i].v, window |-> groups[i].window]
          [] item[1] = "conn" ->
               [k |-> "conn", kind |-> conns[i].kind, plastic |-> conns[i].plastic,
                src |-> groups[conns[i].src].name, dst |-> groups[conns[i].dst].name]
          [] item[1] = "stdp" ->
               [k |-> "stdp", src |-> groups[stdps[i].src].name, dst |-> groups[stdps[i].dst].name,
                window |-> stdps[i].window]
          [] OTHER -> [k |-> item[1], a |-> conns[i][item[1]]]

(* Opening the file empties it; the counts go first.                        *)
SaveBegin ==
    /\ MainFree /\ Count("work", MaxWork)
    /\ file' = <<Header>> /\ saving' = GroupItem(Header, 1)
    /\ image' = [complete |-> saving' = Done, learned |-> FALSE,
                 groups |-> groups, conns |-> conns, stdps |-> stdps]
    /\ last' = [op |-> "save"]
    /\ UNCHANGED <<groups, conns, stdps, loading, process>>

SaveWrite ==
    /\ process = "up" /\ saving \notin {Idle, Done}
    /\ file' = Append(file, Chunk(saving)) /\ saving' = Following(saving)
    /\ image' = [image EXCEPT !.complete = (saving' = Done)]
    /\ UNCHANGED <<groups, conns, stdps, loading, process, last, used>>

SaveEnd ==
    /\ process = "up" /\ saving = Done
    /\ saving' = Idle
    /\ UNCHANGED <<groups, conns, stdps, file, loading, process, last, image, used>>

(* What is read next, whether the file has it, and the step to the next.    *)
Reads(what) == process = "up" /\ loading.item[1] = what
Found_Beyond(n) == loading.at + n <= Len(file)
Found(n) == loading.at + n - 1 <= Len(file)
Advance(item, n) == loading' = [item |-> item, at |-> loading.at + n]
Index == loading.item[2]
ByName(n) == SelectInSeq(groups, LAMBDA g : g.name = n)

LoadBegin ==
    /\ MainFree /\ file # <<>> /\ loading' = [item |-> GroupItem(file[1], 1), at |-> 2]
    /\ UNCHANGED <<groups, conns, stdps, file, saving, process, last, image, used>>

(* A group is patched by name, or created without a vector of holds.        *)
LoadGroup ==
    /\ Reads("group") /\ Found(1)
    /\ LET r == file[loading.at]  g == ByName(r.name)
       IN  /\ g # 0 => groups[g].size = r.size
           /\ groups' = IF g # 0 THEN [groups EXCEPT ![g].v = r.v, ![g].window = r.window]
                        ELSE Append(groups, [name |-> r.name, size |-> r.size, v |-> r.v,
                                             window |-> r.window, hold |-> FALSE])
    /\ Advance(GroupItem(file[1], Index + 1), 1)
    /\ UNCHANGED <<conns, stdps, file, saving, process, last, image, used>>

ChunksOf(r) == IF r.kind = "sparse" THEN 4 ELSE 2
Sane(c) ==
    IF c.kind = "sparse"
      THEN /\ Len(c.rowptr) = SizeOf(c.dst) + 1
           /\ Len(c.vals) = Len(c.cols)
           /\ c.rowptr[1] = 0 /\ c.rowptr[Len(c.rowptr)] = Len(c.cols)
           /\ \A j \in 1..Len(c.rowptr) - 1 : c.rowptr[j] <= c.rowptr[j + 1]
    ELSE Len(c.vals) = SizeOf(c.src) * (IF c.kind = "dense" THEN SizeOf(c.dst) ELSE 1)
Stored ==
    LET r == file[loading.at]
        array(n) == file[loading.at + n].a
    IN  [kind |-> r.kind, src |-> ByName(r.src), dst |-> ByName(r.dst), plastic |-> r.plastic,
         rowptr |-> IF r.kind = "sparse" THEN array(1) ELSE <<>>,
         cols |-> IF r.kind = "sparse" THEN array(2) ELSE <<>>,
         vals |-> array(ChunksOf(r) - 1)]
LoadConn ==
    /\ Reads("conn") /\ Found(1) /\ Found(ChunksOf(file[loading.at]))
    /\ Sane(Stored)
    /\ Link(Stored)
    /\ Advance(ConnItem(file[1], Index + 1), ChunksOf(file[loading.at]))
    /\ UNCHANGED <<groups, stdps, file, saving, process, image, used>>

LoadStdp ==
    /\ Reads("stdp") /\ Found(1)
    /\ LET r == file[loading.at]  src == ByName(r.src)  dst == ByName(r.dst)
       IN  /\ stdps' = Configured(stdps, src, dst, r.window)
           /\ groups' = WindowSet(groups, src, dst, r.window)
    /\ Advance(StdpItem(file[1], Index + 1), 1)
    /\ UNCHANGED <<conns, file, saving, process, last, image, used>>

LoadEnd ==
    /\ Reads("done")
    /\ loading' = NoLoad /\ last' = [op |-> "load"]
    /\ UNCHANGED <<groups, conns, stdps, file, saving, process, image, used>>

(* The process ends: it exits or is killed, a write fails, or a load meets  *)
(* a file it cannot use.  Its memory is gone and the file is as it is.      *)
Gone(how) ==
    /\ process' = how
    /\ groups' = <<>> /\ conns' = <<>> /\ stdps' = <<>>
    /\ saving' = Idle /\ loading' = NoLoad /\ last' = [op |-> "none"]
    /\ UNCHANGED <<file, image, used>>

Crash == process = "up" /\ Gone("down")

Mismatch == Reads("group") /\ Found(1) /\ ByName(file[loading.at].name) # 0
            /\ groups[ByName(file[loading.at].name)].size # file[loading.at].size
Truncated ==
    \/ \E what \in {"group", "conn", "stdp"} : Reads(what) /\ ~Found(1)
    \/ Reads("conn") /\ Found(1) /\ ~(Found(ChunksOf(file[loading.at])) /\ Sane(Stored))
LoadPanic == (Mismatch /\ Gone("down")) \/ (Truncated /\ Gone("corrupt"))

Restart ==
    /\ process # "up" /\ Count("starts", MaxStarts)
    /\ process' = "up"
    /\ UNCHANGED <<groups, conns, stdps, file, saving, loading, last, image>>

-----------------------------------------------------------------------------

Plasticity ==
    \E p \in Pairs :
      \/ \E on \in BOOLEAN : SetPlasticity(p, on)
      \/ \E t \in Thresholds : Prune(p, t)
      \/ \E t \in Targets : Normalize(p, t)
      \/ \E pre \in PreLists, post \in PostLists, x \in Weights : Grow(p, pre, post, x)
      \/ \E k \in DOMAIN ConnOf(p).vals, x \in Weights, v \in {1} : Learn(p, k, x, v)

Building ==
    \/ \E n \in Names : \E size \in Sizes[n] : GroupCreate(n, size)
    \/ \E src, dst \in Group :
         /\ <<groups[src].name, groups[dst].name>> \in Projections
         /\ \/ \E plastic \in Flags :
                 \/ DenseConnect(src, dst, plastic) \/ SparseConnect(src, dst, plastic)
                 \/ OneToOneConnect(src, dst, plastic)
            \/ \E w \in Windows : ConfigureStdp(src, dst, w)

Checkpoint ==
    \/ SaveBegin \/ SaveWrite \/ SaveEnd
    \/ LoadBegin \/ LoadGroup \/ LoadConn \/ LoadStdp \/ LoadEnd \/ LoadPanic

Next == Building \/ Plasticity \/ Checkpoint \/ Crash \/ Restart

Spec == Init /\ [][Next]_vars

-----------------------------------------------------------------------------
(* Every stored connection is what the tick, get_weight and the merge of    *)
(* grow rely on: one per pair, row bounds that ascend from nothing to       *)
(* everything, and in each row strictly ascending columns of the source,    *)
(* whatever sequence of connect, prune, grow and load has produced it       *)
(* (network.cpp 106-114, 528-530, 1176).                                    *)
RowsAscend(c) ==
    \A j \in Neuron(c.dst) : \A k \in RowOf(c, j) :
      c.cols[k] \in Neuron(c.src) /\ (k + 1 \in RowOf(c, j) => c.cols[k] < c.cols[k + 1])
OnePerPair == Cardinality(Pairs) = Len(conns)
WellFormed ==
    /\ \A i \in DOMAIN conns : Sane(conns[i]) /\ (conns[i].kind = "sparse" => RowsAscend(conns[i]))
    /\ OnePerPair

(* Each operation on the storage does to the synapses what it promises:     *)
(* ndl_rt.h 147-152 and 157-167, internal.h 246-251.                        *)
ImplementsSynapses == Synapses!Spec

(* A checkpoint is loaded whole or not at all: a load that returns has read *)
(* a file its save completed, whatever crash or full disk came in between,  *)
(* and afterwards the groups and connections of the file are what they were *)
(* when it was saved, except for what a running loop learned meanwhile      *)
(* (io.cpp 180-437).                                                        *)
NamesDiffer(gs) == \A g, h \in DOMAIN gs : gs[g].name = gs[h].name => g = h
Restored(c) ==
    LET src == ByName(image.groups[c.src].name)  dst == ByName(image.groups[c.dst].name)
    IN  /\ <<src, dst>> \in Pairs
        /\ LET now == ConnOf(<<src, dst>>)
           IN  [now EXCEPT !.vals = <<>>] = [c EXCEPT !.src = src, !.dst = dst, !.vals = <<>>]
               /\ (~image.learned => now.vals = c.vals)
LoadIsWhole == last.op = "load" => image.complete
LoadRestores ==
    /\ LoadIsWhole
    /\ last.op = "load" /\ NamesDiffer(image.groups) =>
         /\ \A c \in Range(image.conns) : Restored(c)
         /\ ~image.learned => \A g \in Range(image.groups) :
              groups[ByName(g.name)].v = g.v

(* A file that was written to its end is never found corrupt or cut short:  *)
(* what the operations leave in memory passes the checks a load makes       *)
(* (io.cpp 343-385).                                                        *)
SavedIsSound == process = "corrupt" => ~image.complete
=============================================================================
