-------------------------- MODULE ShellTreeProofs ---------------------------
(***************************************************************************)
(* What the commands do to the tree of directories, when what is typed is  *)
(* served (Slips = {}).                                                    *)
(*                                                                         *)
(* The directories of a disk form a tree: each is reached from the root by *)
(* one sequence of names (Reach, RootOnce), no longer than there are       *)
(* clusters, so that Shell's Folders finds all of them (FoldersAre) and    *)
(* the places at and below a place can be reasoned about (PlacesAre).      *)
(*                                                                         *)
(* Four things follow.  What rm and mv remove was named by the line, when  *)
(* it was typed, or lies in it (AimedInv).  No command gets lost: what cp  *)
(* and mv look for is still there when they look, and every directory they *)
(* copy goes to a place where it can be made (FineInv).  What mkdir, cp    *)
(* and mv make is what the line names, or lies in the copy.  And find      *)
(* prints every entry of the name, since one of its frames always is on    *)
(* the way to each that it has not printed yet (FindInv).                  *)
(***************************************************************************)
EXTENDS ShellPathProofs

-----------------------------------------------------------------------------
\* The ways through the directories.

\* Going down the names of r, one directory after the other, leads from the
\* directory with cluster c to that with cluster z.
Reach(d, c, r, z) ==
    /\ r \in Seq(Names)
    /\ \E h \in [0 .. Len(r) -> Clusters] :
         /\ h[0] = c /\ h[Len(r)] = z
         /\ \A i \in 1 .. Len(r) : Leads(d, h[i - 1], r[i], h[i])

\* What a way consists of.
LEMMA ReachTypes ==
    ASSUME NEW d, NEW c, NEW r, NEW z, Reach(d, c, r, z)
    PROVE  r \in Seq(Names) /\ Len(r) \in Nat /\ c \in Clusters /\ z \in Clusters
  <1>1. r \in Seq(Names)
    BY DEF Reach
  <1>2. Len(r) \in Nat
    BY <1>1
  <1>3. 0 \in 0 .. Len(r) /\ Len(r) \in 0 .. Len(r)
    BY <1>2
  <1> QED
    BY <1>1, <1>2, <1>3 DEF Reach

\* No names lead nowhere else.
LEMMA ReachNothing ==
    ASSUME NEW d
    PROVE  /\ \A c \in Clusters : Reach(d, c, <<>>, c)
           /\ \A c, z : Reach(d, c, <<>>, z) => z = c
  <1>1. Len(<<>>) = 0 /\ <<>> \in Seq(Names)
    OBVIOUS
  <1>2. ASSUME NEW c \in Clusters PROVE Reach(d, c, <<>>, c)
    <2> DEFINE h == [i \in 0 .. 0 |-> c]
    <2>1. h \in [0 .. 0 -> Clusters] /\ h[0] = c
      OBVIOUS
    <2> HIDE DEF h
    <2>2. \A i \in 1 .. 0 : Leads(d, h[i - 1], <<>>[i], h[i])
      OBVIOUS
    <2> QED
      BY <1>1, <2>1, <2>2 DEF Reach
  <1>3. ASSUME NEW c, NEW z, Reach(d, c, <<>>, z) PROVE z = c
    BY <1>1, <1>3 DEF Reach
  <1> QED
    BY <1>2, <1>3

\* One name more at the end,
LEMMA ReachAppend ==
    ASSUME NEW d, NEW c, NEW r, NEW z, Reach(d, c, r, z), NEW n \in Names, NEW y \in Clusters,
           Leads(d, z, n, y)
    PROVE  Reach(d, c, Append(r, n), y)
  <1>1. PICK h \in [0 .. Len(r) -> Clusters] :
          /\ h[0] = c /\ h[Len(r)] = z
          /\ \A i \in 1 .. Len(r) : Leads(d, h[i - 1], r[i], h[i])
    BY DEF Reach
  <1> DEFINE N == Len(r)
             q == Append(r, n)
             g == [i \in 0 .. N + 1 |-> IF i = N + 1 THEN y ELSE h[i]]
  <1>2. r \in Seq(Names) /\ N \in Nat
    BY ReachTypes
  <1>3. /\ q \in Seq(Names) /\ Len(q) = N + 1 /\ q[N + 1] = n
        /\ \A i \in 1 .. N : q[i] = r[i]
    BY <1>2
  <1>4. /\ g \in [0 .. N + 1 -> Clusters] /\ g[N + 1] = y
        /\ \A i \in 0 .. N : g[i] = h[i]
    BY <1>1, <1>2
  <1> HIDE DEF q, g
  <1>5. ASSUME NEW i \in 1 .. N + 1 PROVE Leads(d, g[i - 1], q[i], g[i])
    <2>1. CASE i = N + 1
      <3>1. i - 1 = N /\ N \in 0 .. N
        BY <1>2, <2>1
      <3> QED
        BY <1>1, <1>3, <1>4, <2>1, <3>1
    <2>2. CASE i # N + 1
      <3>1. i \in 1 .. N /\ i - 1 \in 0 .. N /\ i \in 0 .. N
        BY <1>2, <2>2
      <3> QED
        BY <1>1, <1>3, <1>4, <3>1
    <2> QED
      BY <2>1, <2>2
  <1>6. g[0] = c
    BY <1>1, <1>2, <1>4
  <1> QED
    BY <1>3, <1>4, <1>5, <1>6 DEF Reach, q

\* and without the last.
LEMMA ReachFront ==
    ASSUME NEW d, NEW c, NEW r, NEW z, Reach(d, c, r, z), r # <<>>
    PROVE  /\ Front(r) \in Seq(Names) /\ Last(r) \in Names /\ r = Append(Front(r), Last(r))
           /\ \E y \in Clusters : Reach(d, c, Front(r), y) /\ Leads(d, y, Last(r), z)
  <1>1. PICK h \in [0 .. Len(r) -> Clusters] :
          /\ h[0] = c /\ h[Len(r)] = z
          /\ \A i \in 1 .. Len(r) : Leads(d, h[i - 1], r[i], h[i])
    BY DEF Reach
  <1> DEFINE N == Len(r)
             q == Front(r)
             g == [i \in 0 .. N - 1 |-> h[i]]
  <1>2. r \in Seq(Names) /\ N \in Nat /\ N > 0
    BY ReachTypes
  <1>3. /\ q \in Seq(Names) /\ Len(q) = N - 1 /\ Last(r) = r[N] /\ r[N] \in Names
        /\ \A i \in 1 .. N - 1 : q[i] = r[i]
    BY <1>2, FrontIs DEF Last
  <1>4. /\ g \in [0 .. N - 1 -> Clusters] /\ \A i \in 0 .. N - 1 : g[i] = h[i]
    BY <1>1, <1>2
  <1> HIDE DEF q, g
  <1>5. \A i \in 1 .. N - 1 : Leads(d, g[i - 1], q[i], g[i])
    <2> TAKE i \in 1 .. N - 1
    <2>1. i \in 1 .. N /\ i - 1 \in 0 .. N - 1 /\ i \in 0 .. N - 1
      BY <1>2
    <2> QED
      BY <1>1, <1>3, <1>4, <2>1
  <1>6. 0 \in 0 .. N - 1 /\ N - 1 \in 0 .. N - 1 /\ N \in 1 .. N /\ N - 1 \in 0 .. N
    BY <1>2
  <1>7. Reach(d, c, q, h[N - 1])
    BY <1>1, <1>3, <1>4, <1>5, <1>6 DEF Reach
  <1>8. Leads(d, h[N - 1], r[N], z) /\ h[N - 1] \in Clusters
    BY <1>1, <1>6
  <1>9. r = Append(q, r[N])
    <2> DEFINE a == Append(q, r[N])
    <2>1. /\ a \in Seq(Names) /\ Len(a) = N /\ a[N] = r[N] /\ \A i \in 1 .. N - 1 : a[i] = q[i]
      BY <1>2, <1>3
    <2> HIDE DEF a
    <2>2. \A i \in 1 .. N : a[i] = r[i]
      <3> TAKE i \in 1 .. N
      <3>1. i = N \/ i \in 1 .. N - 1
        BY <1>2
      <3> QED
        BY <1>3, <2>1, <3>1
    <2>3. a = r
      BY <1>2, <2>1, <2>2, SeqEqual
    <2> QED
      BY <2>3 DEF a
  <1> QED
    BY <1>3, <1>7, <1>8, <1>9 DEF q

\* The same names lead to the same directory.
LEMMA ReachOnce ==
    ASSUME NEW d, NEW c, NEW r, NEW z, Reach(d, c, r, z), NEW y, Reach(d, c, r, y)
    PROVE  y = z
  <1>1. PICK h \in [0 .. Len(r) -> Clusters] :
          /\ h[0] = c /\ h[Len(r)] = z
          /\ \A i \in 1 .. Len(r) : Leads(d, h[i - 1], r[i], h[i])
    BY DEF Reach
  <1>2. PICK g \in [0 .. Len(r) -> Clusters] :
          /\ g[0] = c /\ g[Len(r)] = y
          /\ \A i \in 1 .. Len(r) : Leads(d, g[i - 1], r[i], g[i])
    BY DEF Reach
  <1> DEFINE N == Len(r)
             T == {i \in 0 .. N : g[i] # h[i]}
  <1>3. N \in Nat /\ N \in 0 .. N
    BY ReachTypes
  <1>4. T = {}
    <2> SUFFICES ASSUME T # {} PROVE FALSE
      OBVIOUS
    <2>1. PICK i \in T : \A j \in T : i <= j
      <3>1. T \subseteq Nat
        BY <1>3
      <3> HIDE DEF T
      <3> QED
        BY <3>1, LeastNat
    <2>2. i # 0 /\ i \in 1 .. N /\ i - 1 \in 0 .. N /\ ~(i <= i - 1)
      BY <1>1, <1>2, <1>3
    <2>3. g[i - 1] = h[i - 1]
      BY <2>1, <2>2
    <2>4. Leads(d, h[i - 1], r[i], h[i]) /\ Leads(d, g[i - 1], r[i], g[i])
      BY <1>1, <1>2, <2>2
    <2> QED
      BY <2>1, <2>3, <2>4 DEF Leads
  <1> QED
    BY <1>1, <1>2, <1>3, <1>4

\* What leads somewhere leads there as long as no directory goes.
Keeps(d, e) == \A q \in Clusters : \A m, c : Leads(d, q, m, c) => Leads(e, q, m, c)

\* Then ways are kept too.
LEMMA ReachKept ==
    ASSUME NEW d, NEW e, Keeps(d, e), NEW c, NEW r, NEW z, Reach(d, c, r, z)
    PROVE  Reach(e, c, r, z)
  <1>1. PICK h \in [0 .. Len(r) -> Clusters] :
          /\ h[0] = c /\ h[Len(r)] = z
          /\ \A i \in 1 .. Len(r) : Leads(d, h[i - 1], r[i], h[i])
    BY DEF Reach
  <1>2. r \in Seq(Names) /\ Len(r) \in Nat
    BY ReachTypes
  <1>3. \A i \in 1 .. Len(r) : Leads(e, h[i - 1], r[i], h[i])
    <2> TAKE i \in 1 .. Len(r)
    <2>1. i - 1 \in 0 .. Len(r)
      BY <1>2
    <2>2. h[i - 1] \in Clusters
      BY <1>1, <2>1
    <2> QED
      BY <1>1, <2>2 DEF Keeps
  <1> QED
    BY <1>1, <1>2, <1>3 DEF Reach

\* First the names of p, then those of r.
LEMMA ReachThen ==
    ASSUME NEW d, NEW c, NEW p, NEW y, Reach(d, c, p, y), NEW r, NEW z, Reach(d, y, r, z)
    PROVE  Reach(d, c, p \o r, z)
  <1>1. PICK h \in [0 .. Len(p) -> Clusters] :
          /\ h[0] = c /\ h[Len(p)] = y
          /\ \A i \in 1 .. Len(p) : Leads(d, h[i - 1], p[i], h[i])
    BY DEF Reach
  <1>2. PICK g \in [0 .. Len(r) -> Clusters] :
          /\ g[0] = y /\ g[Len(r)] = z
          /\ \A i \in 1 .. Len(r) : Leads(d, g[i - 1], r[i], g[i])
    BY DEF Reach
  <1> DEFINE N == Len(p)
             M == Len(r)
             q == p \o r
             k == [i \in 0 .. N + M |-> IF i <= N THEN h[i] ELSE g[i - N]]
  <1>3. p \in Seq(Names) /\ r \in Seq(Names) /\ N \in Nat /\ M \in Nat
    BY ReachTypes
  <1>4. /\ q \in Seq(Names) /\ Len(q) = N + M
        /\ \A i \in 1 .. N : q[i] = p[i]
        /\ \A i \in 1 .. M : q[N + i] = r[i]
    BY <1>3
  <1>5. k \in [0 .. N + M -> Clusters]
    <2>1. \A i \in 0 .. N + M : ~(i <= N) => i - N \in 0 .. M
      BY <1>3
    <2>2. \A i \in 0 .. N + M : i <= N => i \in 0 .. N
      BY <1>3
    <2> QED
      BY <1>1, <1>2, <2>1, <2>2
  <1>6. /\ \A i \in 0 .. N : k[i] = h[i]
        /\ \A i \in 0 .. M : k[N + i] = g[i]
    <2>1. \A i \in 0 .. N : i \in 0 .. N + M /\ i <= N
      BY <1>3
    <2>2. \A i \in 0 .. M : N + i \in 0 .. N + M /\ (N + i <= N => i = 0 /\ N + i = N) /\ (N + i) - N = i
      BY <1>3
    <2>3. \A i \in 0 .. N : k[i] = h[i]
      BY <2>1
    <2>4. ASSUME NEW i \in 0 .. M PROVE k[N + i] = g[i]
      BY <1>1, <1>2, <2>2
    <2> QED
      BY <2>3, <2>4
  <1> HIDE DEF q, k
  <1>7. ASSUME NEW i \in 1 .. N + M PROVE Leads(d, k[i - 1], q[i], k[i])
    <2>1. CASE i <= N
      <3>1. i \in 1 .. N /\ i \in 0 .. N /\ i - 1 \in 0 .. N
        BY <1>3, <2>1
      <3> QED
        BY <1>1, <1>4, <1>6, <3>1
    <2>2. CASE ~(i <= N)
      <3> DEFINE j == i - N
      <3>1. j \in 1 .. M /\ j \in 0 .. M /\ j - 1 \in 0 .. M /\ N + j = i /\ N + (j - 1) = i - 1
        BY <1>3, <2>2
      <3> HIDE DEF j
      <3> QED
        BY <1>2, <1>4, <1>6, <3>1
    <2> QED
      BY <2>1, <2>2
  <1>8. k[0] = c /\ k[N + M] = z
    <2>1. 0 \in 0 .. N /\ M \in 0 .. M
      BY <1>3
    <2> QED
      BY <1>1, <1>2, <1>6, <2>1
  <1> QED
    BY <1>4, <1>5, <1>7, <1>8 DEF Reach, q

\* One name more in front.
LEMMA ReachCons ==
    ASSUME NEW d, NEW c \in Clusters, NEW n \in Names, NEW y, Leads(d, c, n, y), NEW r, NEW z, Reach(d, y, r, z)
    PROVE  Reach(d, c, <<n>> \o r, z)
  <1>1. Reach(d, c, <<>>, c) /\ y \in Clusters
    BY ReachNothing, ReachTypes
  <1>2. Reach(d, c, Append(<<>>, n), y)
    BY <1>1, ReachAppend
  <1>3. Append(<<>>, n) = <<n>>
    OBVIOUS
  <1> QED
    BY <1>2, <1>3, ReachThen

\* The part of the way up to name k, and the rest of it.
LEMMA ReachSplit ==
    ASSUME NEW d, NEW c, NEW q, NEW z, Reach(d, c, q, z), NEW k \in 0 .. Len(q)
    PROVE  \E y \in Clusters : /\ Reach(d, c, SubSeq(q, 1, k), y)
                               /\ Reach(d, y, SubSeq(q, k + 1, Len(q)), z)
  <1>1. PICK h \in [0 .. Len(q) -> Clusters] :
          /\ h[0] = c /\ h[Len(q)] = z
          /\ \A i \in 1 .. Len(q) : Leads(d, h[i - 1], q[i], h[i])
    BY DEF Reach
  <1> DEFINE N == Len(q)
             M == N - k
             p == SubSeq(q, 1, k)
             r == SubSeq(q, k + 1, N)
             f == [i \in 0 .. k |-> h[i]]
             g == [i \in 0 .. M |-> h[k + i]]
  <1>2. q \in Seq(Names) /\ N \in Nat /\ k \in Nat /\ k <= N /\ M \in Nat
    BY ReachTypes
  <1>3. /\ p \in Seq(Names) /\ Len(p) = k /\ r \in Seq(Names) /\ Len(r) = M
        /\ \A i \in 1 .. k : p[i] = q[i]
        /\ \A i \in 1 .. M : r[i] = q[k + i]
    <2>1. p \in Seq(Names) /\ Len(p) = k /\ r \in Seq(Names) /\ Len(r) = M
      BY <1>2, PathParts
    <2>2. \A i \in 1 .. k : p[i] = q[i]
      BY <1>2
    <2>3. \A i \in 1 .. M : r[i] = q[k + i]
      BY <1>2
    <2> QED
      BY <2>1, <2>2, <2>3
  <1>4. /\ f \in [0 .. k -> Clusters] /\ g \in [0 .. M -> Clusters]
        /\ \A i \in 0 .. k : f[i] = h[i] /\ i \in 0 .. N
        /\ \A i \in 0 .. M : g[i] = h[k + i] /\ k + i \in 0 .. N
    <2>1. \A i \in 0 .. k : i \in 0 .. N
      BY <1>2
    <2>2. \A i \in 0 .. M : k + i \in 0 .. N
      BY <1>2
    <2> QED
      BY <1>1, <2>1, <2>2
  <1> HIDE DEF p, r, f, g
  <1>5. \A i \in 1 .. k : Leads(d, f[i - 1], p[i], f[i])
    <2> TAKE i \in 1 .. k
    <2>1. i \in 1 .. N /\ i \in 0 .. k /\ i - 1 \in 0 .. k
      BY <1>2
    <2> QED
      BY <1>1, <1>3, <1>4, <2>1
  <1>6. \A i \in 1 .. M : Leads(d, g[i - 1], r[i], g[i])
    <2> TAKE i \in 1 .. M
    <2>1. k + i \in 1 .. N /\ i \in 0 .. M /\ i - 1 \in 0 .. M /\ k + (i - 1) = (k + i) - 1
      BY <1>2
    <2> QED
      BY <1>1, <1>3, <1>4, <2>1
  <1>7. f[0] = c /\ f[k] = h[k] /\ g[0] = h[k] /\ g[M] = z /\ h[k] \in Clusters
    <2>1. 0 \in 0 .. k /\ k \in 0 .. k /\ 0 \in 0 .. M /\ M \in 0 .. M /\ k + M = N /\ k + 0 = k
      BY <1>2
    <2> QED
      BY <1>1, <1>4, <2>1
  <1>8. Reach(d, c, p, h[k])
    BY <1>3, <1>4, <1>5, <1>7 DEF Reach
  <1>9. Reach(d, h[k], r, z)
    BY <1>3, <1>4, <1>6, <1>7 DEF Reach
  <1> QED
    BY <1>7, <1>8, <1>9 DEF p, r

\* The first name, and the rest of the way.
LEMMA ReachHead ==
    ASSUME NEW d, NEW c, NEW r, NEW z, Reach(d, c, r, z), r # <<>>
    PROVE  /\ Head(r) \in Names /\ Tail(r) \in Seq(Names) /\ r = <<Head(r)>> \o Tail(r)
           /\ \E y \in Clusters : Leads(d, c, Head(r), y) /\ Reach(d, y, Tail(r), z)
  <1>1. r \in Seq(Names) /\ Len(r) \in Nat /\ Len(r) > 0 /\ 1 \in 0 .. Len(r)
    BY ReachTypes
  <1>2. PICK y \in Clusters : /\ Reach(d, c, SubSeq(r, 1, 1), y)
                              /\ Reach(d, y, SubSeq(r, 2, Len(r)), z)
    <2>1. 1 + 1 = 2
      OBVIOUS
    <2> QED
      BY <1>1, <2>1, ReachSplit
  <1>3. SubSeq(r, 2, Len(r)) = Tail(r) /\ SubSeq(r, 1, 1) = <<Head(r)>>
    <2> DEFINE a == SubSeq(r, 1, 1)
    <2>1. a \in Seq(Names) /\ Len(a) = 1 /\ a[1] = r[1]
      BY <1>1
    <2> HIDE DEF a
    <2> DEFINE b == <<r[1]>>
    <2>3. b \in Seq(Names) /\ Len(b) = 1 /\ b[1] = r[1]
      BY <1>1
    <2> HIDE DEF b
    <2>4. a = b
      <3>1. \A i \in 1 .. 1 : i = 1
        OBVIOUS
      <3> QED
        BY <2>1, <2>3, <3>1, SeqEqual
    <2>2. a = <<a[1]>>
      BY <2>1, <2>4 DEF b
    <2> USE DEF a
    <2> QED
      BY <1>1, <2>1, <2>2
  <1>4. Leads(d, c, Head(r), y)
    <2> DEFINE a == <<Head(r)>>
    <2>1. Len(a) = 1 /\ a[1] = Head(r)
      OBVIOUS
    <2> HIDE DEF a
    <2>2. PICK h \in [0 .. 1 -> Clusters] :
            /\ h[0] = c /\ h[1] = y
            /\ \A i \in 1 .. 1 : Leads(d, h[i - 1], a[i], h[i])
      BY <1>2, <1>3, <2>1 DEF Reach, a
    <2>3. 1 \in 1 .. 1 /\ 1 - 1 = 0
      OBVIOUS
    <2>4. Leads(d, h[1 - 1], a[1], h[1])
      BY <2>2, <2>3
    <2> QED
      BY <2>1, <2>2, <2>3, <2>4
  <1>5. Head(r) \in Names /\ Tail(r) \in Seq(Names)
    BY <1>1
  <1>6. r = <<Head(r)>> \o Tail(r)
    BY <1>1
  <1> QED
    BY <1>2, <1>3, <1>4, <1>5, <1>6

\* The clusters h are passed from the root down, by the names r.
Way(d, N, h, r) ==
    /\ N \in Nat /\ (\A i \in 0 .. N : h[i] \in Clusters) /\ h[0] = ROOT_CLUSTER_NUMBER
    /\ \A i \in 1 .. N : Leads(d, h[i - 1], r[i], h[i])

\* Going up from a directory there is one way, which ends at the root.
LEMMA WaysBack ==
    ASSUME NEW d, IsStore(d), NEW N, NEW h, NEW r, Way(d, N, h, r), NEW M, NEW g, NEW q, Way(d, M, g, q),
           h[N] = g[M]
    PROVE  M <= N /\ \A k \in 0 .. M : h[N - k] = g[M - k]
  <1> USE DEF Way
  <1> DEFINE T == {k \in 0 .. N : k <= M /\ h[N - k] # g[M - k]}
  <1>1. T = {}
    <2> SUFFICES ASSUME T # {} PROVE FALSE
      OBVIOUS
    <2>1. PICK k \in T : \A j \in T : k <= j
      <3>1. T \subseteq Nat
        OBVIOUS
      <3> HIDE DEF T
      <3> QED
        BY <3>1, LeastNat
    <2>2. k # 0
      OBVIOUS
    <2>3. /\ k - 1 \in 0 .. N /\ k - 1 <= M /\ ~(k <= k - 1)
          /\ N - k \in 0 .. N /\ N - (k - 1) \in 1 .. N /\ (N - (k - 1)) - 1 = N - k
          /\ M - k \in 0 .. M /\ M - (k - 1) \in 1 .. M /\ (M - (k - 1)) - 1 = M - k
      BY <2>2
    <2>4. h[N - (k - 1)] = g[M - (k - 1)]
      BY <2>1, <2>3
    <2>5. Leads(d, h[N - k], r[N - (k - 1)], h[N - (k - 1)])
      BY <2>3
    <2>6. Leads(d, g[M - k], q[M - (k - 1)], g[M - (k - 1)])
      BY <2>3
    <2>7. h[N - k] \in Clusters /\ g[M - k] \in Clusters
      BY <2>3
    <2>8. g[M - k] = h[N - k]
      BY <2>4, <2>5, <2>6, <2>7, LedToOnce
    <2> QED
      BY <2>1, <2>8
  <1>2. M <= N
    <2> SUFFICES ASSUME ~(M <= N) PROVE FALSE
      OBVIOUS
    <2>1. /\ N \in 0 .. N /\ N <= M /\ N - N = 0 /\ M - N \in 1 .. M /\ (M - N) - 1 \in 0 .. M
      OBVIOUS
    <2>2. N \notin T
      BY <1>1
    <2>3. g[M - N] = ROOT_CLUSTER_NUMBER
      BY <2>1, <2>2
    <2>4. Leads(d, g[(M - N) - 1], q[M - N], g[M - N]) /\ g[(M - N) - 1] \in Clusters
      BY <2>1
    <2> QED
      BY <2>3, <2>4, LedToOnce
  <1>3. \A k \in 0 .. M : h[N - k] = g[M - k]
    <2> TAKE k \in 0 .. M
    <2>1. k \in 0 .. N /\ k <= M
      BY <1>2
    <2>2. k \notin T
      BY <1>1
    <2> QED
      BY <2>1, <2>2
  <1> QED
    BY <1>2, <1>3

\* A directory has one way from the root.
LEMMA RootOnce ==
    ASSUME NEW d, IsStore(d), NEW z, NEW r, Reach(d, ROOT_CLUSTER_NUMBER, r, z),
           NEW q, Reach(d, ROOT_CLUSTER_NUMBER, q, z)
    PROVE  r = q
  <1>1. PICK h \in [0 .. Len(r) -> Clusters] :
          /\ h[0] = ROOT_CLUSTER_NUMBER /\ h[Len(r)] = z
          /\ \A i \in 1 .. Len(r) : Leads(d, h[i - 1], r[i], h[i])
    BY DEF Reach
  <1>2. PICK g \in [0 .. Len(q) -> Clusters] :
          /\ g[0] = ROOT_CLUSTER_NUMBER /\ g[Len(q)] = z
          /\ \A i \in 1 .. Len(q) : Leads(d, g[i - 1], q[i], g[i])
    BY DEF Reach
  <1> DEFINE N == Len(r)
             M == Len(q)
  <1>3. r \in Seq(Names) /\ q \in Seq(Names) /\ N \in Nat /\ M \in Nat
    BY ReachTypes
  <1>4. (\A i \in 0 .. N : h[i] \in Clusters) /\ (\A i \in 0 .. M : g[i] \in Clusters)
    BY <1>1, <1>2
  <1>0. Way(d, N, h, r) /\ Way(d, M, g, q) /\ h[N] = g[M]
    BY <1>1, <1>2, <1>3, <1>4 DEF Way
  <1> HIDE DEF N, M
  <1>5. M <= N /\ \A k \in 0 .. M : h[N - k] = g[M - k]
    BY <1>0, WaysBack
  <1>6. N <= M
    BY <1>0, WaysBack
  <1>7. N = M
    BY <1>3, <1>5, <1>6
  <1>8. \A i \in 0 .. N : h[i] = g[i]
    <2> TAKE i \in 0 .. N
    <2>1. N - i \in 0 .. M /\ N - (N - i) = i /\ M - (N - i) = i
      BY <1>3, <1>7
    <2> QED
      BY <1>5, <2>1
  <1>9. \A i \in 1 .. N : r[i] = q[i]
    <2> TAKE i \in 1 .. N
    <2>1. i \in 0 .. N /\ i - 1 \in 0 .. N /\ i \in 1 .. M
      BY <1>3, <1>7
    <2>2. Leads(d, h[i - 1], r[i], h[i]) /\ Leads(d, h[i - 1], q[i], h[i]) /\ h[i - 1] \in Clusters
      BY <1>1, <1>2, <1>4, <1>8, <2>1 DEF N, M
    <2> QED
      BY <2>2, LedToOnce
  <1> QED
    BY <1>3, <1>7, <1>9, SeqEqual DEF N, M

\* It passes no directory twice, and so is no longer than there are clusters.
LEMMA ReachBounded ==
    ASSUME NEW d, IsStore(d), NEW z, NEW r, Reach(d, ROOT_CLUSTER_NUMBER, r, z)
    PROVE  Len(r) < CLUSTER_MAP_SIZE
  <1>1. PICK h \in [0 .. Len(r) -> Clusters] :
          /\ h[0] = ROOT_CLUSTER_NUMBER /\ h[Len(r)] = z
          /\ \A i \in 1 .. Len(r) : Leads(d, h[i - 1], r[i], h[i])
    BY DEF Reach
  <1> DEFINE N == Len(r)
  <1>2. N \in Nat
    BY ReachTypes
  <1>3. ASSUME NEW i \in 0 .. N, NEW j \in 0 .. N, h[i] = h[j] PROVE j <= i
    <2>1. i \in Nat /\ j \in Nat
      BY <1>2
    <2>2. /\ \A k \in 0 .. i : k \in 0 .. N
          /\ \A k \in 0 .. j : k \in 0 .. N
          /\ \A k \in 1 .. i : k \in 1 .. N
          /\ \A k \in 1 .. j : k \in 1 .. N
      BY <1>2, <2>1
    <2>3. /\ \A k \in 0 .. N : h[k] \in Clusters
          /\ \A k \in 1 .. N : Leads(d, h[k - 1], r[k], h[k])
      BY <1>1
    <2> HIDE DEF N
    <2>4. Way(d, i, h, r)
      BY <1>1, <2>1, <2>2, <2>3 DEF Way
    <2>5. Way(d, j, h, r)
      BY <1>1, <2>1, <2>2, <2>3 DEF Way
    <2> QED
      BY <1>3, <2>4, <2>5, WaysBack
  <1>4. h \in Injection(0 .. N, Clusters)
    <2>1. ASSUME NEW i \in 0 .. N, NEW j \in 0 .. N, h[i] = h[j] PROVE i = j
      <3>1. j <= i /\ i <= j
        BY <1>3, <2>1
      <3> QED
        BY <1>2, <3>1
    <2> QED
      BY <1>1, <2>1 DEF Injection, IsInjective
  <1>5. Cardinality(0 .. N) <= Cardinality(Clusters)
    BY <1>4, ClustersFinite, FS_Injection
  <1>6. Cardinality(0 .. N) = N + 1
    <2>1. 0 \in Int /\ N \in Int /\ ~(0 > N) /\ N - 0 + 1 = N + 1
      BY <1>2
    <2> QED
      BY <2>1, FS_Interval
  <1>7. CLUSTER_MAP_SIZE \in Nat /\ Cardinality(Clusters) = CLUSTER_MAP_SIZE
    BY Numbers, ClustersFinite
  <1> QED
    BY <1>2, <1>5, <1>6, <1>7

\* A directory in a directory is one of the disk.
LEMMA LeadsToTable ==
    ASSUME NEW d, DiskOK(d), NEW t \in Tables(d), NEW n, NEW c, Leads(d, t, n, c)
    PROVE  c \in Tables(d) /\ c \in Clusters
  <1>1. c \in Subdirectories(d, t)
    BY SubdirectoriesOf DEF Leads, Has, EntryOf
  <1> QED
    BY <1>1, TablesClosed

\* So is what a way from one of them leads to.
LEMMA ReachIsTable ==
    ASSUME NEW d, DiskOK(d), NEW c \in Tables(d), NEW r, NEW z, Reach(d, c, r, z)
    PROVE  z \in Tables(d)
  <1>1. PICK h \in [0 .. Len(r) -> Clusters] :
          /\ h[0] = c /\ h[Len(r)] = z
          /\ \A i \in 1 .. Len(r) : Leads(d, h[i - 1], r[i], h[i])
    BY DEF Reach
  <1> DEFINE N == Len(r)
             T == {i \in 0 .. N : h[i] \notin Tables(d)}
  <1>2. N \in Nat
    BY ReachTypes
  <1>3. T = {}
    <2> SUFFICES ASSUME T # {} PROVE FALSE
      OBVIOUS
    <2>1. PICK i \in T : \A j \in T : i <= j
      <3>1. T \subseteq Nat
        BY <1>2
      <3> HIDE DEF T
      <3> QED
        BY <3>1, LeastNat
    <2>2. i # 0 /\ i \in 1 .. N /\ i - 1 \in 0 .. N /\ ~(i <= i - 1)
      BY <1>1, <1>2
    <2>3. h[i - 1] \in Tables(d) /\ Leads(d, h[i - 1], r[i], h[i])
      BY <1>1, <2>1, <2>2
    <2> QED
      BY <2>1, <2>3, LeadsToTable
  <1>4. N \in 0 .. N
    BY <1>2
  <1> QED
    BY <1>1, <1>3, <1>4

\* Every directory is reached from the root.
LEMMA TablesReached ==
    ASSUME NEW d, DiskOK(d), NEW t \in Tables(d)
    PROVE  \E p : Reach(d, ROOT_CLUSTER_NUMBER, p, t)
  <1> DEFINE X == {z \in Clusters : \E p : Reach(d, ROOT_CLUSTER_NUMBER, p, z)}
  <1>1. ROOT_CLUSTER_NUMBER \in X
    BY RootIsCluster, ReachNothing
  <1>2. ASSUME NEW x \in X \cap Tables(d), NEW c \in Subdirectories(d, x) PROVE c \in X
    <2>1. PICK n \in DOMAIN ReadTable(d, x).entries :
            ReadTable(d, x).entries[n].dir /\ ReadTable(d, x).entries[n].cluster = c
      BY <1>2, SubdirectoriesOf
    <2>2. Leads(d, x, n, c) /\ n \in Names /\ c \in Clusters
      <3>1. c \in Clusters
        BY <1>2, SubdirectoriesAreClusters
      <3>2. TableOK(ReadTable(d, x))
        BY <1>2, ReadTableOK
      <3> QED
        BY <2>1, <3>1, <3>2 DEF Leads, Has, EntryOf, TableOK
    <2>3. PICK p : Reach(d, ROOT_CLUSTER_NUMBER, p, x)
      BY <1>2
    <2>4. Reach(d, ROOT_CLUSTER_NUMBER, Append(p, n), c)
      BY <2>2, <2>3, ReachAppend
    <2> QED
      BY <2>2, <2>4
  <1> HIDE DEF X
  <1>3. Tables(d) \subseteq X
    BY <1>1, <1>2, TablesLeast
  <1> QED
    BY <1>3 DEF X

\* Below a directory too there is one way to each.
LEMMA TableOnce ==
    ASSUME NEW d, IsStore(d), NEW c \in Tables(d), NEW z, NEW r, Reach(d, c, r, z), NEW q, Reach(d, c, q, z)
    PROVE  r = q /\ Len(r) < CLUSTER_MAP_SIZE
  <1>1. DiskOK(d)
    BY DEF IsStore
  <1>2. PICK p : Reach(d, ROOT_CLUSTER_NUMBER, p, c)
    BY <1>1, TablesReached
  <1>3. Reach(d, ROOT_CLUSTER_NUMBER, p \o r, z) /\ Reach(d, ROOT_CLUSTER_NUMBER, p \o q, z)
    BY <1>2, ReachThen
  <1>4. p \o r = p \o q /\ Len(p \o r) < CLUSTER_MAP_SIZE
    BY <1>3, RootOnce, ReachBounded
  <1>5. p \in Seq(Names) /\ r \in Seq(Names) /\ q \in Seq(Names)
    BY <1>2, ReachTypes
  <1>6. /\ Len(p) \in Nat /\ Len(r) \in Nat /\ Len(q) \in Nat
        /\ Len(p \o r) = Len(p) + Len(r) /\ Len(p \o q) = Len(p) + Len(q)
        /\ \A i \in 1 .. Len(r) : (p \o r)[Len(p) + i] = r[i]
        /\ \A i \in 1 .. Len(q) : (p \o q)[Len(p) + i] = q[i]
    BY <1>5
  <1>7. Len(r) = Len(q) /\ Len(r) < CLUSTER_MAP_SIZE
    <2>1. CLUSTER_MAP_SIZE \in Nat
      BY Numbers
    <2>2. Len(p) + Len(r) = Len(p) + Len(q)
      BY <1>4, <1>6
    <2>3. Len(p) + Len(r) < CLUSTER_MAP_SIZE
      BY <1>4, <1>6
    <2> DEFINE a == Len(p)
               b == Len(r)
               f == Len(q)
    <2> HIDE DEF a, b, f
    <2>4. a \in Nat /\ b \in Nat /\ f \in Nat /\ a + b = a + f /\ a + b < CLUSTER_MAP_SIZE
      BY <1>6, <2>2, <2>3 DEF a, b, f
    <2>5. b = f /\ b < CLUSTER_MAP_SIZE
      BY <2>1, <2>4
    <2> QED
      BY <2>5 DEF b, f
  <1>8. \A i \in 1 .. Len(r) : r[i] = q[i]
    BY <1>4, <1>6, <1>7
  <1> QED
    BY <1>5, <1>7, <1>8, SeqEqual

\* A subdirectory, as Folders collects it.
LEMMA PlacesUnderAre ==
    ASSUME NEW d, NEW x \in PlaceRecords, NEW y
    PROVE  y \in PlacesUnder(d, x) <=>
             \E n : Leads(d, x.at, n, EntryOf(d, x.at, n).cluster) /\
                    y = [path |-> Append(x.path, n), at |-> EntryOf(d, x.at, n).cluster]
  BY DEF PlacesUnder, Leads, Has, EntryOf

\* What Folders finds is reached,
LEMMA FoldersReached ==
    ASSUME NEW d, DiskOK(d), NEW c \in Clusters, NEW x \in Folders(d, c)
    PROVE  x \in PlaceRecords /\ Reach(d, c, x.path, x.at)
  <1> DEFINE level == LevelsOfFolders(d, c)
             T == {i \in 0 .. CLUSTER_MAP_SIZE : \E y \in level[i] : ~Reach(d, c, y.path, y.at)}
  <1>1. /\ \A i \in 0 .. CLUSTER_MAP_SIZE : level[i] \in SUBSET PlaceRecords
        /\ level[0] = {[path |-> <<>>, at |-> c]}
        /\ \A i \in 1 .. CLUSTER_MAP_SIZE :
             level[i] = UNION {{y} \cup PlacesUnder(d, y) : y \in level[i - 1]}
        /\ Folders(d, c) = level[CLUSTER_MAP_SIZE]
    BY FoldersUnfold
  <1> HIDE DEF level
  <1>2. T = {}
    <2> SUFFICES ASSUME T # {} PROVE FALSE
      OBVIOUS
    <2>1. PICK k \in T : \A j \in T : k <= j
      <3>1. T \subseteq Nat
        BY Numbers
      <3> HIDE DEF T
      <3> QED
        BY <3>1, LeastNat
    <2>2. PICK y \in level[k] : ~Reach(d, c, y.path, y.at)
      OBVIOUS
    <2>3. k # 0
      <3> SUFFICES ASSUME k = 0 PROVE FALSE
        OBVIOUS
      <3>1. y = [path |-> <<>>, at |-> c]
        BY <1>1, <2>2
      <3> QED
        BY <2>2, <3>1, ReachNothing
    <2>4. k \in 1 .. CLUSTER_MAP_SIZE /\ k - 1 \in 0 .. CLUSTER_MAP_SIZE /\ ~(k <= k - 1)
      BY <2>3, Numbers
    <2>5. k - 1 \notin T
      BY <2>1, <2>4
    <2>6. PICK x0 \in level[k - 1] : y \in {x0} \cup PlacesUnder(d, x0)
      BY <1>1, <2>2, <2>4
    <2>7. x0 \in PlaceRecords /\ Reach(d, c, x0.path, x0.at)
      BY <1>1, <2>4, <2>5
    <2>8. y \in PlacesUnder(d, x0)
      BY <2>2, <2>6, <2>7
    <2>9. PICK n : Leads(d, x0.at, n, EntryOf(d, x0.at, n).cluster) /\
                   y = [path |-> Append(x0.path, n), at |-> EntryOf(d, x0.at, n).cluster]
      BY <2>7, <2>8, PlacesUnderAre
    <2>10. y \in PlaceRecords
      BY <1>1, <2>2, <2>4
    <2>11. EntryOf(d, x0.at, n).cluster \in Clusters /\ x0.at \in Clusters
      BY <2>7, <2>9, <2>10 DEF PlaceRecords
    <2>12. n \in Names
      <3>1. n \in DOMAIN ReadTable(d, x0.at).entries
        BY <2>9 DEF Leads, Has
      <3> QED
        BY <2>11, <3>1, ReadTableOK DEF TableOK
    <2>13. y.path = Append(x0.path, n) /\ y.at = EntryOf(d, x0.at, n).cluster
      BY <2>9
    <2> QED
      BY <2>2, <2>7, <2>9, <2>11, <2>12, <2>13, ReachAppend
  <1>3. CLUSTER_MAP_SIZE \in 0 .. CLUSTER_MAP_SIZE
    BY Numbers
  <1>4. CLUSTER_MAP_SIZE \notin T
    BY <1>2
  <1> QED
    BY <1>1, <1>3, <1>4

\* and what is reached in so many steps it finds.
LEMMA FoldersFind ==
    ASSUME NEW d, DiskOK(d), NEW c \in Clusters, NEW r, NEW z, Reach(d, c, r, z), Len(r) <= CLUSTER_MAP_SIZE
    PROVE  [path |-> r, at |-> z] \in Folders(d, c)
  <1> DEFINE level == LevelsOfFolders(d, c)
             T == {i \in 0 .. CLUSTER_MAP_SIZE :
                     \E q, y : Reach(d, c, q, y) /\ Len(q) <= i /\ [path |-> q, at |-> y] \notin level[i]}
  <1>1. /\ \A i \in 0 .. CLUSTER_MAP_SIZE : level[i] \in SUBSET PlaceRecords
        /\ level[0] = {[path |-> <<>>, at |-> c]}
        /\ \A i \in 1 .. CLUSTER_MAP_SIZE :
             level[i] = UNION {{y} \cup PlacesUnder(d, y) : y \in level[i - 1]}
        /\ Folders(d, c) = level[CLUSTER_MAP_SIZE]
    BY FoldersUnfold
  <1> HIDE DEF level
  <1>2. T = {}
    <2> SUFFICES ASSUME T # {} PROVE FALSE
      OBVIOUS
    <2>1. PICK k \in T : \A j \in T : k <= j
      <3>1. T \subseteq Nat
        BY Numbers
      <3> HIDE DEF T
      <3> QED
        BY <3>1, LeastNat
    <2>2. PICK q, y : Reach(d, c, q, y) /\ Len(q) <= k /\ [path |-> q, at |-> y] \notin level[k]
      OBVIOUS
    <2>3. q \in Seq(Names) /\ Len(q) \in Nat /\ y \in Clusters
      BY <2>2, ReachTypes
    <2>4. k # 0
      <3> SUFFICES ASSUME k = 0 PROVE FALSE
        OBVIOUS
      <3>1. q = <<>>
        BY <2>2, <2>3
      <3> QED
        BY <1>1, <2>2, <3>1, ReachNothing
    <2>5. k \in 1 .. CLUSTER_MAP_SIZE /\ k - 1 \in 0 .. CLUSTER_MAP_SIZE /\ ~(k <= k - 1)
      BY <2>4, Numbers
    <2>6. k - 1 \notin T
      BY <2>1, <2>5
    <2>7. q # <<>>
      <3> SUFFICES ASSUME q = <<>> PROVE FALSE
        OBVIOUS
      <3>1. Len(q) <= k - 1
        BY <2>5
      <3>2. [path |-> q, at |-> y] \in level[k - 1]
        BY <2>2, <2>5, <2>6, <3>1
      <3> DEFINE here == [path |-> q, at |-> y]
                 U == {{x} \cup PlacesUnder(d, x) : x \in level[k - 1]}
      <3>3. here \in level[k - 1] /\ here \notin level[k]
        BY <2>2, <3>2
      <3>4. level[k] = UNION U
        BY <1>1, <2>5
      <3> HIDE DEF here
      <3>5. here \in UNION U
        BY <3>3
      <3> QED
        BY <3>3, <3>4, <3>5
    <2>8. PICK x \in Clusters : Reach(d, c, Front(q), x) /\ Leads(d, x, Last(q), y)
      BY <2>2, <2>7, ReachFront
    <2>9. q = Append(Front(q), Last(q)) /\ Len(Front(q)) <= k - 1
      <3>1. Len(q) > 0
        BY <2>3, <2>7
      <3>2. Len(Front(q)) = Len(q) - 1
        BY <2>3, <3>1, FrontIs
      <3> QED
        BY <2>2, <2>3, <2>5, <2>7, <3>2, ReachFront
    <2>10. [path |-> Front(q), at |-> x] \in level[k - 1]
      BY <2>5, <2>6, <2>8, <2>9
    <2> DEFINE x0 == [path |-> Front(q), at |-> x]
    <2>11. x0 \in PlaceRecords
      BY <1>1, <2>5, <2>10
    <2>12. [path |-> q, at |-> y] \in PlacesUnder(d, x0)
      <3>1. y = EntryOf(d, x0.at, Last(q)).cluster /\ Leads(d, x0.at, Last(q), y)
        BY <2>8 DEF Leads
      <3>2. [path |-> q, at |-> y] = [path |-> Append(x0.path, Last(q)), at |-> EntryOf(d, x0.at, Last(q)).cluster]
        BY <2>9, <3>1
      <3> HIDE DEF x0
      <3> QED
        BY <2>11, <3>1, <3>2, PlacesUnderAre
    <2> QED
      BY <1>1, <2>2, <2>5, <2>10, <2>12
  <1>3. CLUSTER_MAP_SIZE \in 0 .. CLUSTER_MAP_SIZE
    BY Numbers
  <1>4. CLUSTER_MAP_SIZE \notin T
    BY <1>2
  <1> QED
    BY <1>1, <1>3, <1>4

\* So Folders collects the directories that are reached.
LEMMA FoldersAre ==
    ASSUME NEW d, IsStore(d), NEW c \in Tables(d), NEW x
    PROVE  x \in Folders(d, c) <=> \E r, z : Reach(d, c, r, z) /\ x = [path |-> r, at |-> z]
  <1>1. DiskOK(d) /\ c \in Clusters
    BY TablesClosed DEF IsStore
  <1>2. ASSUME x \in Folders(d, c) PROVE \E r, z : Reach(d, c, r, z) /\ x = [path |-> r, at |-> z]
    <2>1. x \in PlaceRecords /\ Reach(d, c, x.path, x.at)
      BY <1>1, <1>2, FoldersReached
    <2>2. x = [path |-> x.path, at |-> x.at]
      BY <2>1 DEF PlaceRecords
    <2> QED
      BY <2>1, <2>2
  <1>3. ASSUME NEW r, NEW z, Reach(d, c, r, z) PROVE [path |-> r, at |-> z] \in Folders(d, c)
    <2>1. Len(r) <= CLUSTER_MAP_SIZE
      <3>1. Len(r) < CLUSTER_MAP_SIZE
        BY <1>3, TableOnce
      <3>2. Len(r) \in Nat
        BY <1>3, ReachTypes
      <3> QED
        BY <3>1, <3>2, Numbers
    <2> QED
      BY <1>1, <1>3, <2>1, FoldersFind
  <1> QED
    BY <1>2, <1>3

\* What a place leads to.
LEMMA FolderLeads ==
    ASSUME NEW d, IsStore(d), NEW e
    PROVE  /\ IsFolder(d, e) <=> e[1] # NoCluster /\ Leads(d, e[1], e[2], EntryOf(d, e[1], e[2]).cluster)
           /\ IsFolder(d, e) /\ e[1] \in Clusters =>
                EntryOf(d, e[1], e[2]).cluster \in Tables(d) /\ e[1] \in Tables(d)
  <1>1. DiskOK(d)
    BY DEF IsStore
  <1>2. ASSUME IsFolder(d, e), e[1] \in Clusters PROVE EntryOf(d, e[1], e[2]).cluster \in Tables(d) /\ e[1] \in Tables(d)
    <2>1. e[2] \in DOMAIN ReadTable(d, e[1]).entries /\ EntryOf(d, e[1], e[2]).dir
      BY <1>2 DEF IsFolder, Exists, Has
    <2>2. e[1] \in Tables(d)
      BY <1>2, <2>1, HasMeansTable
    <2>3. Leads(d, e[1], e[2], EntryOf(d, e[1], e[2]).cluster)
      BY <2>1 DEF Leads, Has
    <2> QED
      BY <1>1, <2>2, <2>3, LeadsToTable
  <1> QED
    BY <1>2 DEF IsFolder, Exists, Leads

\* The directories a place holds are those below the one it leads to.
LEMMA InsideIs ==
    ASSUME NEW d, IsStore(d), NEW e, e[1] \in Clusters, NEW z
    PROVE  z \in InsideOf(d, e) <=> \E c, r : Leads(d, e[1], e[2], c) /\ Reach(d, c, r, z)
  <1>1. e[1] # NoCluster
    BY IsNoCluster
  <1> DEFINE c == EntryOf(d, e[1], e[2]).cluster
  <1>2. \A x : Leads(d, e[1], e[2], x) => x = c /\ IsFolder(d, e)
    BY <1>1 DEF Leads, IsFolder, Exists
  <1>3. IsFolder(d, e) => Leads(d, e[1], e[2], c) /\ c \in Tables(d)
    BY FolderLeads
  <1>4. InsideOf(d, e) = IF IsFolder(d, e) THEN {x.at : x \in Folders(d, c)} ELSE {}
    BY DEF InsideOf
  <1> HIDE DEF c
  <1>5. ASSUME z \in InsideOf(d, e) PROVE \E x, r : Leads(d, e[1], e[2], x) /\ Reach(d, x, r, z)
    <2>1. IsFolder(d, e)
      BY <1>4, <1>5
    <2>2. PICK x \in Folders(d, c) : z = x.at
      BY <1>4, <1>5, <2>1
    <2>3. PICK r, y : Reach(d, c, r, y) /\ x = [path |-> r, at |-> y]
      BY <1>3, <2>1, <2>2, FoldersAre
    <2> QED
      BY <1>3, <2>1, <2>2, <2>3
  <1>6. ASSUME NEW x, NEW r, Leads(d, e[1], e[2], x), Reach(d, x, r, z) PROVE z \in InsideOf(d, e)
    <2>1. x = c /\ IsFolder(d, e)
      BY <1>2, <1>6
    <2>2. [path |-> r, at |-> z] \in Folders(d, c)
      BY <1>3, <1>6, <2>1, FoldersAre
    <2>3. [path |-> r, at |-> z].at = z
      OBVIOUS
    <2> QED
      BY <1>4, <2>1, <2>2, <2>3
  <1> QED
    BY <1>5, <1>6

\* The places of a tree: the place itself, and those in the directories inside.
LEMMA PlacesAre ==
    ASSUME NEW d, NEW e, NEW x
    PROVE  x \in PlacesIn(d, e) <=> x = e \/ \E z \in InsideOf(d, e) : \E n : Has(d, z, n) /\ x = <<z, n>>
  BY DEF PlacesIn, InsideOf, Has

\* The names on a path above its k-th directory.
NamesFrom(w, k) == [i \in 1 .. Len(w) - k |-> w[k + i].name]

\* They lead from there to its top.
LEMMA PathReaches ==
    ASSUME NEW d, NEW w, Path(d, w), NEW k \in 1 .. Len(w)
    PROVE  Reach(d, w[k].cluster, NamesFrom(w, k), Last(w).cluster)
  <1> DEFINE N == Len(w) - k
             r == NamesFrom(w, k)
             h == [i \in 0 .. N |-> w[k + i].cluster]
  <1>1. /\ Len(w) \in Nat /\ Len(w) > 0 /\ Last(w) = w[Len(w)]
        /\ \A i \in 1 .. Len(w) : w[i].cluster \in Clusters /\ w[i].name \in Names
    BY PathHas
  <1>2. N \in Nat /\ k \in Nat /\ k + N = Len(w) /\ k + 0 = k
    BY <1>1
  <1>3. /\ \A i \in 0 .. N : k + i \in 1 .. Len(w)
        /\ \A i \in 1 .. N : /\ k + i \in 1 .. Len(w) /\ (k + (i - 1)) \in 1 .. Len(w) - 1
                             /\ (k + (i - 1)) + 1 = k + i /\ i - 1 \in 0 .. N /\ i \in 0 .. N
    BY <1>1, <1>2
  <1>4. r \in Seq(Names) /\ Len(r) = N /\ \A i \in 1 .. N : r[i] = w[k + i].name
    <2>1. r = [i \in 1 .. N |-> w[k + i].name]
      BY DEF NamesFrom
    <2>2. \A i \in 1 .. N : w[k + i].name \in Names
      BY <1>1, <1>3
    <2> HIDE DEF N
    <2> QED
      BY <1>2, <2>1, <2>2
  <1>5. h \in [0 .. N -> Clusters]
    BY <1>1, <1>3
  <1>6. \A i \in 0 .. N : h[i] = w[k + i].cluster
    OBVIOUS
  <1>7. h[0] = w[k].cluster /\ h[N] = Last(w).cluster
    <2>1. 0 \in 0 .. N /\ N \in 0 .. N
      BY <1>2
    <2> HIDE DEF N, h
    <2> QED
      BY <1>1, <1>2, <1>6, <2>1
  <1> HIDE DEF N, h, r
  <1>8. \A i \in 1 .. N : Leads(d, h[i - 1], r[i], h[i])
    <2> TAKE i \in 1 .. N
    <2> DEFINE j == k + (i - 1)
    <2>1. j \in 1 .. Len(w) - 1 /\ j + 1 = k + i
      BY <1>3
    <2>2. Leads(d, w[j].cluster, w[j + 1].name, w[j + 1].cluster)
      BY <2>1 DEF Path
    <2>3. h[i - 1] = w[j].cluster /\ h[i] = w[k + i].cluster /\ r[i] = w[k + i].name
      BY <1>3, <1>4, <1>6
    <2> HIDE DEF j
    <2> QED
      BY <2>1, <2>2, <2>3
  <1>9. Reach(d, w[k].cluster, r, Last(w).cluster)
    BY <1>4, <1>5, <1>7, <1>8 DEF Reach
  <1> QED
    BY <1>9 DEF r

\* A path goes through directories.
LEMMA PathTables ==
    ASSUME NEW d, DiskOK(d), NEW w, Path(d, w)
    PROVE  Last(w).cluster \in Tables(d)
  <1>1. 1 \in 1 .. Len(w) /\ w[1] = RootLink
    BY PathHas DEF StackOK
  <1>2. Reach(d, ROOT_CLUSTER_NUMBER, NamesFrom(w, 1), Last(w).cluster)
    BY <1>1, PathReaches DEF RootLink, Link
  <1> QED
    BY <1>2, ReachIsTable, TablesClosed

\* The path goes through place e.
Passes(w, e) == \E k \in 1 .. Len(w) - 1 : e = <<w[k].cluster, w[k + 1].name>>

\* Then its top is inside.
LEMMA PassesInside ==
    ASSUME NEW d, IsStore(d), NEW w, Path(d, w), NEW e, Passes(w, e)
    PROVE  e[1] \in Clusters /\ Last(w).cluster \in InsideOf(d, e)
  <1>1. PICK k \in 1 .. Len(w) - 1 : e = <<w[k].cluster, w[k + 1].name>>
    BY DEF Passes
  <1>2. Len(w) \in Nat /\ \A i \in 1 .. Len(w) : w[i].cluster \in Clusters
    BY PathHas
  <1>3. k + 1 \in 1 .. Len(w) /\ k \in 1 .. Len(w)
    BY <1>2
  <1>4. Leads(d, w[k].cluster, w[k + 1].name, w[k + 1].cluster)
    BY DEF Path
  <1>5. Reach(d, w[k + 1].cluster, NamesFrom(w, k + 1), Last(w).cluster)
    BY <1>3, PathReaches
  <1>6. e[1] = w[k].cluster /\ e[2] = w[k + 1].name /\ e[1] \in Clusters
    BY <1>1, <1>2, <1>3
  <1> QED
    BY <1>4, <1>5, <1>6, InsideIs

\* A path that is one directory longer goes through what it went through, and through
\* the new directory's place.
LEMMA PassesLonger ==
    ASSUME NEW w, NEW v, Len(w) \in Nat, Len(w) > 0, Len(v) = Len(w) + 1,
           \A i \in 1 .. Len(w) : v[i] = w[i]
    PROVE  /\ \A e : Passes(w, e) => Passes(v, e)
           /\ Passes(v, <<w[Len(w)].cluster, v[Len(v)].name>>)
           /\ \A e : Passes(v, e) => Passes(w, e) \/ e = <<w[Len(w)].cluster, v[Len(v)].name>>
  <1> DEFINE N == Len(w)
  <1>1. /\ \A i \in 1 .. N - 1 : i \in 1 .. N /\ i + 1 \in 1 .. N /\ i \in 1 .. Len(v) - 1
        /\ \A i \in 1 .. Len(v) - 1 : i \in 1 .. N - 1 \/ (i = N /\ i + 1 = Len(v))
        /\ N \in 1 .. Len(v) - 1 /\ N + 1 = Len(v) /\ N \in 1 .. N
    OBVIOUS
  <1> HIDE DEF N
  <1>2. \A i \in 1 .. N : v[i] = w[i]
    BY DEF N
  <1>3. ASSUME NEW e, Passes(w, e) PROVE Passes(v, e)
    <2>1. PICK i \in 1 .. N - 1 : e = <<w[i].cluster, w[i + 1].name>>
      BY <1>3 DEF Passes, N
    <2> QED
      BY <1>1, <1>2, <2>1 DEF Passes
  <1>4. Passes(v, <<w[N].cluster, v[Len(v)].name>>)
    BY <1>1, <1>2 DEF Passes
  <1>5. ASSUME NEW e, Passes(v, e) PROVE Passes(w, e) \/ e = <<w[N].cluster, v[Len(v)].name>>
    <2>1. PICK i \in 1 .. Len(v) - 1 : e = <<v[i].cluster, v[i + 1].name>>
      BY <1>5 DEF Passes
    <2>2. CASE i \in 1 .. N - 1
      <3>1. e = <<w[i].cluster, w[i + 1].name>>
        BY <1>1, <1>2, <2>1, <2>2
      <3> QED
        BY <2>2, <3>1 DEF Passes, N
    <2>3. CASE i = N /\ i + 1 = Len(v)
      BY <1>1, <1>2, <2>1, <2>3
    <2> QED
      BY <1>1, <2>2, <2>3
  <1> QED
    BY <1>3, <1>4, <1>5 DEF N

\* What comes leaves the directories where they were, and brings at most one.
LEMMA GrowsKeeps ==
    ASSUME NEW d, NEW e, NEW p, NEW n, NEW isdir, Grows(d, e, p, n, isdir)
    PROVE  Keeps(d, e)
  <1> SUFFICES ASSUME NEW q \in Clusters, NEW m, NEW c, Leads(d, q, m, c) PROVE Leads(e, q, m, c)
    BY DEF Keeps
  <1> QED
    BY LeadsGrows

\* Then what is inside a place stays inside.
LEMMA InsideGrows ==
    ASSUME NEW d, IsStore(d), NEW e, IsStore(e), Keeps(d, e), NEW x, x[1] \in Clusters
    PROVE  InsideOf(d, x) \subseteq InsideOf(e, x)
  <1> SUFFICES ASSUME NEW z \in InsideOf(d, x) PROVE z \in InsideOf(e, x)
    OBVIOUS
  <1>1. PICK c, r : Leads(d, x[1], x[2], c) /\ Reach(d, c, r, z)
    BY InsideIs
  <1>2. Leads(e, x[1], x[2], c)
    BY <1>1 DEF Keeps
  <1>3. Reach(e, c, r, z)
    BY <1>1, ReachKept
  <1> QED
    BY <1>2, <1>3, InsideIs

\* The frames of call stack c, and frame a running above frame b in it.
FramesOf(c) == {c[i] : i \in DOMAIN c}
Atop(c, a, b) == \E i, j \in DOMAIN c : i < j /\ a = c[i] /\ b = c[j]

\* Those of a stack whose innermost frame was taken away or replaced.
LEMMA FramesAre ==
    ASSUME NEW S, NEW c \in Seq(S), c # <<>>
    PROVE  LET t == Tail(c)
           IN  /\ Head(c) \in FramesOf(c) /\ FramesOf(t) \subseteq FramesOf(c)
               /\ \A a, b : Atop(t, a, b) => Atop(c, a, b)
               /\ \A b \in FramesOf(t) : Atop(c, Head(c), b)
               /\ \A f : /\ FramesOf(<<f>> \o t) \subseteq {f} \cup FramesOf(t)
                         /\ \A a, b : Atop(<<f>> \o t, a, b) => (a = f /\ b \in FramesOf(t)) \/ Atop(t, a, b)
               /\ \A f, g : /\ FramesOf(<<f, g>> \o t) \subseteq {f, g} \cup FramesOf(t)
                            /\ \A a, b : Atop(<<f, g>> \o t, a, b) =>
                                 \/ a = f /\ b = g
                                 \/ a \in {f, g} /\ b \in FramesOf(t)
                                 \/ Atop(t, a, b)
  <1> DEFINE t == Tail(c)
  <1>1. /\ 1 \in DOMAIN c /\ Head(c) = c[1]
        /\ \A i \in DOMAIN t : i \in Nat /\ i > 0 /\ i + 1 \in DOMAIN c /\ t[i] = c[i + 1]
        /\ \A f : \A i \in DOMAIN (<<f>> \o t) :
             /\ i \in Nat /\ i > 0
             /\ i = 1 => (<<f>> \o t)[i] = f
             /\ i # 1 => i - 1 \in DOMAIN t /\ (<<f>> \o t)[i] = t[i - 1]
        /\ \A f, g : \A i \in DOMAIN (<<f, g>> \o t) :
             /\ i \in Nat /\ i > 0
             /\ i = 1 => (<<f, g>> \o t)[i] = f
             /\ i = 2 => (<<f, g>> \o t)[i] = g
             /\ i \notin {1, 2} => i - 2 \in DOMAIN t /\ (<<f, g>> \o t)[i] = t[i - 2]
    BY Stacked
  <1> HIDE DEF t
  <1>2. Head(c) \in FramesOf(c) /\ FramesOf(t) \subseteq FramesOf(c)
    BY <1>1 DEF FramesOf
  <1>3. ASSUME NEW a, NEW b, Atop(t, a, b) PROVE Atop(c, a, b)
    <2>1. PICK i, j \in DOMAIN t : i < j /\ a = t[i] /\ b = t[j]
      BY <1>3 DEF Atop
    <2>2. i + 1 \in DOMAIN c /\ j + 1 \in DOMAIN c /\ i + 1 < j + 1 /\ a = c[i + 1] /\ b = c[j + 1]
      BY <1>1, <2>1
    <2> QED
      BY <2>2 DEF Atop
  <1>4. ASSUME NEW b \in FramesOf(t) PROVE Atop(c, Head(c), b)
    <2>1. PICK j \in DOMAIN t : b = t[j]
      BY <1>4 DEF FramesOf
    <2>2. 1 \in DOMAIN c /\ j + 1 \in DOMAIN c /\ 1 < j + 1 /\ b = c[j + 1]
      BY <1>1, <2>1
    <2> QED
      BY <1>1, <2>2 DEF Atop
  <1>5. ASSUME NEW f
        PROVE  /\ FramesOf(<<f>> \o t) \subseteq {f} \cup FramesOf(t)
               /\ \A a, b : Atop(<<f>> \o t, a, b) => (a = f /\ b \in FramesOf(t)) \/ Atop(t, a, b)
    <2> DEFINE u == <<f>> \o t
    <2>1. \A i \in DOMAIN u :
             /\ i \in Nat /\ i > 0
             /\ i = 1 => u[i] = f
             /\ i # 1 => i - 1 \in DOMAIN t /\ u[i] = t[i - 1]
      BY <1>1
    <2> HIDE DEF u
    <2>2. FramesOf(u) \subseteq {f} \cup FramesOf(t)
      BY <2>1 DEF FramesOf
    <2>3. ASSUME NEW a, NEW b, Atop(u, a, b) PROVE (a = f /\ b \in FramesOf(t)) \/ Atop(t, a, b)
      <3>1. PICK i, j \in DOMAIN u : i < j /\ a = u[i] /\ b = u[j]
        BY <2>3 DEF Atop
      <3>2. j # 1 /\ j - 1 \in DOMAIN t /\ b = t[j - 1]
        BY <2>1, <3>1
      <3>3. CASE i = 1
        BY <2>1, <3>1, <3>2, <3>3 DEF FramesOf
      <3>4. CASE i # 1
        <4>1. i - 1 \in DOMAIN t /\ a = t[i - 1] /\ i - 1 < j - 1
          BY <2>1, <3>1, <3>4
        <4> QED
          BY <3>2, <4>1 DEF Atop
      <3> QED
        BY <3>3, <3>4
    <2> QED
      BY <2>2, <2>3 DEF u
  <1>6. ASSUME NEW f, NEW g
        PROVE  /\ FramesOf(<<f, g>> \o t) \subseteq {f, g} \cup FramesOf(t)
               /\ \A a, b : Atop(<<f, g>> \o t, a, b) =>
                    \/ a = f /\ b = g
                    \/ a \in {f, g} /\ b \in FramesOf(t)
                    \/ Atop(t, a, b)
    <2> DEFINE u == <<f, g>> \o t
    <2>1. \A i \in DOMAIN u :
             /\ i \in Nat /\ i > 0
             /\ i = 1 => u[i] = f
             /\ i = 2 => u[i] = g
             /\ i \notin {1, 2} => i - 2 \in DOMAIN t /\ u[i] = t[i - 2]
      BY <1>1
    <2> HIDE DEF u
    <2>2. FramesOf(u) \subseteq {f, g} \cup FramesOf(t)
      BY <2>1 DEF FramesOf
    <2>3. ASSUME NEW a, NEW b, Atop(u, a, b)
          PROVE (a = f /\ b = g) \/ (a \in {f, g} /\ b \in FramesOf(t)) \/ Atop(t, a, b)
      <3>1. PICK i, j \in DOMAIN u : i < j /\ a = u[i] /\ b = u[j]
        BY <2>3 DEF Atop
      <3>2. i \in Nat /\ j \in Nat /\ i > 0 /\ j > 1
        BY <2>1, <3>1
      <3>3. CASE j = 2
        <4>1. i = 1
          BY <3>1, <3>2, <3>3
        <4> QED
          BY <2>1, <3>1, <3>3, <4>1
      <3>4. CASE j # 2
        <4>1. j - 2 \in DOMAIN t /\ b = t[j - 2]
          BY <2>1, <3>1, <3>2, <3>4
        <4>2. CASE i \in {1, 2}
          BY <2>1, <3>1, <4>1, <4>2 DEF FramesOf
        <4>3. CASE i \notin {1, 2}
          <5>1. i - 2 \in DOMAIN t /\ a = t[i - 2] /\ i - 2 < j - 2
            BY <2>1, <3>1, <3>2, <4>3
          <5> QED
            BY <4>1, <5>1 DEF Atop
        <4> QED
          BY <4>2, <4>3
      <3> QED
        BY <3>3, <3>4
    <2> QED
      BY <2>2, <2>3 DEF u
  <1> QED
    BY <1>2, <1>3, <1>4, <1>5, <1>6 DEF t

\* Those of no frame and of one.
LEMMA FewFrames ==
    /\ FramesOf(<<>>) = {} /\ \A a, b : ~Atop(<<>>, a, b)
    /\ \A f : FramesOf(<<f>>) = {f} /\ \A a, b : ~Atop(<<f>>, a, b)
    /\ \A f, g : FramesOf(<<f, g>>) = {f, g} /\ \A a, b : Atop(<<f, g>>, a, b) => a = f /\ b = g
  <1>1. FramesOf(<<>>) = {} /\ \A a, b : ~Atop(<<>>, a, b)
    BY DEF FramesOf, Atop
  <1>2. ASSUME NEW f PROVE FramesOf(<<f>>) = {f} /\ \A a, b : ~Atop(<<f>>, a, b)
    <2>1. DOMAIN <<f>> = {1} /\ <<f>>[1] = f
      OBVIOUS
    <2> QED
      BY <2>1 DEF FramesOf, Atop
  <1>3. ASSUME NEW f, NEW g PROVE FramesOf(<<f, g>>) = {f, g} /\ \A a, b : Atop(<<f, g>>, a, b) => a = f /\ b = g
    <2>1. DOMAIN <<f, g>> = {1, 2} /\ <<f, g>>[1] = f /\ <<f, g>>[2] = g
      OBVIOUS
    <2> QED
      BY <2>1 DEF FramesOf, Atop
  <1> QED
    BY <1>1, <1>2, <1>3

-----------------------------------------------------------------------------
\* A step of shell s concerns its own command only, and this goes on with its line
\* from its stack or is over.
OwnStep(s) ==
    /\ \A z \in Shells \ {s} : call'[z] = call[z] /\ line'[z] = line[z] /\ dts'[z] = dts[z] /\ out'[z] = out[z]
    /\ call'[s] # <<>> => line'[s] = line[s] /\ dts'[s] = dts[s]
    /\ session' = session

\* The ways to go on.
LEMMA OwnWays ==
    ASSUME CallsInv, NEW s \in Shells, call[s] # <<>>
    PROVE  /\ \A c : GoOn(s, c) => OwnStep(s) /\ call'[s] = c \o Tail(call[s]) /\ out' = out
           /\ Return(s) => OwnStep(s) /\ call'[s] = Tail(call[s]) /\ (call'[s] # <<>> => out' = out)
           /\ Lose(s) => OwnStep(s) /\ call'[s] = <<Lost>>
           /\ \A f : Succeed(s, f) => /\ OwnStep(s)
                                      /\ call'[s] = IF f.mv THEN <<Loop("rm", <<f.name>>, dts[s])>> \o Tail(call[s])
                                                    ELSE Tail(call[s])
  <1>1. /\ dts = [z \in Shells |-> dts[z]] /\ call = [z \in Shells |-> call[z]]
        /\ line = [z \in Shells |-> line[z]] /\ out = [z \in Shells |-> out[z]]
    BY DEF CallsInv
  <1>2. Len(call[s]) = 1 <=> Tail(call[s]) = <<>>
    BY CallStack, FramesReplaced
  <1>3. ASSUME NEW c, GoOn(s, c) PROVE OwnStep(s) /\ call'[s] = c \o Tail(call[s]) /\ out' = out
    BY <1>1, <1>3 DEF GoOn, OwnStep
  <1>4. ASSUME Return(s) PROVE OwnStep(s) /\ call'[s] = Tail(call[s]) /\ (call'[s] # <<>> => out' = out)
    <2>1. call'[s] = Tail(call[s]) /\ \A z \in Shells \ {s} : call'[z] = call[z]
      BY <1>1, <1>4 DEF Return
    <2>2. /\ dts' = dts /\ session' = session
          /\ call'[s] # <<>> => line' = line /\ out' = out
      BY <1>2, <1>4, <2>1 DEF Return
    <2>3. \A z \in Shells \ {s} : line'[z] = line[z] /\ out'[z] = out[z]
      BY <1>1, <1>4 DEF Return
    <2> QED
      BY <2>1, <2>2, <2>3 DEF OwnStep
  <1>5. ASSUME Lose(s) PROVE OwnStep(s) /\ call'[s] = <<Lost>>
    BY <1>1, <1>5 DEF Lose, OwnStep
  <1>6. ASSUME NEW f, Succeed(s, f)
        PROVE  /\ OwnStep(s)
               /\ call'[s] = IF f.mv THEN <<Loop("rm", <<f.name>>, dts[s])>> \o Tail(call[s]) ELSE Tail(call[s])
    BY <1>3, <1>4, <1>6 DEF Succeed
  <1> QED
    BY <1>3, <1>4, <1>5, <1>6

\* Every step of the code is such a step.
LEMMA StepIsOwn ==
    ASSUME CallsInv, NEW s \in Shells, Step(s) PROVE OwnStep(s) /\ call[s] # <<>> /\ power = "on"
  <1>1. call[s] # <<>> /\ power = "on"
    BY DEF Step, In, GoUp, Stay, Examine, Refuse, Enter, EndOfPath, Look, MakeDirectory, Show, RemoveLast,
           OpenRemoved, FlushChild, FlushEnd, ReadSource, WriteUnder, PeekInto, PutFile, PutDirectory, Copied,
           MakeCopy, OpenCopy, CopyChild, CopyEnd, PeekScan, ScanEntry, ScanOn, ScanEnd, FindRoot, FindEnd
  <1> SUFFICES OwnStep(s)
    BY <1>1
  <1>2. /\ \A c : GoOn(s, c) => OwnStep(s)
        /\ Return(s) => OwnStep(s)
        /\ Lose(s) => OwnStep(s)
        /\ \A f : Succeed(s, f) => OwnStep(s)
    BY <1>1, OwnWays
  <1>3. /\ dts = [z \in Shells |-> dts[z]] /\ call = [z \in Shells |-> call[z]]
        /\ line = [z \in Shells |-> line[z]] /\ out = [z \in Shells |-> out[z]]
    BY DEF CallsInv
  <1>4. CASE GoUp(s) \/ Stay(s) \/ Examine(s) \/ Refuse(s) \/ Enter(s)
    BY <1>2, <1>4 DEF GoUp, Stay, Examine, Refuse, Enter
  <1>5. CASE EndOfPath(s)
    <2>1. CASE Return(s)
      BY <1>2, <2>1
    <2>2. CASE /\ dts' = [dts EXCEPT ![s] = Head(call[s]).walk]
               /\ call' = [call EXCEPT ![s] = <<>>]
               /\ line' = [line EXCEPT ![s] = NoLine]
               /\ UNCHANGED <<session, out>>
      BY <1>3, <2>2 DEF OwnStep
    <2> QED
      BY <1>5, <2>1, <2>2 DEF EndOfPath
  <1>6. CASE Look(s) \/ MakeDirectory(s)
    BY <1>2, <1>6 DEF Look, MakeDirectory
  <1>7. CASE Show(s)
    <2>1. CASE Return(s)
      BY <1>2, <2>1
    <2>2. CASE ~Return(s)
      <3>1. PICK c, o : /\ call' = [call EXCEPT ![s] = c] /\ out' = [out EXCEPT ![s] = o]
                        /\ UNCHANGED <<session, dts, line>>
        BY <1>7, <2>2 DEF Show
      <3> QED
        BY <1>3, <3>1 DEF OwnStep
    <2> QED
      BY <2>1, <2>2
  <1>8. CASE RemoveLast(s) \/ OpenRemoved(s) \/ FlushChild(s) \/ FlushEnd(s)
    BY <1>2, <1>8 DEF RemoveLast, OpenRemoved, FlushChild, FlushEnd
  <1>9. CASE ReadSource(s) \/ WriteUnder(s) \/ PeekInto(s) \/ PutFile(s) \/ PutDirectory(s) \/ Copied(s)
    BY <1>2, <1>9 DEF ReadSource, WriteUnder, PeekInto, PutFile, PutDirectory, Copied
  <1>10. CASE MakeCopy(s) \/ OpenCopy(s) \/ CopyChild(s) \/ CopyEnd(s)
    BY <1>2, <1>10 DEF MakeCopy, OpenCopy, CopyChild, CopyEnd
  <1>11. CASE PeekScan(s) \/ ScanOn(s) \/ ScanEnd(s) \/ FindEnd(s)
    BY <1>2, <1>11 DEF PeekScan, ScanOn, ScanEnd, FindEnd
  <1>12. CASE ScanEntry(s) \/ FindRoot(s)
    <2>1. PICK c, o : /\ call' = [call EXCEPT ![s] = c] /\ out' = [out EXCEPT ![s] = o]
                      /\ UNCHANGED <<session, dts, line>>
      BY <1>12 DEF ScanEntry, FindRoot
    <2> QED
      BY <1>3, <2>1 DEF OwnStep
  <1> QED
    BY <1>1, <1>4, <1>5, <1>6, <1>7, <1>8, <1>9, <1>10, <1>11, <1>12 DEF Step

-----------------------------------------------------------------------------
\* What the steps of a command do to the disk.

\* Only these look after the disk.
LEMMA StepDisk ==
    ASSUME NEW s, Step(s)
    PROVE  \/ UNCHANGED vars
           \/ MakeDirectory(s) \/ WriteUnder(s) \/ PutFile(s) \/ MakeCopy(s) \/ CopyChild(s)
           \/ RemoveLast(s) \/ FlushChild(s) \/ FlushEnd(s)
  BY DEF Step, GoUp, Stay, Examine, Refuse, Enter, EndOfPath, Look, Show, OpenRemoved, ReadSource, PeekInto,
         PutDirectory, Copied, OpenCopy, CopyEnd, PeekScan, ScanEntry, ScanOn, ScanEnd, FindRoot, FindEnd

-----------------------------------------------------------------------------
\* What the steps of the loops make of the frame that runs.

\* The loop goes on behind the next component: where that leads, but for cp's source,
\* which takes its name for it, and its destination, which ".." leaves where it is.
LoopWay(d, f, g) ==
    /\ g.fn = f.fn /\ g.rest = Tail(f.rest) /\ Path(d, g.walk)
    /\ \/ f.fn = "source"
       \/ f.fn = "dest" /\ Head(f.rest) = Up
       \/ g.walk = PathStep(d, f.walk, Head(f.rest))
    /\ g.at = "peek" \/ (g.at = "into" /\ f.fn = "dest" /\ Len(f.rest) = 1)
    /\ Len(f.rest) = 1 => f.fn # "rm"
    /\ f.fn = "source" /\ Len(f.rest) = 1 => Head(f.rest) \notin Names
    /\ f.fn \in {"source", "dest"} => g.name = f.name /\ g.mv = f.mv
    /\ f.fn = "source" => g.to = f.to
    /\ f.fn = "dest" => g.isfile = f.isfile /\ g.want = f.want /\ g.size = f.size /\ g.data = f.data

\* The turns of the loop that take a component and go on.
LEMMA LoopGoes ==
    ASSUME Served, CallsInv, PathInv, NEW s \in Shells, GoUp(s) \/ Stay(s) \/ Enter(s)
    PROVE  LET f == Head(call[s])
           IN  /\ call[s] # <<>> /\ f.fn \in Loops /\ UNCHANGED vars
               /\ Path(disk, f.walk) /\ f.rest # <<>> /\ f.rest \in Seq(Parts)
               /\ \/ Return(s)
                  \/ \E g : GoOn(s, <<g>>) /\ LoopWay(disk, f, g)
  <1> DEFINE f == Head(call[s])
             Goes(g) == GoOn(s, <<g>>) /\ LoopWay(disk, f, g)
  <1>1. \E at : In(s, Loops, at) /\ at \in {"peek", "name"}
    BY DEF GoUp, Stay, Enter
  <1>2. /\ call[s] # <<>> /\ f.fn \in Loops
        /\ {"fn", "at", "rest", "walk", "cwd"} \subseteq DOMAIN f
        /\ f.fn = "source" => {"name", "to", "mv", "dir", "size"} \subseteq DOMAIN f /\ f.name \in Names
        /\ f.fn = "dest" => {"name", "mv", "dir", "isfile", "size", "data", "want"} \subseteq DOMAIN f
        /\ Good(disk, dts, dts[s], line[s], f) /\ Path(disk, f.walk) /\ f.rest \in Seq(Parts)
        /\ DiskOK(disk)
    BY <1>1, LoopNow
  <1>3. UNCHANGED vars /\ f.rest # <<>>
    <2>1. ASSUME Enter(s) PROVE f.rest # <<>>
      <3>1. In(s, Loops, "name")
        BY <2>1 DEF Enter
      <3> QED
        BY <3>1, LoopNow
    <2> QED
      BY <2>1 DEF GoUp, Stay, Enter
  <1>4. CASE GoUp(s)
    <2> DEFINE w == IF f.fn = "dest" THEN f.walk ELSE Popped(f.walk)
               t == Peeked(f)
               g == [f EXCEPT !.at = "peek", !.rest = Tail(f.rest), !.walk = w, !.cwd = t]
    <2>1. Head(f.rest) = Up
      BY <1>4 DEF GoUp
    <2>2. [Advanced(f) EXCEPT !.walk = IF f.fn = "dest" THEN @ ELSE Popped(@), !.cwd = t] = g
      BY <1>2 DEF Advanced
    <2>3. Return(s) \/ GoOn(s, <<g>>)
      BY <1>4, <2>2 DEF GoUp
    <2>4. Path(disk, w)
      BY <1>2, PathPopped
    <2>5. f.fn # "dest" => w = PathStep(disk, f.walk, Head(f.rest))
      BY <1>2, <2>1, UpAndHere, PathHas DEF PathStep, Popped
    <2> HIDE DEF w, t
    <2>6. /\ g.fn = f.fn /\ g.at = "peek" /\ g.rest = Tail(f.rest) /\ g.walk = w
          /\ f.fn \in {"source", "dest"} => g.name = f.name /\ g.mv = f.mv
          /\ f.fn = "source" => g.to = f.to
          /\ f.fn = "dest" => g.isfile = f.isfile /\ g.want = f.want /\ g.size = f.size /\ g.data = f.data
      BY <1>2
    <2> HIDE DEF g
    <2>7. Len(f.rest) = 1 => f.fn # "rm"
      BY <1>2, <2>1, UpAndHere, LastIsName
    <2>8. GoOn(s, <<g>>) => Goes(g)
      BY <2>1, <2>4, <2>5, <2>6, <2>7, UpAndHere DEF LoopWay
    <2> HIDE DEF Goes
    <2>9. Return(s) \/ \E x : Goes(x)
      BY <2>3, <2>8
    <2> QED
      BY <1>2, <1>3, <2>9 DEF Goes
  <1>5. CASE Stay(s)
    <2> DEFINE t == Peeked(f)
               g == [f EXCEPT !.at = "peek", !.rest = Tail(f.rest), !.cwd = t]
    <2>1. Head(f.rest) = Here
      BY <1>5 DEF Stay
    <2>2. [Advanced(f) EXCEPT !.cwd = t] = g
      BY <1>2 DEF Advanced
    <2>3. GoOn(s, <<g>>)
      BY <1>5, <2>2 DEF Stay
    <2>4. f.walk = PathStep(disk, f.walk, Head(f.rest))
      BY <2>1 DEF PathStep
    <2> HIDE DEF t
    <2>6. /\ g.fn = f.fn /\ g.at = "peek" /\ g.rest = Tail(f.rest) /\ g.walk = f.walk
          /\ f.fn \in {"source", "dest"} => g.name = f.name /\ g.mv = f.mv
          /\ f.fn = "source" => g.to = f.to
          /\ f.fn = "dest" => g.isfile = f.isfile /\ g.want = f.want /\ g.size = f.size /\ g.data = f.data
      BY <1>2
    <2> HIDE DEF g
    <2>7. Len(f.rest) = 1 => f.fn # "rm"
      BY <1>2, <2>1, UpAndHere, LastIsName
    <2>8. Goes(g)
      BY <1>2, <2>1, <2>3, <2>4, <2>6, <2>7, UpAndHere DEF LoopWay
    <2> HIDE DEF Goes
    <2>9. \E x : Goes(x)
      BY <2>8
    <2> QED
      BY <1>2, <1>3, <2>9 DEF Goes
  <1>6. CASE Enter(s)
    <2> DEFINE p == ClusterNumber(f.cwd)
               n == IF f.fn = "source" THEN f.name ELSE Head(f.rest)
               t == ReadDirectory(p, n)
               a == IF f.fn = "dest" /\ IsLast(f) THEN "into" ELSE "peek"
               w == Pushed(f.walk, t)
               g == [f EXCEPT !.at = a, !.rest = Tail(f.rest), !.walk = w, !.cwd = t]
    <2>0. In(s, Loops, "name")
      BY <1>6 DEF Enter
    <2>1. p = Last(f.walk).cluster /\ Head(f.rest) \in Names
      BY <2>0, LoopNow DEF In
    <2>2. Enters(f)
      BY <1>6 DEF Enter
    <2>3. [Advanced(f) EXCEPT !.at = a, !.walk = Pushed(@, t), !.cwd = t] = g
      BY <1>2 DEF Advanced
    <2>4. Return(s) \/ (Reads(p, n) /\ GoOn(s, <<g>>))
      BY <1>6, <2>3 DEF Enter
    <2>5. CASE Return(s)
      BY <1>2, <1>3, <2>5
    <2>6. ASSUME Reads(p, n), GoOn(s, <<g>>) PROVE \E x : Goes(x)
      <3>1. n # RootName
        <4>1. CASE f.fn = "source"
          BY <1>2, <4>1 DEF Good
        <4>2. CASE f.fn # "source"
          <5>1. Rootless(f.rest)
            BY <1>2, <2>2, <4>2 DEF Enters, IsLast, Good, RmGood
          <5> DEFINE S == Parts \ {RootName}
          <5>2. f.rest \in Seq(S)
            BY <5>1 DEF Rootless
          <5> HIDE DEF S
          <5>3. Head(f.rest) \in S
            BY <1>3, <5>2
          <5> QED
            BY <4>2, <5>3 DEF S
        <4> QED
          BY <4>1, <4>2
      <3>2. ~MakesRoot(p, n)
        BY <3>1 DEF MakesRoot
      <3> HIDE DEF p
      <3>3. Reads(Last(f.walk).cluster, n) /\ ~MakesRoot(Last(f.walk).cluster, n)
        BY <2>1, <2>6, <3>2
      <3>4. /\ Path(disk, w) /\ Last(w) = t.self
            /\ n \in {Up, Here} \/ w = PathStep(disk, f.walk, n)
            /\ n \in Names
        BY <1>2, <2>1, <3>3, EnteredPath
      <3>5. f.fn # "source" => w = PathStep(disk, f.walk, Head(f.rest))
        BY <3>4, UpAndHere
      <3>6. a = "peek" \/ (a = "into" /\ f.fn = "dest" /\ Len(f.rest) = 1)
        BY DEF IsLast
      <3> HIDE DEF w, t, n, a
      <3>7. /\ g.fn = f.fn /\ g.at = a /\ g.rest = Tail(f.rest) /\ g.walk = w
            /\ f.fn \in {"source", "dest"} => g.name = f.name /\ g.mv = f.mv
            /\ f.fn = "source" => g.to = f.to
            /\ f.fn = "dest" => g.isfile = f.isfile /\ g.want = f.want /\ g.size = f.size /\ g.data = f.data
        BY <1>2
      <3>9. Len(f.rest) = 1 => f.fn \notin {"rm", "source"}
        BY <2>2 DEF Enters, IsLast
      <3> HIDE DEF g
      <3>10. Goes(g)
        BY <2>6, <3>4, <3>5, <3>6, <3>7, <3>9 DEF LoopWay
      <3> HIDE DEF Goes
      <3> QED
        BY <3>10
    <2> QED
      BY <1>2, <1>3, <2>4, <2>5, <2>6 DEF Goes
  <1> QED
    BY <1>4, <1>5, <1>6

\* A look at the table leaves the loop where it is.  cp learns of its source, and of
\* its destination, what they are; who is lost looked for a source that is not there.
ExamineWay(t, f, g) ==
    LET n == Head(f.rest)
    IN  /\ g.fn = f.fn /\ g.at = "name" /\ g.rest = f.rest /\ g.walk = f.walk /\ g.cwd = t
        /\ f.fn \in {"source", "dest"} =>
             /\ g.name = f.name /\ g.mv = f.mv
             /\ \E x \in IF Found(t, n) THEN {EntryIn(t, n).dir} ELSE f.dir : g.dir = {x}
        /\ f.fn = "source" => g.to = f.to /\ (Found(t, n) => g.size = EntryIn(t, n).size)
        /\ f.fn = "dest" => g.isfile = f.isfile /\ g.want = f.want /\ g.size = f.size /\ g.data = f.data

\* The look at the table, for the next component.
LEMMA ExamineGoes ==
    ASSUME Served, CallsInv, PathInv, NEW s \in Shells, Examine(s)
    PROVE  LET f == Head(call[s])
               t == Peeked(f)
               n == Head(f.rest)
           IN  /\ call[s] # <<>> /\ f.fn \in Loops /\ f.at = "peek" /\ UNCHANGED vars
               /\ Path(disk, f.walk) /\ f.rest # <<>> /\ n \in Names
               /\ Known(t) /\ t = ReadTable(disk, Last(f.walk).cluster) /\ t.self = Last(f.walk)
               /\ \/ Lose(s) /\ f.fn = "source" /\ ~Found(t, n)
                  \/ \E g : GoOn(s, <<g>>) /\ ExamineWay(t, f, g)
  <1> DEFINE f == Head(call[s])
             t == Peeked(f)
             n == Head(f.rest)
             h == [f EXCEPT !.at = "name", !.cwd = t]
             K(g) == ExamineWay(t, f, g)
  <1>0. In(s, Loops, "peek")
    BY DEF Examine
  <1>1. /\ call[s] # <<>> /\ f.fn \in Loops /\ f.at = "peek"
        /\ {"fn", "at", "rest", "walk", "cwd"} \subseteq DOMAIN f
        /\ f.fn = "source" => {"name", "to", "mv", "dir", "size"} \subseteq DOMAIN f /\ f.name \in Names
        /\ f.fn = "dest" => {"name", "mv", "dir", "isfile", "size", "data", "want"} \subseteq DOMAIN f
        /\ Path(disk, f.walk)
        /\ Known(t) /\ t = ReadTable(disk, Last(f.walk).cluster) /\ t.self = Last(f.walk)
    BY <1>0, LoopNow
  <1>2. f.rest # <<>> /\ n \in Names /\ UNCHANGED vars
    BY DEF Examine
  <1>3. t # Unread
    BY <1>1 DEF ReadTable, Table, Unread
  <1>4. PICK g \in Examined(f) : IF f.fn = "source" /\ g.size = -1 THEN Lose(s) ELSE GoOn(s, <<g>>)
    BY <1>3 DEF Examine
  <1>5. K(g)
    <2>0. /\ h.fn = f.fn /\ h.at = "name" /\ h.rest = f.rest /\ h.walk = f.walk /\ h.cwd = t
          /\ DOMAIN h = DOMAIN f
          /\ f.fn = "source" => h.name = f.name /\ h.mv = f.mv /\ h.to = f.to /\ h.size = f.size
          /\ f.fn = "dest" => /\ h.name = f.name /\ h.mv = f.mv /\ h.isfile = f.isfile /\ h.want = f.want
                              /\ h.size = f.size /\ h.data = f.data
      BY <1>1
    <2> DEFINE known == Found(h.cwd, n)
               e == EntryIn(h.cwd, n)
               D == IF known THEN {e.dir} ELSE f.dir
               F(d) == IF f.fn = "source"
                         THEN [h EXCEPT !.dir = {d}, !.size = IF known THEN e.size ELSE @]
                         ELSE [h EXCEPT !.dir = {d}]
    <2>1. Examined(f) = IF f.fn \notin {"source", "dest"} THEN {h} ELSE {F(d) : d \in D}
      BY DEF Examined
    <2>2. (known <=> Found(t, n)) /\ e = EntryIn(t, n)
      BY <2>0
    <2>3. D = IF Found(t, n) THEN {EntryIn(t, n).dir} ELSE f.dir
      BY <2>2
    <2> HIDE DEF h, t, D, known, e, n
    <2>4. CASE f.fn \notin {"source", "dest"}
      <3>1. g = h
        BY <1>4, <2>1, <2>4
      <3> QED
        BY <2>0, <2>4, <3>1 DEF ExamineWay
    <2>5. CASE f.fn \in {"source", "dest"}
      <3>1. PICK d \in D : g = F(d)
        <4> HIDE DEF F
        <4> QED
          BY <1>4, <2>1, <2>5
      <3>2. CASE f.fn = "source"
        <4>1. g = [h EXCEPT !.dir = {d}, !.size = IF known THEN e.size ELSE h.size]
          BY <1>1, <2>0, <3>1, <3>2
        <4>2. /\ g.fn = f.fn /\ g.at = "name" /\ g.rest = f.rest /\ g.walk = f.walk /\ g.cwd = t
              /\ g.name = f.name /\ g.mv = f.mv /\ g.dir = {d} /\ g.to = f.to
              /\ g.size = IF known THEN e.size ELSE h.size
          BY <1>1, <2>0, <3>2, <4>1
        <4> QED
          BY <2>2, <2>3, <3>1, <3>2, <4>2 DEF ExamineWay, n
      <3>3. CASE f.fn = "dest"
        <4>1. g = [h EXCEPT !.dir = {d}]
          BY <3>1, <3>3
        <4>2. /\ g.fn = f.fn /\ g.at = "name" /\ g.rest = f.rest /\ g.walk = f.walk /\ g.cwd = t
              /\ g.name = f.name /\ g.mv = f.mv /\ g.dir = {d} /\ g.isfile = f.isfile /\ g.want = f.want
              /\ g.size = f.size /\ g.data = f.data
          BY <1>1, <2>0, <3>3, <4>1
        <4> QED
          BY <2>3, <3>1, <3>3, <4>2 DEF ExamineWay, n
      <3> QED
        BY <2>5, <3>2, <3>3
    <2> QED
      BY <2>4, <2>5
  <1>6. f.fn = "source" /\ Found(t, n) => g.size # -1
    <2>1. Found(t, n) => EntryIn(t, n).size \in Sizes \cup {0}
      BY <1>1, KnownFacts
    <2>2. \A x \in Sizes \cup {0} : x # -1
      BY Numbers
    <2> QED
      BY <1>5, <2>1, <2>2 DEF ExamineWay
  <1> QED
    BY <1>1, <1>2, <1>4, <1>5, <1>6

-----------------------------------------------------------------------------
\* A command that is no rm among its own steps only makes something, one entry.
LEMMA StepGrows ==
    ASSUME Served, CallsInv, PathInv, NEW s \in Shells, Step(s)
    PROVE  \/ UNCHANGED vars
           \/ Served' /\ \E p \in Clusters, n \in Names, isdir \in BOOLEAN : Grows(disk, disk', p, n, isdir)
           \/ RemoveLast(s) \/ FlushChild(s) \/ FlushEnd(s)
  <1> DEFINE f == Head(call[s])
             Grown == Served' /\ \E p \in Clusters, n \in Names, isdir \in BOOLEAN : Grows(disk, disk', p, n, isdir)
  <1>0. ASSUME NEW p \in Clusters, NEW n \in Names, NEW size \in Sizes \cup {0}, NEW data, SysWrite(p, n, size, data)
        PROVE  Grown
    <2> DEFINE isdir == size = 0
    <2>1. Served' /\ Grows(disk, disk', p, n, isdir) /\ isdir \in BOOLEAN
      BY <1>0, WriteGrows
    <2> HIDE DEF isdir
    <2> QED
      BY <2>1
  <1> HIDE DEF Grown
  <1>1. CASE MakeDirectory(s)
    <2>1. In(s, {"mkdir"}, "write") /\ "mkdir" \in Loops /\ SysWrite(ClusterNumber(f.cwd), Head(f.rest), 0, Junk)
      BY <1>1 DEF MakeDirectory, Loops
    <2>2. ClusterNumber(f.cwd) \in Clusters /\ Head(f.rest) \in Names
      BY <2>1, LoopNowIn
    <2>3. Grown
      BY <1>0, <2>1, <2>2
    <2> QED
      BY <2>3 DEF Grown
  <1>2. CASE WriteUnder(s)
    <2>1. In(s, {"dest"}, "name") /\ SysWrite(ClusterNumber(f.cwd), Head(f.rest), f.size, f.data)
      BY <1>2 DEF WriteUnder
    <2>2. ClusterNumber(f.cwd) \in Clusters /\ Head(f.rest) \in Names /\ f.size \in Sizes \cup {0}
      BY <2>1, DestNow
    <2>3. Grown
      BY <1>0, <2>1, <2>2
    <2> QED
      BY <2>3 DEF Grown
  <1>3. CASE PutFile(s)
    <2>1. In(s, {"dest"}, "put") /\ SysWrite(ClusterNumber(f.cwd), f.name, f.size, f.data)
      BY <1>3 DEF PutFile
    <2>2. ClusterNumber(f.cwd) \in Clusters /\ f.name \in Names /\ f.size \in Sizes \cup {0}
      BY <2>1, DestNow
    <2>3. Grown
      BY <1>0, <2>1, <2>2
    <2> QED
      BY <2>3 DEF Grown
  <1>4. CASE MakeCopy(s)
    <2>1. In(s, {"copy"}, "make") /\ SysWrite(f.into, f.want.self.name, 0, Junk)
      BY <1>4 DEF MakeCopy
    <2>2. f.into \in Clusters /\ f.want.self.name \in Names
      BY <2>1, CopyNow
    <2>3. Grown
      BY <1>0, <2>1, <2>2
    <2> QED
      BY <2>3 DEF Grown
  <1>5. CASE CopyChild(s)
    <2>1. In(s, {"copy"}, "each")
      BY <1>5 DEF CopyChild
    <2>2. f.new \in Clusters /\ Known(f.want) /\ f.left \subseteq DOMAIN f.want.entries
      BY <2>1, CopyNow
    <2>3. ASSUME NEW n \in f.left PROVE n \in Names /\ EntryIn(f.want, n).size \in Sizes \cup {0}
      BY <2>2, <2>3, KnownFacts DEF Found
    <2>4. PICK n \in f.left : UNCHANGED vars \/ SysWrite(f.new, n, EntryIn(f.want, n).size, Junk)
      BY <1>5 DEF CopyChild
    <2>5. UNCHANGED vars \/ Grown
      BY <1>0, <2>2, <2>3, <2>4
    <2> QED
      BY <2>5 DEF Grown
  <1> QED
    BY <1>1, <1>2, <1>3, <1>4, <1>5, StepDisk

-----------------------------------------------------------------------------
\* What rm and mv are after: the place the line named when it was typed, or something
\* in it.  A loop has still to go there, or names it, or goes through it.
Aimed(d, w, l, f) ==
    Kills(l) =>
      /\ f.fn \in {"rm", "flush", "source", "dest", "copy", "lost"}
      /\ f.fn = "rm" => \/ /\ Len(f.rest) = 1
                           /\ Passes(f.walk, l.at) \/ l.at = <<Last(f.walk).cluster, f.rest[1]>>
                        \/ Led(d, w, l, f) /\ l.at = Place(d, w, l.path)
      /\ f.fn = "flush" => Passes(f.walk, l.at)
      /\ f.fn \in {"source", "dest"} => l.at = <<Last(w).cluster, f.name>>

AimedInv == \A s \in Shells : \A f \in FramesOf(call[s]) : Aimed(disk, dts[s], line[s], f)

\* An rm with one component left.
LEMMA AimedLast ==
    ASSUME NEW d, NEW w, NEW l, NEW f, Aimed(d, w, l, f), Kills(l), f.fn = "rm", Len(f.rest) = 1, f.walk # <<>>
    PROVE  Passes(f.walk, l.at) \/ l.at = <<Last(f.walk).cluster, f.rest[1]>>
  BY LedLast DEF Aimed

\* A step of a command that removes nothing keeps this, and so does one that keeps it
\* for the frames it leaves.
AimedOn(s) == Kills(line[s]) => \A f \in FramesOf(call'[s]) : Aimed(disk', dts[s], line[s], f)

\* So it is enough to look at the shell that takes the step.
LEMMA AimedKept ==
    ASSUME CallsInv, PathInv, AimedInv, NEW s \in Shells, Step(s), AimedOn(s) PROVE AimedInv'
  <1>1. OwnStep(s) /\ call[s] # <<>>
    BY StepIsOwn
  <1> SUFFICES ASSUME NEW z \in Shells, NEW f \in FramesOf(call'[z])
               PROVE  Aimed(disk', dts'[z], line'[z], f)
    BY DEF AimedInv
  <1>2. CASE z = s
    <2>1. call'[s] # <<>>
      BY <1>2, FewFrames
    <2>2. line'[s] = line[s] /\ dts'[s] = dts[s]
      BY <1>1, <2>1 DEF OwnStep
    <2> QED
      BY <1>2, <2>2 DEF AimedOn, Aimed
  <1>3. CASE z # s
    <2>1. call'[z] = call[z] /\ line'[z] = line[z]
      BY <1>1, <1>3 DEF OwnStep
    <2>2. call[z] # <<>>
      BY <2>1, FewFrames
    <2>3. ~Kills(line[z])
      BY <1>1, <1>3, <2>2, OthersCalm
    <2> QED
      BY <2>1, <2>3 DEF Aimed
  <1> QED
    BY <1>2, <1>3

\* The frames that wait.
LEMMA AimedBelow ==
    ASSUME CallsInv, PathInv, AimedInv, NEW s \in Shells, call[s] # <<>>, Kills(line[s]), Head(call[s]).fn # "lost",
           NEW e
    PROVE  /\ Aimed(disk, dts[s], line[s], Head(call[s]))
           /\ \A f \in FramesOf(Tail(call[s])) : Aimed(e, dts[s], line[s], f)
  <1> DEFINE c == call[s]
             a == Head(c)
  <1>1. PICK S : c \in Seq(S)
    BY PathsHave
  <1>2. /\ a \in FramesOf(c) /\ FramesOf(Tail(c)) \subseteq FramesOf(c)
        /\ \A b \in FramesOf(Tail(c)) : Atop(c, a, b)
    <2> HIDE DEF c
    <2> QED
      BY <1>1, FramesAre DEF c
  <1>3. \A f \in FramesOf(c) : Aimed(disk, dts[s], line[s], f)
    BY DEF AimedInv
  <1>4. \A x, y : Atop(c, x, y) => Under(x, y)
    BY DEF PathInv, Nested, Atop
  <1> HIDE DEF c
  <1>5. ASSUME NEW f \in FramesOf(Tail(c)) PROVE Aimed(e, dts[s], line[s], f)
    <2>1. Aimed(disk, dts[s], line[s], f) /\ Aimed(disk, dts[s], line[s], a) /\ Under(a, f)
      BY <1>2, <1>3, <1>4
    <2>2. f.fn # "rm"
      BY <2>1 DEF Aimed, Under, Loops, c
    <2> QED
      BY <2>1, <2>2 DEF Aimed
  <1> QED
    BY <1>2, <1>3, <1>5 DEF c

\* The step ends the call, goes on with a frame, or with two.
LEMMA AimedPut ==
    ASSUME CallsInv, PathInv, AimedInv, NEW s \in Shells, call[s] # <<>>, Head(call[s]).fn # "lost",
           NEW f, NEW g, Kills(line[s]) => Aimed(disk', dts[s], line[s], f) /\ Aimed(disk', dts[s], line[s], g),
           call'[s] \in {Tail(call[s]), <<f>> \o Tail(call[s]), <<f, g>> \o Tail(call[s])}
    PROVE  AimedOn(s)
  <1> SUFFICES ASSUME Kills(line[s]), NEW x \in FramesOf(call'[s]) PROVE Aimed(disk', dts[s], line[s], x)
    BY DEF AimedOn
  <1> DEFINE c == call[s]
             t == Tail(c)
             e == disk'
  <1>1. PICK S : c \in Seq(S)
    BY PathsHave
  <1>2. \A y \in FramesOf(t) : Aimed(e, dts[s], line[s], y)
    BY AimedBelow
  <1>3. /\ FramesOf(<<f>> \o t) \subseteq {f} \cup FramesOf(t)
        /\ FramesOf(<<f, g>> \o t) \subseteq {f, g} \cup FramesOf(t)
    <2> HIDE DEF c
    <2> QED
      BY <1>1, FramesAre DEF c
  <1>4. x \in {f, g} \cup FramesOf(t)
    BY <1>3
  <1> QED
    BY <1>2, <1>4

\* The step ends the call or goes on with one frame.
LEMMA AimedOne ==
    ASSUME CallsInv, PathInv, AimedInv, NEW s \in Shells, call[s] # <<>>, Head(call[s]).fn # "lost", NEW f,
           Kills(line[s]) => Aimed(disk', dts[s], line[s], f), Return(s) \/ GoOn(s, <<f>>)
    PROVE  AimedOn(s)
  <1>1. call'[s] \in {Tail(call[s]), <<f>> \o Tail(call[s])}
    BY OwnWays
  <1> QED
    BY <1>1, AimedPut

\* A lost command aims at nothing.
LEMMA AimedLost ==
    ASSUME CallsInv, NEW s \in Shells, call[s] # <<>>, Lose(s) PROVE AimedOn(s)
  <1>1. FramesOf(call'[s]) = {Lost} /\ Lost.fn = "lost"
    BY OwnWays, FewFrames DEF Lost
  <1> QED
    BY <1>1 DEF AimedOn, Aimed

\* mv's rm names what mv named.
LEMMA AimedSucceed ==
    ASSUME CallsInv, PathInv, AimedInv, NEW s \in Shells, call[s] # <<>>, Head(call[s]).fn = "dest",
           Succeed(s, Head(call[s]))
    PROVE  AimedOn(s)
  <1> DEFINE f == Head(call[s])
             h == Loop("rm", <<f.name>>, dts[s])
  <1>1. Return(s) \/ GoOn(s, <<h>>)
    BY DEF Succeed
  <1>2. ASSUME Kills(line[s]) PROVE Aimed(disk', dts[s], line[s], h)
    <2>1. Aimed(disk, dts[s], line[s], f)
      BY <1>2, AimedBelow
    <2>2. h.fn = "rm" /\ Len(h.rest) = 1 /\ h.rest[1] = f.name /\ h.walk = dts[s]
      BY DEF Loop
    <2> HIDE DEF h
    <2> QED
      BY <1>2, <2>1, <2>2 DEF Aimed
  <1> HIDE DEF h
  <1> QED
    BY <1>1, <1>2, AimedOne

\* The other functions remove nothing.
LEMMA AimedNever ==
    ASSUME CallsInv, PathInv, AimedInv, NEW s \in Shells, call[s] # <<>>,
           Head(call[s]).fn \notin {"rm", "flush", "source", "dest", "copy", "lost"}
    PROVE  AimedOn(s)
  <1> SUFFICES ASSUME Kills(line[s]) PROVE FALSE
    BY DEF AimedOn
  <1>1. Aimed(disk, dts[s], line[s], Head(call[s]))
    BY AimedBelow
  <1> QED
    BY <1>1 DEF Aimed

\* A return leaves only frames that waited.
LEMMA AimedReturn ==
    ASSUME CallsInv, PathInv, AimedInv, NEW s \in Shells, call[s] # <<>>, Head(call[s]).fn # "lost", Return(s)
    PROVE  AimedOn(s)
  <1>1. Lost.fn = "lost"
    BY DEF Lost
  <1>2. Aimed(disk', dts[s], line[s], Lost)
    BY <1>1 DEF Aimed
  <1> QED
    BY <1>2, AimedOne

\* A frame that differs in other fields.
LEMMA AimedLike ==
    ASSUME NEW d, NEW w, NEW l, NEW f, NEW g, Aimed(d, w, l, f), g.fn = f.fn,
           f.fn = "rm" => g.rest = f.rest /\ g.walk = f.walk, f.fn = "flush" => g.walk = f.walk,
           f.fn \in {"source", "dest"} => g.name = f.name
    PROVE  Aimed(d, w, l, g)
  BY DEF Aimed, Led

\* The loops.
LEMMA AimedLoop ==
    ASSUME Served, CallsInv, PathInv, AimedInv, NEW s \in Shells, GoUp(s) \/ Stay(s) \/ Enter(s)
    PROVE  AimedOn(s)
  <1> DEFINE f == Head(call[s])
  <1>1. /\ call[s] # <<>> /\ f.fn \in Loops /\ UNCHANGED vars
        /\ Path(disk, f.walk) /\ f.rest # <<>>
        /\ \/ Return(s)
           \/ \E g : GoOn(s, <<g>>) /\ LoopWay(disk, f, g)
    BY LoopGoes
  <1>2. f.fn # "lost" /\ disk' = disk /\ DiskOK(disk) /\ dts[s] \in Seq(Links)
    BY <1>1, StoreServed, PathsHave DEF Loops, vars
  <1>3. CASE Return(s)
    BY <1>1, <1>2, <1>3, AimedReturn
  <1>4. ASSUME NEW g, GoOn(s, <<g>>), LoopWay(disk, f, g) PROVE AimedOn(s)
    <2>0. /\ g.fn = f.fn /\ g.rest = Tail(f.rest)
          /\ f.fn \in {"source", "dest"} \/ g.walk = PathStep(disk, f.walk, Head(f.rest))
          /\ Len(f.rest) = 1 => f.fn # "rm"
          /\ f.fn \in {"source", "dest"} => g.name = f.name
      BY <1>4 DEF LoopWay
    <2>1. ASSUME Kills(line[s]) PROVE Aimed(disk', dts[s], line[s], g)
      <3>1. Aimed(disk, dts[s], line[s], f)
        BY <1>1, <1>2, <2>1, AimedBelow
      <3>2. CASE f.fn = "rm"
        <4>1. Led(disk, dts[s], line[s], f) /\ line[s].at = Place(disk, dts[s], line[s].path)
          BY <2>0, <2>1, <3>1, <3>2 DEF Aimed
        <4>2. g.walk = PathStep(disk, f.walk, Head(f.rest))
          BY <2>0, <3>2
        <4> DEFINE w == dts[s]
                   l == line[s]
        <4>3. Led(disk, w, l, f) /\ w \in Seq(Links) /\ f.rest # <<>>
          BY <1>1, <1>2, <4>1
        <4> HIDE DEF w, l, f
        <4>4. Led(disk, w, l, g)
          BY <1>2, <2>0, <4>2, <4>3, LedStep
        <4> QED
          BY <1>2, <2>0, <3>2, <4>1, <4>4 DEF Aimed, w, l
      <3>3. CASE f.fn # "rm"
        BY <1>1, <1>2, <2>0, <3>1, <3>3, AimedLike DEF Loops, Aimed
      <3> QED
        BY <3>2, <3>3
    <2> QED
      BY <1>1, <1>2, <1>4, <2>1, AimedOne
  <1> QED
    BY <1>1, <1>3, <1>4

\* The look at the table.
LEMMA AimedExamine ==
    ASSUME Served, CallsInv, PathInv, AimedInv, NEW s \in Shells, Examine(s)
    PROVE  AimedOn(s)
  <1> DEFINE f == Head(call[s])
             Goes(g) == GoOn(s, <<g>>) /\ ExamineWay(Peeked(f), f, g)
  <1>1. call[s] # <<>> /\ f.fn \in Loops /\ UNCHANGED vars /\ (Lose(s) \/ \E g : Goes(g))
    BY ExamineGoes
  <1>2. f.fn # "lost" /\ f.fn # "flush" /\ disk' = disk
    BY <1>1 DEF Loops, vars
  <1>3. ASSUME NEW g, Goes(g) PROVE AimedOn(s)
    <2>0. /\ g.fn = f.fn /\ g.rest = f.rest /\ g.walk = f.walk
          /\ f.fn \in {"source", "dest"} => g.name = f.name
      BY <1>3 DEF ExamineWay
    <2>1. ASSUME Kills(line[s]) PROVE Aimed(disk', dts[s], line[s], g)
      <3>1. Aimed(disk, dts[s], line[s], f)
        BY <1>1, <1>2, <2>1, AimedBelow
      <3> QED
        BY <1>2, <2>0, <3>1, AimedLike
    <2> QED
      BY <1>1, <1>2, <1>3, <2>1, AimedOne
  <1>4. Lose(s) => AimedOn(s)
    BY <1>1, AimedLost
  <1> HIDE DEF f, Goes
  <1> QED
    BY <1>1, <1>3, <1>4

\* The turns that end the loop.
LEMMA AimedEnds ==
    ASSUME Served, CallsInv, PathInv, AimedInv, NEW s \in Shells, Refuse(s) \/ EndOfPath(s)
    PROVE  AimedOn(s)
  <1>0. "lost" \notin Loops
    BY DEF Loops
  <1>1. /\ call[s] # <<>> /\ Head(call[s]).fn # "lost"
        /\ Return(s) \/ Head(call[s]).fn = "cd"
    BY <1>0 DEF Refuse, EndOfPath, In
  <1> QED
    BY <1>1, AimedReturn, AimedNever

\* The steps of commands that remove nothing.
LEMMA AimedOther ==
    ASSUME Served, CallsInv, PathInv, AimedInv, NEW s \in Shells,
           \/ Look(s) \/ MakeDirectory(s) \/ Show(s)
           \/ PeekScan(s) \/ ScanEntry(s) \/ ScanOn(s) \/ ScanEnd(s) \/ FindRoot(s) \/ FindEnd(s)
    PROVE  AimedOn(s)
  <1>1. call[s] # <<>> /\ Head(call[s]).fn \in {"mkdir", "cat", "scan", "find"}
    BY DEF Look, MakeDirectory, Show, PeekScan, ScanEntry, ScanOn, ScanEnd, FindRoot, FindEnd, In
  <1> QED
    BY <1>1, AimedNever

\* rm.
LEMMA AimedRemove ==
    ASSUME Served, CallsInv, PathInv, AimedInv, NEW s \in Shells, RemoveLast(s)
    PROVE  AimedOn(s)
  <1> DEFINE f == Head(call[s])
             g == [f EXCEPT !.at = "open"]
  <1>0. In(s, {"rm"}, "name") /\ "rm" \in Loops
    BY DEF RemoveLast, Loops
  <1>1. /\ call[s] # <<>> /\ f.fn = "rm" /\ {"fn", "at", "rest", "walk", "cwd"} \subseteq DOMAIN f
        /\ Path(disk, f.walk)
    BY <1>0, LoopNowIn
  <1>2. Len(f.rest) = 1 /\ (GoOn(s, <<g>>) \/ Return(s))
    BY DEF RemoveLast, IsLast
  <1>3. g.fn = "rm" /\ g.rest = f.rest /\ g.walk = f.walk
    BY <1>1
  <1> HIDE DEF g
  <1>4. ASSUME Kills(line[s]) PROVE Aimed(disk', dts[s], line[s], g)
    <2>1. Aimed(disk, dts[s], line[s], f) /\ f.walk # <<>>
      BY <1>1, <1>4, AimedBelow, PathHas
    <2>2. Passes(f.walk, line[s].at) \/ line[s].at = <<Last(f.walk).cluster, f.rest[1]>>
      BY <1>1, <1>2, <1>4, <2>1, AimedLast
    <2> QED
      BY <1>2, <1>3, <2>2 DEF Aimed
  <1> QED
    BY <1>1, <1>2, <1>4, AimedOne

\* rm opens the directory it is to empty, and goes through its children.
LEMMA AimedOpen ==
    ASSUME Served, CallsInv, PathInv, AimedInv, NEW s \in Shells, OpenRemoved(s)
    PROVE  AimedOn(s)
  <1> DEFINE f == Head(call[s])
             p == ClusterNumber(f.cwd)
             n == Head(f.rest)
             t == ReadDirectory(p, n)
             g == Flush(f, t)
  <1>0. In(s, {"rm"}, "open") /\ "rm" \in Loops
    BY DEF OpenRemoved, Loops
  <1>1. /\ call[s] # <<>> /\ f.fn = "rm" /\ f.at = "open"
        /\ Good(disk, dts, dts[s], line[s], f) /\ f.rest # <<>> /\ f.rest \in Seq(Parts)
        /\ p = Last(f.walk).cluster /\ Path(disk, f.walk)
    BY <1>0, LoopNowIn
  <1>2. Return(s) \/ (Reads(p, n) /\ GoOn(s, <<g>>))
    BY DEF OpenRemoved
  <1>3. Len(f.rest) = 1 /\ ~MakesRoot(p, n)
    BY <1>1 DEF Good, RmGood
  <1>4. ASSUME Reads(p, n), GoOn(s, <<g>>), Kills(line[s]) PROVE Aimed(disk', dts[s], line[s], g)
    <2>1. Aimed(disk, dts[s], line[s], f) /\ f.walk # <<>> /\ f.rest[1] = n
      BY <1>1, <1>4, AimedBelow, PathHas
    <2>2. Passes(f.walk, line[s].at) \/ line[s].at = <<p, n>>
      BY <1>1, <1>3, <1>4, <2>1, AimedLast
    <2>3. g.fn = "flush" /\ g.walk = Pushed(f.walk, t)
      BY DEF Flush, Pushed
    <2> DEFINE u == f.walk
               v == Pushed(u, ReadDirectory(Last(u).cluster, n))
    <2>4. Reads(Last(u).cluster, n) /\ ~MakesRoot(Last(u).cluster, n) /\ Path(disk, u) /\ g.walk = v
      BY <1>1, <1>3, <1>4, <2>3
    <2> HIDE DEF u, n, g, f, t
    <2>5. /\ Path(disk, v) /\ Len(v) = Len(u) + 1 /\ Front(v) = u
          /\ Last(v) = ReadDirectory(Last(u).cluster, n).self
          /\ ReadDirectory(Last(u).cluster, n).self.name = n
      BY <2>4, EnteredPath
    <2> HIDE DEF v
    <2>6. /\ Len(u) \in Nat /\ Len(u) > 0 /\ Last(u) = u[Len(u)] /\ Len(v) \in Nat /\ Last(v) = v[Len(v)] /\ v \in Seq(Links)
      BY <2>4, <2>5, PathHas
    <2>7. \A i \in 1 .. Len(u) : v[i] = u[i]
      BY <2>5, <2>6, FrontIs
    <2>8. Passes(v, <<u[Len(u)].cluster, v[Len(v)].name>>) /\ \A e : Passes(u, e) => Passes(v, e)
      BY <2>5, <2>6, <2>7, PassesLonger
    <2>9. Passes(v, line[s].at)
      BY <1>1, <2>2, <2>5, <2>6, <2>8 DEF u
    <2> QED
      BY <2>3, <2>4, <2>9 DEF Aimed
  <1>5. CASE Return(s)
    BY <1>1, <1>5, AimedReturn
  <1>6. CASE Reads(p, n) /\ GoOn(s, <<g>>)
    <2> HIDE DEF g
    <2> QED
      BY <1>1, <1>4, <1>6, AimedOne
  <1> QED
    BY <1>2, <1>5, <1>6

\* The children and the directory itself.
LEMMA AimedFlush ==
    ASSUME Served, CallsInv, PathInv, AimedInv, NEW s \in Shells, FlushChild(s) \/ FlushEnd(s)
    PROVE  AimedOn(s)
  <1> DEFINE f == Head(call[s])
  <1>0. In(s, {"flush"}, "each")
    BY DEF FlushChild, FlushEnd
  <1>1. call[s] # <<>> /\ f.fn = "flush" /\ FlushFrame(f) /\ {"fn", "at"} \subseteq DOMAIN f
    BY <1>0, FlushNow
  <1>2. CASE FlushEnd(s)
    BY <1>1, <1>2, AimedReturn DEF FlushEnd
  <1>3. CASE FlushChild(s)
    <2>1. PICK n \in f.left :
            LET g == [f EXCEPT !.left = @ \ {n}]
            IN  GoOn(s, <<Loop("rm", <<n>>, f.walk), g>>) \/ GoOn(s, <<g>>)
      BY <1>3 DEF FlushChild
    <2> DEFINE g == [f EXCEPT !.left = @ \ {n}]
               h == Loop("rm", <<n>>, f.walk)
    <2>2. g.fn = "flush" /\ g.walk = f.walk /\ h.fn = "rm" /\ h.walk = f.walk /\ Len(h.rest) = 1
      BY <1>1 DEF FlushFrame, Loop
    <2>3. GoOn(s, <<h, g>>) \/ GoOn(s, <<g>>)
      BY <2>1
    <2> HIDE DEF g, h
    <2>4. ASSUME Kills(line[s]) PROVE Aimed(disk', dts[s], line[s], h) /\ Aimed(disk', dts[s], line[s], g)
      <3>1. Aimed(disk, dts[s], line[s], f)
        BY <1>1, <2>4, AimedBelow
      <3>2. Passes(f.walk, line[s].at)
        BY <1>1, <2>4, <3>1 DEF Aimed
      <3> QED
        BY <2>2, <3>2 DEF Aimed
    <2>5. call'[s] \in {<<g>> \o Tail(call[s]), <<h, g>> \o Tail(call[s])}
      BY <1>1, <2>3, OwnWays
    <2>6. CASE call'[s] = <<g>> \o Tail(call[s])
      BY <1>1, <2>4, <2>6, AimedPut
    <2>7. CASE call'[s] = <<h, g>> \o Tail(call[s])
      BY <1>1, <2>4, <2>7, AimedPut
    <2> QED
      BY <2>5, <2>6, <2>7
  <1> QED
    BY <1>2, <1>3

\* cp and mv.
LEMMA AimedCp ==
    ASSUME Served, CallsInv, PathInv, AimedInv, NEW s \in Shells,
           ReadSource(s) \/ WriteUnder(s) \/ PeekInto(s) \/ PutFile(s) \/ PutDirectory(s) \/ Copied(s)
    PROVE  AimedOn(s)
  <1> DEFINE f == Head(call[s])
  <1>1. CASE ReadSource(s)
    <2>1. In(s, {"source"}, "name") /\ f.fn = "source" /\ call[s] # <<>>
      BY <1>1 DEF ReadSource, In
    <2>2. \E isfile, size, data, want : GoOn(s, <<Dest(f, dts[s], isfile, size, data, want)>>)
      <3> DEFINE p == ClusterNumber(f.cwd)
                 size == IF f.name \notin Extended /\ Found(f.cwd, f.name)
                           THEN EntryIn(f.cwd, f.name).size ELSE f.size
      <3>1. GoOn(s, <<IF f.dir = {FALSE}
                          THEN Dest(f, dts[s], TRUE, size, Bytes(p, f.name, size), Unread)
                          ELSE Dest(f, dts[s], FALSE, 0, Junk,
                                    IF Reads(p, f.name) THEN ReadDirectory(p, f.name)
                                    ELSE f.cwd)>>)
        BY <1>1 DEF ReadSource
      <3> HIDE DEF p, size, f
      <3> QED
        BY <3>1
    <2>3. PICK isfile, size, data, want : GoOn(s, <<Dest(f, dts[s], isfile, size, data, want)>>)
      BY <2>2
    <2> DEFINE g == Dest(f, dts[s], isfile, size, data, want)
    <2>4. g.fn = "dest" /\ g.name = f.name /\ GoOn(s, <<g>>)
      BY <2>3 DEF Dest
    <2> HIDE DEF g
    <2>5. ASSUME Kills(line[s]) PROVE Aimed(disk', dts[s], line[s], g)
      <3>1. Aimed(disk, dts[s], line[s], f)
        BY <2>1, <2>5, AimedBelow
      <3> QED
        BY <2>1, <2>4, <2>5, <3>1 DEF Aimed
    <2> QED
      BY <2>1, <2>4, <2>5, AimedOne
  <1>2. CASE WriteUnder(s) \/ Copied(s)
    <2>1. call[s] # <<>> /\ f.fn = "dest" /\ Succeed(s, f)
      BY <1>2 DEF WriteUnder, Copied, In
    <2> QED
      BY <2>1, AimedSucceed
  <1>3. CASE PutFile(s)
    <2>1. call[s] # <<>> /\ f.fn = "dest" /\ (Succeed(s, f) \/ Return(s))
      BY <1>3 DEF PutFile, In
    <2> QED
      BY <2>1, AimedSucceed, AimedReturn
  <1>4. CASE PeekInto(s) \/ PutDirectory(s)
    <2>1. PICK at \in {"into", "put"} : In(s, {"dest"}, at)
      BY <1>4 DEF PeekInto, PutDirectory
    <2>2. /\ call[s] # <<>> /\ f.fn = "dest" /\ {"fn", "at", "rest", "walk", "cwd"} \subseteq DOMAIN f
          /\ {"name", "mv", "dir", "isfile", "size", "data", "want"} \subseteq DOMAIN f
      BY <2>1, DestNow
    <2>3. ASSUME NEW g, g.fn = "dest", g.name = f.name, Kills(line[s]) PROVE Aimed(disk', dts[s], line[s], g)
      <3>1. Aimed(disk, dts[s], line[s], f)
        BY <2>2, <2>3, AimedBelow
      <3> QED
        BY <2>2, <2>3, <3>1 DEF Aimed
    <2>4. CASE PeekInto(s)
      <3> DEFINE g == [f EXCEPT !.at = "put", !.cwd = Peeked(f)]
      <3>1. GoOn(s, <<g>>) /\ g.fn = "dest" /\ g.name = f.name
        BY <2>2, <2>4 DEF PeekInto
      <3> HIDE DEF g
      <3> QED
        BY <2>2, <2>3, <3>1, AimedOne
    <2>5. CASE PutDirectory(s)
      <3> DEFINE g == [f EXCEPT !.at = "copied"]
                 h == Copy(f.want, ClusterNumber(f.cwd))
      <3>1. GoOn(s, <<h, g>>) /\ g.fn = "dest" /\ g.name = f.name /\ h.fn = "copy"
        BY <2>2, <2>5 DEF PutDirectory, Copy
      <3> HIDE DEF g, h
      <3>2. Kills(line[s]) => Aimed(disk', dts[s], line[s], g) /\ Aimed(disk', dts[s], line[s], h)
        BY <2>3, <3>1 DEF Aimed
      <3>3. call'[s] = <<h, g>> \o Tail(call[s])
        BY <2>2, <3>1, OwnWays
      <3> QED
        BY <2>2, <3>2, <3>3, AimedPut
    <2> QED
      BY <1>4, <2>4, <2>5
  <1> QED
    BY <1>1, <1>2, <1>3, <1>4

\* cp_helper.
LEMMA AimedCopy ==
    ASSUME Served, CallsInv, PathInv, AimedInv, NEW s \in Shells,
           MakeCopy(s) \/ OpenCopy(s) \/ CopyChild(s) \/ CopyEnd(s)
    PROVE  AimedOn(s)
  <1> DEFINE f == Head(call[s])
             Like(g) == g.fn = "copy"
             Ways == \/ Lose(s) \/ Return(s)
                     \/ \E g : Like(g) /\ GoOn(s, <<g>>)
                     \/ \E g, h : Like(g) /\ Like(h) /\ GoOn(s, <<h, g>>)
  <1>0. \E at \in {"make", "open", "each"} : In(s, {"copy"}, at)
    BY DEF MakeCopy, OpenCopy, CopyChild, CopyEnd
  <1>1. call[s] # <<>> /\ f.fn = "copy" /\ {"fn", "at", "want", "into", "new", "left"} \subseteq DOMAIN f
    BY <1>0, CopyNow
  <1>2. ASSUME MakeCopy(s) PROVE Ways
    <2> DEFINE g == [f EXCEPT !.at = "open"]
    <2>1. GoOn(s, <<g>>) /\ Like(g)
      BY <1>1, <1>2 DEF MakeCopy
    <2> HIDE DEF g
    <2> QED
      BY <2>1
  <1>3. ASSUME OpenCopy(s) PROVE Ways
    <2> DEFINE g == [f EXCEPT !.at = "each",
                                      !.new = ClusterNumber(ReadDirectory(f.into, f.want.self.name)),
                                      !.left = DOMAIN f.want.entries]
    <2>1. (Lose(s) \/ GoOn(s, <<g>>)) /\ Like(g)
      BY <1>1, <1>3 DEF OpenCopy
    <2> HIDE DEF g
    <2> QED
      BY <2>1
  <1>4. ASSUME CopyChild(s) PROVE Ways
    <2>1. PICK n \in f.left :
             LET g == [f EXCEPT !.left = @ \ {n}]
             IN  \/ Lose(s)
                 \/ GoOn(s, <<g>>)
                 \/ GoOn(s, <<Copy(ReadDirectory(ClusterNumber(f.want), n), f.new), g>>)
      BY <1>4 DEF CopyChild
    <2> DEFINE g == [f EXCEPT !.left = @ \ {n}]
               h == Copy(ReadDirectory(ClusterNumber(f.want), n), f.new)
    <2>2. (Lose(s) \/ GoOn(s, <<g>>) \/ GoOn(s, <<h, g>>)) /\ Like(g) /\ Like(h)
      BY <1>1, <2>1 DEF Copy
    <2> HIDE DEF g, h
    <2> QED
      BY <2>2
  <1>5. ASSUME CopyEnd(s) PROVE Ways
    BY <1>5 DEF CopyEnd
  <1>6. Ways
    BY <1>2, <1>3, <1>4, <1>5
  <1>7. ASSUME NEW g, NEW h, Like(g), Like(h), GoOn(s, <<g>>) \/ GoOn(s, <<h, g>>) PROVE AimedOn(s)
    <2>1. Aimed(disk', dts[s], line[s], g) /\ Aimed(disk', dts[s], line[s], h)
      BY <1>7 DEF Aimed
    <2>2. call'[s] = <<g>> \o Tail(call[s]) \/ call'[s] = <<h, g>> \o Tail(call[s])
      BY <1>1, <1>7, OwnWays
    <2> QED
      BY <1>1, <2>1, <2>2, AimedPut
  <1> QED
    BY <1>1, <1>6, <1>7, AimedLost, AimedReturn

\* All steps of a command keep it.
LEMMA AimedStep ==
    ASSUME Served, CallsInv, PathInv, AimedInv, NEW s \in Shells, Step(s) PROVE AimedInv'
  <1>1. AimedOn(s)
    BY AimedLoop, AimedExamine, AimedEnds, AimedOther, AimedRemove, AimedOpen, AimedFlush, AimedCp, AimedCopy DEF Step
  <1> QED
    BY <1>1, AimedKept

\* What is typed aims at what it names.
LEMMA AimedStarts ==
    ASSUME NEW d, DiskOK(d), NEW w, Path(d, w), NEW l, NEW k, k.cmd = l.cmd, k.path = l.path, k.at = Place(d, w, l.path),
           l.cmd = "rm" => Rootless(l.path), l.cmd = "mv" => Rootless(l.path) /\ Len(l.path) = 1,
           NEW f \in FramesOf(FirstFrames(l, w))
    PROVE  Aimed(d, w, k, f)
  <1> SUFFICES ASSUME Kills(k) PROVE Aimed(d, w, k, f)
    BY DEF Aimed
  <1>0. w \in Seq(Links) /\ w # <<>>
    BY PathHas
  <1>1. CASE l.cmd = "rm"
    <2> DEFINE h == Loop("rm", l.path, w)
    <2>1. FirstFrames(l, w) = <<h>> /\ h.fn = "rm" /\ h.rest = k.path /\ h.walk = w
      BY <1>1 DEF FirstFrames, Loop
    <2> HIDE DEF h
    <2>2. f = h
      BY <2>1, FewFrames
    <2>3. Led(d, w, k, h)
      BY <1>0, <1>1, <2>1, LedStart
    <2> QED
      BY <2>1, <2>2, <2>3 DEF Aimed
  <1>2. CASE l.cmd = "mv"
    <2> DEFINE h == Source(l.path, l.dest, w, l.cmd = "mv")
    <2>1. FirstFrames(l, w) = <<h>> /\ h.fn = "source" /\ h.rest = k.path /\ h.walk = w /\ h.name = Head(k.path)
      BY <1>2 DEF FirstFrames, Source, AfterSplit
    <2> HIDE DEF h
    <2>2. f = h
      BY <2>1, FewFrames
    <2>3. Led(d, w, k, h)
      BY <1>0, <1>2, <2>1, LedStart
    <2>4. k.at = <<Last(w).cluster, k.path[1]>>
      BY <1>0, <1>2, <2>1, <2>3, LedLast
    <2>5. k.path # <<>>
      <3>1. Len(<<>>) # 1
        OBVIOUS
      <3> QED
        BY <1>2, <3>1
    <2>6. Head(k.path) = k.path[1]
      BY <1>2, <2>5, RestOf DEF Rootless
    <2> QED
      BY <2>1, <2>2, <2>4, <2>6 DEF Aimed
  <1> QED
    BY <1>1, <1>2 DEF Kills

\* So does a line that is typed.
LEMMA AimedType ==
    ASSUME Slips = {}, Served, CallsInv, PathInv, AimedInv, session \in Sessions, NEW s \in Shells, Type(s)
    PROVE  AimedInv'
  <1>1. PICK l \in session.lines[s] :
          /\ SlipsOf(s, l) \subseteq Slips
          /\ call' = [call EXCEPT ![s] = FirstFrames(l, dts[s])] /\ UNCHANGED <<vars, dts>>
          /\ line' = [line EXCEPT ![s] =
               [cmd |-> l.cmd, path |-> l.path, dest |-> l.dest,
                at |-> Named(s, l), alone |-> NeedsAlone(s, l),
                due |-> IF l.cmd = "find" THEN Matches(disk, Last(l.path)) ELSE {}]]
    BY DEF Type
  <1> DEFINE w == dts[s]
             k == [cmd |-> l.cmd, path |-> l.path, dest |-> l.dest,
                   at |-> Named(s, l), alone |-> NeedsAlone(s, l),
                   due |-> IF l.cmd = "find" THEN Matches(disk, Last(l.path)) ELSE {}]
             c == FirstFrames(l, w)
  <1>2. l.path \in Seq(Parts) /\ l.dest \in Seq(Parts) /\ l.path # <<>>
    BY ShellAssumption DEF Parts
  <1>3. /\ k.cmd = l.cmd /\ k.path = l.path /\ k.at = Place(disk, w, l.path)
        /\ disk' = disk /\ dts' = dts
    BY <1>1 DEF vars, Named
  <1>4. /\ call' = [call EXCEPT ![s] = c] /\ line' = [line EXCEPT ![s] = k]
    BY <1>1
  <1>5. /\ l.cmd \in {"cp", "mv"} => Len(l.path) <= 1
        /\ l.cmd # "find" => RootName \notin Range(l.path) \cup Range(l.dest)
    BY <1>1, TypedWell
  <1>6. Path(disk, w) /\ DiskOK(disk)
    BY StoreServed DEF PathInv
  <1>7. /\ l.cmd \in {"rm", "mv"} => Rootless(l.path)
        /\ l.cmd = "mv" => Len(l.path) = 1
    <2>1. Len(l.path) \in Nat /\ Len(l.path) # 0
      BY <1>2
    <2>2. \A x \in Nat : x # 0 /\ x <= 1 => x = 1
      OBVIOUS
    <2> QED
      BY <1>2, <1>5, <2>1, <2>2, NamesNoRoot
  <1> HIDE DEF k, w
  <1>8. \A f \in FramesOf(c) : Aimed(disk, w, k, f)
    <2> HIDE DEF c
    <2> SUFFICES ASSUME NEW f \in FramesOf(FirstFrames(l, w)) PROVE Aimed(disk, w, k, f)
      BY DEF c
    <2> QED
      BY <1>3, <1>6, <1>7, AimedStarts
  <1>9. DOMAIN call = Shells /\ DOMAIN line = Shells
    BY DEF CallsInv
  <1> HIDE DEF c
  <1>10. /\ call'[s] = c /\ line'[s] = k
         /\ \A z \in Shells : z # s => call'[z] = call[z] /\ line'[z] = line[z]
    BY <1>4, <1>9
  <1> SUFFICES ASSUME NEW z \in Shells, NEW f \in FramesOf(call'[z])
               PROVE  Aimed(disk', dts'[z], line'[z], f)
    BY DEF AimedInv
  <1>11. CASE z = s
    BY <1>3, <1>8, <1>10, <1>11 DEF w
  <1>12. CASE z # s
    BY <1>3, <1>10, <1>12 DEF AimedInv
  <1> QED
    BY <1>11, <1>12

\* The invariant, with what it rests on.
RemovesInv == ServedInv /\ AimedInv

\* It holds at first,
LEMMA InitRemovesInv == ShellInit => RemovesInv
  <1> SUFFICES ASSUME ShellInit PROVE AimedInv
    BY InitServedInv DEF RemovesInv
  <1>1. \A s \in Shells : call[s] = <<>>
    BY DEF ShellInit
  <1> QED
    BY <1>1, FewFrames DEF AimedInv

\* and every step keeps it.
LEMMA NextRemovesInv ==
    ASSUME Slips = {} PROVE RemovesInv /\ [ShellNext]_shvars => RemovesInv'
  <1> SUFFICES ASSUME RemovesInv, [ShellNext]_shvars PROVE AimedInv'
    BY NextServedInv DEF RemovesInv
  <1>1. ServedInv /\ AimedInv /\ Served /\ CallsInv /\ PathInv /\ session \in Sessions
    BY DEF RemovesInv, ServedInv, ShellInv
  <1>2. CASE \E s \in Shells : Type(s)
    BY <1>1, <1>2, AimedType
  <1>3. CASE \E s \in Shells : Step(s)
    BY <1>1, <1>3, AimedStep
  <1>4. CASE Restart
    <2>1. \A s \in Shells : call'[s] = <<>>
      BY <1>4 DEF Restart
    <2> QED
      BY <2>1, FewFrames DEF AimedInv
  <1>5. CASE UNCHANGED shvars
    <2>1. disk' = disk /\ dts' = dts /\ call' = call /\ line' = line
      BY <1>5 DEF shvars, vars
    <2> QED
      BY <1>1, <2>1 DEF AimedInv
  <1> QED
    BY <1>2, <1>3, <1>4, <1>5 DEF ShellNext

-----------------------------------------------------------------------------
\* Where nothing goes nothing is gone, and else what goes is.
LEMMA GrowsOn ==
    ASSUME NEW d, IsStore(d), NEW e, IsStore(e), NEW p, NEW n, NEW isdir, Grows(d, e, p, n, isdir)
    PROVE  EntriesOn(d) \subseteq EntriesOn(e) /\ EntriesOn(e) \ EntriesOn(d) \subseteq {<<p, n>>}
  <1>0. DiskOK(d) /\ DiskOK(e)
    BY DEF IsStore
  <1>1. ASSUME NEW x \in EntriesOn(d) PROVE x \in EntriesOn(e)
    <2>1. x = <<x[1], x[2]>> /\ x[1] \in Clusters
      BY <1>0, EntryPairs, EntryTypes
    <2>2. Has(d, x[1], x[2])
      BY <2>1, HasIsEntry
    <2>3. Has(e, x[1], x[2])
      BY <2>1, <2>2 DEF Grows
    <2> QED
      BY <2>1, <2>3, HasIsEntry
  <1>2. ASSUME NEW x \in EntriesOn(e), x \notin EntriesOn(d) PROVE x = <<p, n>>
    <2>1. x = <<x[1], x[2]>> /\ x[1] \in Clusters
      BY <1>0, EntryPairs, EntryTypes
    <2>2. Has(e, x[1], x[2]) /\ ~Has(d, x[1], x[2])
      BY <1>2, <2>1, HasIsEntry
    <2> QED
      BY <2>1, <2>2 DEF Grows
  <1> QED
    BY <1>1, <1>2

\* Where an entry goes no other does.
LEMMA ShrinksOn ==
    ASSUME NEW d, IsStore(d), NEW e, IsStore(e), NEW p, NEW n, Shrinks(d, e, p, n)
    PROVE  /\ EntriesOn(e) \subseteq EntriesOn(d)
           /\ \A x \in EntriesOn(d) \ EntriesOn(e) : x = <<p, n>> /\ Has(d, p, n)
  <1>0. DiskOK(d) /\ DiskOK(e)
    BY DEF IsStore
  <1>1. ASSUME NEW x \in EntriesOn(e) PROVE x \in EntriesOn(d)
    <2>1. x = <<x[1], x[2]>> /\ x[1] \in Clusters
      BY <1>0, EntryPairs, EntryTypes
    <2>2. Has(e, x[1], x[2])
      BY <2>1, HasIsEntry
    <2>3. Has(d, x[1], x[2])
      BY <2>1, <2>2 DEF Shrinks
    <2> QED
      BY <2>1, <2>3, HasIsEntry
  <1>2. ASSUME NEW x \in EntriesOn(d), x \notin EntriesOn(e) PROVE x = <<p, n>> /\ Has(d, p, n)
    <2>1. x = <<x[1], x[2]>> /\ x[1] \in Clusters
      BY <1>0, EntryPairs, EntryTypes
    <2>2. ~Has(e, x[1], x[2]) /\ Has(d, x[1], x[2])
      BY <1>2, <2>1, HasIsEntry
    <2>3. x[1] = p /\ x[2] = n
      BY <2>1, <2>2 DEF Shrinks
    <2> QED
      BY <2>1, <2>2, <2>3
  <1> QED
    BY <1>1, <1>2

\* A command that returns has done something.
LEMMA ReturnDoes ==
    ASSUME CallsInv, NEW s \in Shells, call[s] # <<>>, Return(s), NEW cmds, line[s].cmd \in cmds
    PROVE  s \in Does(cmds)
  <1> DEFINE c == call[s]
  <1>1. PICK S : c \in Seq(S)
    BY CallStack DEF FramesOK
  <1>2. call'[s] = Tail(c)
    BY OwnWays
  <1>3. Tail(c) # c
    <2>1. c # <<>>
      OBVIOUS
    <2> HIDE DEF c
    <2>2. Len(Tail(c)) = Len(c) - 1 /\ Len(c) \in Nat
      BY <1>1, <2>1, RestOf
    <2>3. \A x \in Nat : x - 1 # x
      OBVIOUS
    <2> QED
      BY <2>2, <2>3
  <1> QED
    BY <1>2, <1>3 DEF Does

\* What goes, goes where the command aimed.
RemovedAsNamed(e) == \E s \in Does({"rm", "mv"}) : e \in PlacesIn(disk, line[s].at)

\* An entry that is aimed at is one of the places in the place named.
LEMMA AimedPlaces ==
    ASSUME NEW d, IsStore(d), NEW w, Path(d, w), NEW e, NEW n, Has(d, Last(w).cluster, n),
           Passes(w, e) \/ e = <<Last(w).cluster, n>>
    PROVE  <<Last(w).cluster, n>> \in PlacesIn(d, e)
  BY PassesInside, PlacesAre

\* Everything that goes is such an entry.
AllGone == \A e \in GonePlaces : RemovedAsNamed(e)

\* Where the disk loses nothing there is nothing to show.
LEMMA NothingGone ==
    ASSUME GonePlaces = {} PROVE AllGone
  BY DEF AllGone

\* An entry <<p, n>> goes at most, of the top of a path the command aimed at.
LEMMA OneGone ==
    ASSUME Served, Served', CallsInv, NEW s \in Shells, call[s] # <<>>, Return(s), Kills(line[s]),
           NEW w, Path(disk, w), NEW n, Shrinks(disk, disk', Last(w).cluster, n),
           Passes(w, line[s].at) \/ line[s].at = <<Last(w).cluster, n>>
    PROVE  AllGone
  <1> DEFINE p == Last(w).cluster
             e == line[s].at
  <1>1. IsStore(disk) /\ IsStore(disk')
    BY DEF Served, OwnershipInv
  <1> SUFFICES ASSUME NEW x \in GonePlaces PROVE RemovedAsNamed(x)
    BY DEF AllGone
  <1>2. x = <<p, n>> /\ Has(disk, p, n)
    BY <1>1, ShrinksOn DEF GonePlaces
  <1>3. x \in PlacesIn(disk, e)
    <2> HIDE DEF e
    <2>1. Passes(w, e) \/ e = <<Last(w).cluster, n>>
      BY DEF e
    <2> QED
      BY <1>1, <1>2, <2>1, AimedPlaces
  <1>4. s \in Does({"rm", "mv"})
    BY ReturnDoes DEF Kills
  <1> QED
    BY <1>3, <1>4 DEF RemovedAsNamed

\* rm's last component: the file or the empty directory it names.
LEMMA RemoveLastNamed ==
    ASSUME Served, CallsInv, PathInv, AimedInv, NEW s \in Shells, RemoveLast(s) PROVE AllGone
  <1> DEFINE f == Head(call[s])
             p == ClusterNumber(f.cwd)
             n == Head(f.rest)
  <1>0. In(s, {"rm"}, "name") /\ "rm" \in Loops
    BY DEF RemoveLast, Loops
  <1>1. /\ call[s] # <<>> /\ f.fn = "rm"
        /\ Good(disk, dts, dts[s], line[s], f) /\ f.rest \in Seq(Parts) /\ f.rest # <<>>
        /\ p = Last(f.walk).cluster /\ Path(disk, f.walk) /\ n \in Names
    BY <1>0, LoopNowIn
  <1>2. /\ SysDelete(p, n) /\ Len(f.rest) = 1
        /\ DeleteCode(p, n) = 2 \/ Return(s)
    BY DEF RemoveLast, IsLast
  <1>3. p \in Clusters /\ f.walk # <<>> /\ n = f.rest[1]
    BY <1>1, PathHas, RestOf
  <1>4. Kills(line[s])
    BY <1>1, <1>2, RemovedIsDoomed
  <1>5. Passes(f.walk, line[s].at) \/ line[s].at = <<p, n>>
    <2>1. Aimed(disk, dts[s], line[s], f)
      BY <1>1, <1>4, AimedBelow
    <2> QED
      BY <1>1, <1>2, <1>3, <1>4, <2>1, AimedLast
  <1> HIDE DEF p, n
  <1>6. Served' /\ Shrinks(disk, disk', p, n) /\ (DeleteCode(p, n) # 0 => UNCHANGED vars)
    BY <1>1, <1>2, <1>3, DeleteShrinks
  <1>7. CASE DeleteCode(p, n) = 2
    BY <1>6, <1>7, NothingGone DEF vars, GonePlaces
  <1>8. CASE Return(s)
    BY <1>1, <1>4, <1>5, <1>6, <1>8, OneGone
  <1> QED
    BY <1>2, <1>7, <1>8

\* The directory that has been emptied is removed from the one that holds it.
LEMMA FlushEndNamed ==
    ASSUME Served, CallsInv, PathInv, AimedInv, NEW s \in Shells, FlushEnd(s) PROVE AllGone
  <1> DEFINE f == Head(call[s])
             w == Front(f.walk)
             p == f.holder
             n == f.name
             e == line[s].at
  <1>1. /\ call[s] # <<>> /\ f.fn = "flush" /\ FlushFrame(f)
        /\ FlushGood(disk, dts, line[s], f) /\ Path(disk, f.walk)
        /\ Path(disk, w) /\ Last(w).cluster = p
    BY FlushNow DEF FlushEnd
  <1>2. SysDelete(p, n) /\ Return(s)
    BY DEF FlushEnd
  <1>3. p \in Clusters /\ n \in Names
    BY <1>1 DEF FlushFrame
  <1>4. Kills(line[s])
    BY <1>1 DEF FlushGood
  <1>5. Passes(f.walk, e)
    BY <1>1, <1>4, AimedBelow DEF Aimed
  <1>6. Passes(w, e) \/ e = <<Last(w).cluster, n>>
    <2> DEFINE v == f.walk
    <2>1. /\ v \in Seq(Links) /\ Len(v) \in Nat /\ Len(v) > 0 /\ Last(v) = v[Len(v)]
          /\ Len(w) \in Nat /\ Len(w) > 0 /\ Last(w) = w[Len(w)]
      BY <1>1, PathHas
    <2>2. Len(w) = Len(v) - 1 /\ \A i \in 1 .. Len(v) - 1 : w[i] = v[i]
      BY <2>1, FrontIs
    <2>3. n = v[Len(v)].name
      BY <1>1, <2>1 DEF FlushGood
    <2>4. Passes(v, e)
      BY <1>5
    <2> HIDE DEF v, w, n, e
    <2>5. Len(v) = Len(w) + 1 /\ \A i \in 1 .. Len(w) : v[i] = w[i]
      BY <2>1, <2>2
    <2>6. Passes(w, e) \/ e = <<w[Len(w)].cluster, v[Len(v)].name>>
      BY <2>1, <2>4, <2>5, PassesLonger
    <2> QED
      BY <2>1, <2>3, <2>6
  <1> HIDE DEF p, n, w
  <1>7. Served' /\ Shrinks(disk, disk', p, n)
    BY <1>2, <1>3, DeleteShrinks
  <1> QED
    BY <1>1, <1>2, <1>4, <1>6, <1>7, OneGone

\* Among the children of what rm removes there is no file.
LEMMA FlushChildNamed ==
    ASSUME Served, CallsInv, PathInv, NEW s \in Shells, FlushChild(s) PROVE AllGone
  <1> DEFINE f == Head(call[s])
  <1>1. FlushGood(disk, dts, line[s], f)
    BY FlushNow DEF FlushChild
  <1>2. PICK n \in f.left : IF f.table.entries[n].dir THEN UNCHANGED vars ELSE SysDelete(f.holder, n)
    BY DEF FlushChild
  <1>3. UNCHANGED vars
    BY <1>1, <1>2 DEF FlushGood
  <1> QED
    BY <1>3, NothingGone DEF vars, GonePlaces

\* The steps of a command, all of them.
LEMMA StepNamed ==
    ASSUME Served, CallsInv, PathInv, AimedInv, NEW s \in Shells, Step(s) PROVE AllGone
  <1>1. CASE UNCHANGED vars
    BY <1>1, NothingGone DEF vars, GonePlaces
  <1>2. CASE Served' /\ \E p \in Clusters, n \in Names, isdir \in BOOLEAN : Grows(disk, disk', p, n, isdir)
    <2>1. IsStore(disk) /\ IsStore(disk')
      BY <1>2 DEF Served, OwnershipInv
    <2>2. EntriesOn(disk) \subseteq EntriesOn(disk')
      BY <1>2, <2>1, GrowsOn
    <2> QED
      BY <2>2, NothingGone DEF GonePlaces
  <1> QED
    BY <1>1, <1>2, StepGrows, RemoveLastNamed, FlushChildNamed, FlushEndNamed

\* What disappears is what a running rm or mv named when it was typed, or lies in it:
\* the recursion through the children, and mv's rm of its source, end at these places.
THEOREM RemovesTheNamed == ASSUME Slips = {} PROVE ShellSpec => RemovesWhatIsNamed
  <1>1. RemovesInv /\ [ShellNext]_shvars => [AllGone]_shvars
    <2> SUFFICES ASSUME RemovesInv, ShellNext PROVE AllGone
      OBVIOUS
    <2>1. Served /\ CallsInv /\ PathInv /\ AimedInv
      BY DEF RemovesInv, ServedInv, ShellInv
    <2>2. CASE Restart
      BY <2>2, NothingGone DEF Restart, GonePlaces
    <2>3. ASSUME NEW s \in Shells, Type(s) PROVE AllGone
      BY <2>3, NothingGone DEF Type, vars, GonePlaces
    <2>4. ASSUME NEW s \in Shells, Step(s) PROVE AllGone
      BY <2>1, <2>4, StepNamed
    <2> QED
      BY <2>2, <2>3, <2>4 DEF ShellNext
  <1> QED
    BY <1>1, InitRemovesInv, NextRemovesInv, PTL DEF ShellSpec, RemovesWhatIsNamed, AllGone, RemovedAsNamed

-----------------------------------------------------------------------------
\* What a table says of the way to it.

\* The directory above the top of a stack; the root is above itself.
Above(w) == IF Len(w) > 1 THEN w[Len(w) - 1] ELSE Last(w)

\* The table of the top of a path is known by its link,
LEMMA TopTable ==
    ASSUME NEW d, IsStore(d), NEW w, Path(d, w)
    PROVE  ReadTable(d, Last(w).cluster).self = Last(w)
  <1>1. /\ Len(w) \in Nat /\ Len(w) > 0 /\ Last(w) = w[Len(w)] /\ Last(w) \in Links /\ w[1] = RootLink
    <2>1. Len(w) \in 1 .. Len(w)
      BY PathHas
    <2> QED
      BY <2>1, PathHas DEF Path, StackOK
  <1>2. CASE Len(w) > 1
    <2> DEFINE p == w[Len(w) - 1].cluster
               top == Last(w)
    <2>1. Leads(d, p, top.name, top.cluster) /\ p \in Clusters
      BY <1>2, PathFront
    <2>2. top = Link(top.name, top.cluster)
      BY <1>1, LinkFields
    <2> HIDE DEF p, top
    <2>3. <<p, top.name>> \in EntriesOn(d)
      BY <2>1, HasIsEntry DEF Leads
    <2>4. ReadTable(d, top.cluster).self = Link(top.name, top.cluster)
      BY <2>1, <2>3 DEF IsStore, Linked, ClusterOf, Leads
    <2> QED
      BY <2>2, <2>4 DEF top
  <1>3. CASE ~(Len(w) > 1)
    <2>1. \A x \in Nat : x > 0 /\ ~(x > 1) => x = 1
      OBVIOUS
    <2>2. Last(w) = RootLink
      BY <1>1, <1>3, <2>1
    <2>3. Last(w).cluster = ROOT_CLUSTER_NUMBER
      BY <2>2 DEF RootLink, Link
    <2> QED
      BY <2>2, <2>3 DEF IsStore, Linked
  <1> QED
    BY <1>2, <1>3

\* and so is the one above.
LEMMA ParentTable ==
    ASSUME NEW d, IsStore(d), NEW w, Path(d, w)
    PROVE  ReadTable(d, Last(w).cluster).parent = Above(w)
  <1>1. /\ Len(w) \in Nat /\ Len(w) > 0 /\ Last(w) = w[Len(w)] /\ Last(w) \in Links /\ w[1] = RootLink
    <2>1. Len(w) \in 1 .. Len(w)
      BY PathHas
    <2> QED
      BY <2>1, PathHas DEF Path, StackOK
  <1>2. CASE Len(w) > 1
    <2> DEFINE a == w[Len(w) - 1]
               p == a.cluster
               top == Last(w)
    <2>1. /\ Leads(d, p, top.name, top.cluster) /\ p \in Clusters
          /\ Path(d, Front(w)) /\ Last(Front(w)) = a
      BY <1>2, PathFront
    <2>2. Above(w) = a
      BY <1>2 DEF Above
    <2>3. ReadTable(d, p).self = a
      BY <2>1, TopTable
    <2> HIDE DEF p, top, a
    <2>4. <<p, top.name>> \in EntriesOn(d)
      BY <2>1, HasIsEntry DEF Leads
    <2>5. ReadTable(d, top.cluster).parent = ReadTable(d, p).self
      BY <2>1, <2>4 DEF IsStore, Linked, ClusterOf, Leads
    <2> QED
      BY <2>2, <2>3, <2>5 DEF top
  <1>3. CASE ~(Len(w) > 1)
    <2>1. \A x \in Nat : x > 0 /\ ~(x > 1) => x = 1
      OBVIOUS
    <2>2. Last(w) = RootLink
      BY <1>1, <1>3, <2>1
    <2>3. Last(w).cluster = ROOT_CLUSTER_NUMBER
      BY <2>2 DEF RootLink, Link
    <2> QED
      BY <1>3, <2>2, <2>3 DEF IsStore, Linked, Above
  <1> QED
    BY <1>2, <1>3

-----------------------------------------------------------------------------
\* What keeps a command from getting lost: what cp and mv look for is there, and a
\* directory they copy goes to a place where it can be made.

\* Directory p has room for an entry.
RoomIn(d, p) == Cardinality(DOMAIN ReadTable(d, p).entries) < DIRECTORY_ENTRIES

\* The destination, where it is a directory, takes the source.
OntoFree(d, w, l) ==
    LET t == Follow(d, w, l.dest)
    IN  t # <<>> => ~Has(d, Last(t).cluster, Last(l.path)) /\ RoomIn(d, Last(t).cluster)

\* Table t, read a while ago, has no entry that is not there still.
Covers(d, t) ==
    \A n \in DOMAIN t.entries : Has(d, t.self.cluster, n) /\ EntryOf(d, t.self.cluster, n) = t.entries[n]

\* The source is there, and cp takes it for what it is; a directory holds no files, and
\* has a free place to go to.
FineSource(d, w, l, f) ==
    LET top == Last(w)
        e == EntryOf(d, top.cluster, f.name)
    IN  /\ l.path = <<f.name>> /\ f.rest = l.path /\ f.walk = w /\ f.to = l.dest
        /\ Up \notin Range(l.dest) /\ Rootless(l.dest)
        /\ f.name \notin {top.name, Above(w).name}
        /\ Has(d, top.cluster, f.name)
        /\ f.at = "name" => f.dir = {e.dir}
        /\ e.dir => l.alone /\ NoFiles(d, e.cluster) /\ OntoFree(d, w, l)

\* cp is on the way to the destination its line names.
FineDest(d, w, l, f) ==
    /\ l.path = <<f.name>> /\ Up \notin Range(l.dest) /\ Led(d, w, [path |-> l.dest], f)
    /\ f.at \in {"into", "put", "copied"} => f.rest = <<>>
    /\ ~f.isfile => /\ l.alone /\ Clean(d, f.want) /\ Covers(d, f.want) /\ f.want.self.name = f.name
                    /\ f.at # "copied" => OntoFree(d, w, l)

\* cp_helper is at the destination or in it, with a table of directories.
CopyGoing(d, w, l, f) ==
    LET target == Destination(d, w, l)
    IN  /\ l.alone /\ Clean(d, f.want) /\ Covers(d, f.want)
        /\ Rootless(l.dest) /\ Follow(d, w, l.dest) # <<>>
        /\ <<f.into, f.want.self.name>> = target \/ f.into \in InsideOf(d, target)

\* The directory it makes there is new, and holds nothing but what it has copied.
FineCopy(d, w, l, f) ==
    LET name == f.want.self.name
    IN  /\ CopyGoing(d, w, l, f)
        /\ f.at = "make" => ~Has(d, f.into, name) /\ RoomIn(d, f.into) /\ f.into \in Tables(d)
        /\ f.at = "open" => \E c \in Clusters : Leads(d, f.into, name, c) /\ \A m : ~Has(d, c, m)
        /\ f.at = "each" => /\ Leads(d, f.into, name, f.new)
                            /\ \A m : Has(d, f.new, m) => m \in DOMAIN f.want.entries \ f.left

\* What is asked of a frame,
Fine(d, w, l, f) ==
    /\ f.fn \in {"mkdir", "cat"} => /\ l.cmd = f.fn /\ (f.rest # <<>> => Led(d, w, l, f))
                                    /\ f.at = "write" => Len(f.rest) = 1
    /\ f.fn = "source" => FineSource(d, w, l, f)
    /\ f.fn = "dest" => FineDest(d, w, l, f)
    /\ f.fn = "copy" => FineCopy(d, w, l, f)
    /\ f.fn # "lost"

\* cp_helper, in frame a, makes what frame b waits for: in the directory b made, and
\* in its top an entry that b has taken from its list.
Over(d, a, b) ==
    a.fn = "copy" =>
      /\ b.fn = "dest" => b.at = "copied"
      /\ b.fn = "copy" => /\ b.at = "each"
                          /\ \E r : Reach(d, b.new, r, a.into)
                          /\ a.into = b.new => a.want.self.name \in DOMAIN b.want.entries \ b.left

\* of a command,
FineCall(d, w, l, c) ==
    /\ \A f \in FramesOf(c) : Fine(d, w, l, f)
    /\ \A a, b : Atop(c, a, b) => Over(d, a, b)

\* and of all shells.
FineInv == \A s \in Shells : FineCall(disk, dts[s], line[s], call[s])

-----------------------------------------------------------------------------
\* A step keeps this when it keeps it for the frames it leaves.
FineOn(s) == FineCall(disk', dts[s], line[s], call'[s])

\* What waits below the frame that runs stays so,
FineWaits(s) == FineCall(disk', dts[s], line[s], Tail(call[s]))

\* and frame f may run there.
FineTop(s, f) == /\ Fine(disk', dts[s], line[s], f)
                 /\ \A b \in FramesOf(Tail(call[s])) : Over(disk', f, b)

\* What is needed of the other functions.
Easy(f) == f.fn \in {"cd", "rm", "flush", "scan", "find"}

\* cd, rm and find are never lost.
LEMMA FineEasy ==
    ASSUME NEW f, Easy(f)
    PROVE  \A d, w, l : Fine(d, w, l, f) /\ \A b : Over(d, f, b)
  BY DEF Easy, Fine, Over

\* A shell that runs nothing is fine.
LEMMA FineNothing == \A d, w, l : FineCall(d, w, l, <<>>)
  BY FewFrames DEF FineCall

\* The frame that runs, and those that wait.
LEMMA FineBelow ==
    ASSUME CallsInv, FineInv, NEW s \in Shells, call[s] # <<>>
    PROVE  /\ Fine(disk, dts[s], line[s], Head(call[s]))
           /\ FineCall(disk, dts[s], line[s], Tail(call[s]))
           /\ \A b \in FramesOf(Tail(call[s])) : Over(disk, Head(call[s]), b)
  <1> DEFINE c == call[s]
  <1>1. PICK S : c \in Seq(S)
    BY CallStack DEF FramesOK
  <1>2. /\ Head(c) \in FramesOf(c) /\ FramesOf(Tail(c)) \subseteq FramesOf(c)
        /\ \A a, b : Atop(Tail(c), a, b) => Atop(c, a, b)
        /\ \A b \in FramesOf(Tail(c)) : Atop(c, Head(c), b)
    <2> HIDE DEF c
    <2> QED
      BY <1>1, FramesAre DEF c
  <1>3. FineCall(disk, dts[s], line[s], c)
    BY DEF FineInv
  <1> HIDE DEF c
  <1> QED
    BY <1>2, <1>3 DEF FineCall, c

\* Where the disk stays what waits stays as it is.
LEMMA FineSame ==
    ASSUME CallsInv, FineInv, NEW s \in Shells, call[s] # <<>>, disk' = disk
    PROVE  FineWaits(s) /\ \A b \in FramesOf(Tail(call[s])) : Over(disk', Head(call[s]), b)
  BY FineBelow DEF FineWaits

\* Below the outermost frame there is nothing.
LEMMA FineOutermost ==
    ASSUME NEW s, Tail(call[s]) = <<>>
    PROVE  FineWaits(s) /\ \A f : Fine(disk', dts[s], line[s], f) => FineTop(s, f)
  <1>1. FramesOf(Tail(call[s])) = {}
    BY FewFrames
  <1>2. FineWaits(s)
    BY FineNothing DEF FineWaits
  <1>3. ASSUME NEW f, Fine(disk', dts[s], line[s], f) PROVE FineTop(s, f)
    BY <1>1, <1>3 DEF FineTop
  <1> QED
    BY <1>2, <1>3

\* The call returns or goes on with one frame,
LEMMA FineOne ==
    ASSUME CallsInv, NEW s \in Shells, call[s] # <<>>, FineWaits(s), NEW f,
           call'[s] = Tail(call[s]) \/ (call'[s] = <<f>> \o Tail(call[s]) /\ FineTop(s, f))
    PROVE  FineOn(s)
  <1> DEFINE c == call[s]
             t == Tail(c)
             e == disk'
  <1>1. PICK S : c \in Seq(S)
    BY CallStack DEF FramesOK
  <1>2. /\ FramesOf(<<f>> \o t) \subseteq {f} \cup FramesOf(t)
        /\ \A a, b : Atop(<<f>> \o t, a, b) => (a = f /\ b \in FramesOf(t)) \/ Atop(t, a, b)
    <2> HIDE DEF c
    <2> QED
      BY <1>1, FramesAre DEF c
  <1>3. CASE call'[s] = t
    BY <1>3 DEF FineWaits, FineOn
  <1>4. CASE call'[s] = <<f>> \o t /\ FineTop(s, f)
    <2>1. /\ FineCall(e, dts[s], line[s], t)
          /\ Fine(e, dts[s], line[s], f) /\ \A b \in FramesOf(t) : Over(e, f, b)
      BY <1>4 DEF FineWaits, FineTop
    <2> HIDE DEF t, e
    <2>2. FineCall(e, dts[s], line[s], <<f>> \o t)
      BY <1>2, <2>1 DEF FineCall
    <2> QED
      BY <1>4, <2>2 DEF FineOn, e, t
  <1>5. call'[s] = t \/ (call'[s] = <<f>> \o t /\ FineTop(s, f))
    OBVIOUS
  <1> QED
    BY <1>3, <1>4, <1>5

\* or with two.
LEMMA FineTwo ==
    ASSUME CallsInv, NEW s \in Shells, call[s] # <<>>, FineWaits(s), NEW f, NEW g,
           call'[s] = <<f, g>> \o Tail(call[s]), FineTop(s, f), FineTop(s, g), Over(disk', f, g)
    PROVE  FineOn(s)
  <1> DEFINE c == call[s]
             t == Tail(c)
             e == disk'
  <1>1. PICK S : c \in Seq(S)
    BY CallStack DEF FramesOK
  <1>2. /\ FramesOf(<<f, g>> \o t) \subseteq {f, g} \cup FramesOf(t)
        /\ \A a, b : Atop(<<f, g>> \o t, a, b) =>
             (a = f /\ b = g) \/ (a \in {f, g} /\ b \in FramesOf(t)) \/ Atop(t, a, b)
    <2> HIDE DEF c
    <2> QED
      BY <1>1, FramesAre DEF c
  <1>3. /\ FineCall(e, dts[s], line[s], t) /\ Over(e, f, g)
        /\ Fine(e, dts[s], line[s], f) /\ \A b \in FramesOf(t) : Over(e, f, b)
        /\ Fine(e, dts[s], line[s], g) /\ \A b \in FramesOf(t) : Over(e, g, b)
    BY DEF FineWaits, FineTop
  <1>4. call'[s] = <<f, g>> \o t
    OBVIOUS
  <1> HIDE DEF t, e
  <1>5. FineCall(e, dts[s], line[s], <<f, g>> \o t)
    BY <1>2, <1>3 DEF FineCall
  <1> QED
    BY <1>4, <1>5 DEF FineOn, e

\* What others make disturbs no command that is not alone.
LEMMA FineFrameCalm ==
    ASSUME NEW d, DiskOK(d), NEW e, DiskOK(e), NEW p, NEW n, NEW isdir, Grows(d, e, p, n, isdir),
           NEW w, Path(d, w), NEW l, ~l.alone, NEW f, Fine(d, w, l, f), f.fn \in Loops => Path(d, f.walk)
    PROVE  Fine(e, w, l, f)
  <1>0. w \in Seq(Links) /\ Last(w).cluster \in Clusters
    BY PathHas
  <1>1. ASSUME NEW k, f.fn \in Loops, Led(d, w, k, f) PROVE Led(e, w, k, f)
    BY <1>0, <1>1, PathHas, LedGrows
  <1>2. {"mkdir", "cat", "source", "dest"} \subseteq Loops
    BY DEF Loops
  <1>3. CASE f.fn \in {"mkdir", "cat"}
    BY <1>1, <1>2, <1>3 DEF Fine
  <1>4. CASE f.fn = "source"
    <2> DEFINE top == Last(w)
    <2>1. FineSource(d, w, l, f)
      BY <1>4 DEF Fine
    <2>2. Has(d, top.cluster, f.name) /\ ~EntryOf(d, top.cluster, f.name).dir
      BY <2>1 DEF FineSource
    <2>3. Has(e, top.cluster, f.name) /\ EntryOf(e, top.cluster, f.name) = EntryOf(d, top.cluster, f.name)
      BY <1>0, <2>2 DEF Grows
    <2>4. FineSource(e, w, l, f)
      BY <2>1, <2>2, <2>3 DEF FineSource
    <2> QED
      BY <1>4, <2>4 DEF Fine
  <1>5. CASE f.fn = "dest"
    <2>1. FineDest(d, w, l, f)
      BY <1>5 DEF Fine
    <2>2. Led(e, w, [path |-> l.dest], f)
      BY <1>1, <1>2, <1>5, <2>1 DEF FineDest
    <2>3. FineDest(e, w, l, f)
      BY <2>1, <2>2 DEF FineDest
    <2> QED
      BY <1>5, <2>3 DEF Fine
  <1>6. CASE f.fn = "copy"
    BY <1>6 DEF Fine, FineCopy, CopyGoing
  <1>7. CASE f.fn \notin {"mkdir", "cat", "source", "dest", "copy"}
    BY <1>7 DEF Fine
  <1> QED
    BY <1>3, <1>4, <1>5, <1>6, <1>7

\* The command of another shell as a whole.
LEMMA FineCalm ==
    ASSUME NEW d, DiskOK(d), NEW e, DiskOK(e), NEW p, NEW n, NEW isdir, Grows(d, e, p, n, isdir),
           NEW w, Path(d, w), NEW l, ~l.alone, NEW c, FineCall(d, w, l, c),
           \A f \in FramesOf(c) : f.fn \in Loops => Path(d, f.walk)
    PROVE  FineCall(e, w, l, c)
  <1>1. ASSUME NEW f \in FramesOf(c) PROVE Fine(e, w, l, f)
    <2>1. Fine(d, w, l, f) /\ (f.fn \in Loops => Path(d, f.walk))
      BY DEF FineCall
    <2> QED
      BY <2>1, FineFrameCalm
  <1>2. ASSUME NEW a, NEW b, Atop(c, a, b) PROVE Over(e, a, b)
    <2>1. a \in FramesOf(c)
      BY <1>2 DEF Atop, FramesOf
    <2>2. a.fn # "copy"
      BY <2>1 DEF FineCall, Fine, FineCopy, CopyGoing
    <2> QED
      BY <2>2 DEF Over
  <1> QED
    BY <1>1, <1>2 DEF FineCall

\* Who is alone runs beside nobody.
LEMMA OthersNotAlone ==
    ASSUME PathInv, NEW s \in Shells, call[s] # <<>>, NEW z \in Shells, z # s, call[z] # <<>>
    PROVE  ~line[z].alone
  <1>1. s \in Running
    BY DEF Running
  <1> QED
    BY <1>1 DEF PathInv, Apart

\* The loops of a shell stand on paths.
LEMMA FramesOnPaths ==
    ASSUME PathInv, NEW s \in Shells, NEW f \in FramesOf(call[s])
    PROVE  Good(disk, dts, dts[s], line[s], f) /\ (f.fn \in Loops => Path(disk, f.walk))
  BY DEF PathInv, AllGood, FramesOf, Good

\* So it is enough to look at the shell that takes the step.
LEMMA FineKept ==
    ASSUME Served, CallsInv, PathInv, FineInv, NEW s \in Shells, Step(s), FineOn(s) PROVE FineInv'
  <1>1. OwnStep(s) /\ call[s] # <<>>
    BY StepIsOwn
  <1>0. DiskOK(disk)
    BY StoreServed
  <1> SUFFICES ASSUME NEW z \in Shells PROVE FineCall(disk', dts'[z], line'[z], call'[z])
    BY DEF FineInv
  <1>2. CASE z = s
    <2>1. CASE call'[s] = <<>>
      BY <1>2, <2>1, FineNothing
    <2>2. CASE call'[s] # <<>>
      <3>1. line'[s] = line[s] /\ dts'[s] = dts[s]
        BY <1>1, <2>2 DEF OwnStep
      <3> QED
        BY <1>2, <3>1 DEF FineOn
    <2> QED
      BY <2>1, <2>2
  <1>3. CASE z # s
    <2>1. call'[z] = call[z] /\ line'[z] = line[z] /\ dts'[z] = dts[z]
      BY <1>1, <1>3 DEF OwnStep
    <2>2. FineCall(disk, dts[z], line[z], call[z])
      BY DEF FineInv
    <2>3. CASE call[z] = <<>>
      BY <2>1, <2>3, FineNothing
    <2>4. CASE call[z] # <<>>
      <3>1. ~line[z].alone /\ ~Kills(line[s])
        BY <1>1, <1>3, <2>4, OthersNotAlone, OthersCalm
      <3>2. Path(disk, dts[z]) /\ \A f \in FramesOf(call[z]) : f.fn \in Loops => Path(disk, f.walk)
        BY FramesOnPaths DEF PathInv
      <3>3. CASE UNCHANGED vars
        BY <2>1, <2>2, <3>3 DEF vars
      <3>4. CASE Served' /\ \E p \in Clusters, n \in Names, isdir \in BOOLEAN : Grows(disk, disk', p, n, isdir)
        <4>1. DiskOK(disk')
          BY <3>4 DEF Served, OwnershipInv, IsStore
        <4>2. FineCall(disk', dts[z], line[z], call[z])
          BY <1>0, <2>2, <3>1, <3>2, <3>4, <4>1, FineCalm
        <4> QED
          BY <2>1, <4>2
      <3>5. ~(RemoveLast(s) \/ FlushChild(s) \/ FlushEnd(s))
        <4>1. ASSUME RemoveLast(s) PROVE FALSE
          <5> DEFINE f == Head(call[s])
          <5>1. In(s, {"rm"}, "name") /\ "rm" \in Loops /\ Len(f.rest) = 1
            BY <4>1 DEF RemoveLast, Loops, IsLast
          <5>2. f.fn = "rm" /\ Good(disk, dts, dts[s], line[s], f)
            BY <5>1, LoopNowIn
          <5> QED
            BY <3>1, <5>1, <5>2, RemovedIsDoomed
        <4>2. ASSUME FlushChild(s) \/ FlushEnd(s) PROVE FALSE
          <5>1. In(s, {"flush"}, "each")
            BY <4>2 DEF FlushChild, FlushEnd
          <5> QED
            BY <3>1, <5>1, FlushNow DEF FlushGood
        <4> QED
          BY <4>1, <4>2
      <3> QED
        BY <3>3, <3>4, <3>5, StepGrows
    <2> QED
      BY <2>3, <2>4
  <1> QED
    BY <1>2, <1>3

-----------------------------------------------------------------------------
\* The steps that leave the disk alone.
LEMMA FineReturns ==
    ASSUME CallsInv, FineInv, NEW s \in Shells, call[s] # <<>>, UNCHANGED vars, Return(s) PROVE FineOn(s)
  <1>1. disk' = disk
    BY DEF vars
  <1>2. FineWaits(s) /\ call'[s] = Tail(call[s])
    BY <1>1, FineSame, OwnWays
  <1> QED
    BY <1>2, FineOne

\* A frame takes the place of the one that ran.
LEMMA FineGoesOn ==
    ASSUME CallsInv, FineInv, NEW s \in Shells, call[s] # <<>>, UNCHANGED vars, NEW g,
           call'[s] = <<g>> \o Tail(call[s]), Fine(disk, dts[s], line[s], g),
           \A b \in FramesOf(Tail(call[s])) : Over(disk, g, b)
    PROVE  FineOn(s)
  <1>1. disk' = disk
    BY DEF vars
  <1>2. FineWaits(s) /\ FineTop(s, g)
    BY <1>1, FineSame DEF FineTop
  <1> QED
    BY <1>2, FineOne

\* All frames but cp_helper's run on anything.
LEMMA FineStays ==
    ASSUME CallsInv, FineInv, NEW s \in Shells, call[s] # <<>>, UNCHANGED vars, NEW g, g.fn # "copy",
           GoOn(s, <<g>>), Fine(disk, dts[s], line[s], g)
    PROVE  FineOn(s)
  <1>1. call'[s] = <<g>> \o Tail(call[s])
    BY OwnWays
  <1>2. \A d, b : Over(d, g, b)
    BY DEF Over
  <1> QED
    BY <1>1, <1>2, FineGoesOn

\* Whether a loop is Led depends on its rest and its stack.
LEMMA LedLike ==
    ASSUME NEW d, NEW w, NEW l, NEW f, Led(d, w, l, f), NEW g, g.rest = f.rest, g.walk = f.walk
    PROVE  Led(d, w, l, g)
  BY DEF Led

\* What is left of a path is part of it.
LEMMA LedPart ==
    ASSUME NEW d, NEW w, NEW l, NEW f, Led(d, w, l, f), f.rest # <<>>
    PROVE  Head(f.rest) \in Range(l.path)
  <1> DEFINE q == l.path
  <1>1. q \in Seq(Parts \ {RootName})
    BY DEF Led, Rootless
  <1>2. PICK k \in 0 .. Len(q) : f.rest = SubSeq(q, k + 1, Len(q))
    BY DEF Led
  <1> HIDE DEF q
  <1>3. k < Len(q) /\ Head(f.rest) = q[k + 1]
    <2>1. f.rest = <<>> <=> k = Len(q)
      BY <1>1, <1>2, PathParts
    <2>2. k < Len(q)
      BY <1>1, <2>1
    <2> QED
      BY <1>1, <1>2, <2>2, PathParts
  <1>4. k + 1 \in DOMAIN q
    BY <1>1, <1>3
  <1> QED
    BY <1>3, <1>4 DEF Range, q

\* The loops go on to the next component.
LEMMA FineLoop ==
    ASSUME Served, CallsInv, PathInv, FineInv, NEW s \in Shells, GoUp(s) \/ Stay(s) \/ Enter(s)
    PROVE  FineOn(s)
  <1> DEFINE f == Head(call[s])
             w == dts[s]
             l == line[s]
  <1>1. /\ call[s] # <<>> /\ f.fn \in Loops /\ UNCHANGED vars
        /\ Path(disk, f.walk) /\ f.rest # <<>> /\ f.rest \in Seq(Parts)
        /\ \/ Return(s)
           \/ \E g : GoOn(s, <<g>>) /\ LoopWay(disk, f, g)
    BY LoopGoes
  <1>2. Fine(disk, w, l, f) /\ DiskOK(disk) /\ w \in Seq(Links)
    BY <1>1, FineBelow, StoreServed, PathHas DEF PathInv
  <1>3. f.fn \in {"source", "dest"} => f.name \in Names
    <2>1. FrameOK(f)
      BY CallStack, <1>1, FramesReplaced
    <2> QED
      BY <2>1 DEF FrameOK, SourceFrame, DestFrame
  <1>4. f.at # "copied"
    BY DEF GoUp, Stay, Enter, In
  <1>5. CASE Return(s)
    BY <1>1, <1>5, FineReturns
  <1>6. ASSUME NEW g, GoOn(s, <<g>>), LoopWay(disk, f, g) PROVE FineOn(s)
    <2> HIDE DEF f
    <2>1. Fine(disk, w, l, g)
      <3>1. CASE f.fn \in {"mkdir", "cat"}
        <4>1. l.cmd = f.fn /\ Led(disk, w, l, f)
          BY <1>1, <1>2, <3>1 DEF Fine
        <4>2. g.fn = f.fn /\ g.rest = Tail(f.rest) /\ g.walk = PathStep(disk, f.walk, Head(f.rest)) /\ g.at = "peek"
          BY <1>6, <3>1 DEF LoopWay
        <4>3. Led(disk, w, l, g)
          BY <1>1, <1>2, <4>1, <4>2, LedStep
        <4> QED
          BY <3>1, <4>1, <4>2, <4>3 DEF Fine
      <3>2. CASE f.fn = "source"
        <4>1. f.rest = <<f.name>> /\ f.name \in Names
          BY <1>2, <1>3, <3>2 DEF Fine, FineSource
        <4>2. Len(f.rest) = 1 /\ Head(f.rest) = f.name
          BY <4>1
        <4> QED
          BY <1>6, <3>2, <4>1, <4>2 DEF LoopWay
      <3>3. CASE f.fn = "dest"
        <4> DEFINE k == [path |-> l.dest]
        <4>1. FineDest(disk, w, l, f)
          BY <1>2, <3>3 DEF Fine
        <4>2. Led(disk, w, k, f) /\ Up \notin Range(k.path)
          BY <4>1 DEF FineDest
        <4>3. Head(f.rest) # Up
          BY <1>1, <4>2, LedPart
        <4>4. /\ g.fn = "dest" /\ g.rest = Tail(f.rest) /\ g.walk = PathStep(disk, f.walk, Head(f.rest))
              /\ g.at = "peek" \/ (g.at = "into" /\ Len(f.rest) = 1)
              /\ g.name = f.name /\ g.isfile = f.isfile /\ g.want = f.want
          BY <1>6, <3>3, <4>3 DEF LoopWay
        <4>5. Led(disk, w, k, g)
          BY <1>1, <1>2, <4>2, <4>4, LedStep
        <4>6. g.at = "into" => g.rest = <<>>
          BY <1>1, <4>4, RestOf
        <4>7. FineDest(disk, w, l, g)
          BY <1>4, <4>1, <4>4, <4>5, <4>6 DEF FineDest, f
        <4> QED
          BY <4>4, <4>7 DEF Fine
      <3>4. CASE f.fn \in {"cd", "rm"}
        <4>1. g.fn = f.fn
          BY <1>6 DEF LoopWay
        <4> QED
          BY <3>4, <4>1, FineEasy DEF Easy
      <3> QED
        BY <1>1, <3>1, <3>2, <3>3, <3>4 DEF Loops
    <2>2. g.fn # "copy"
      <3>1. "copy" \notin Loops
        BY DEF Loops
      <3> QED
        BY <1>1, <1>6, <3>1 DEF LoopWay
    <2> QED
      BY <1>1, <1>6, <2>1, <2>2, FineStays
  <1> QED
    BY <1>1, <1>5, <1>6

\* cp's source is there, and is found.
LEMMA FineExamine ==
    ASSUME Served, CallsInv, PathInv, FineInv, NEW s \in Shells, Examine(s) PROVE FineOn(s)
  <1> DEFINE f == Head(call[s])
             t == Peeked(f)
             n == Head(f.rest)
             w == dts[s]
             l == line[s]
  <1>1. /\ call[s] # <<>> /\ f.fn \in Loops /\ f.at = "peek" /\ UNCHANGED vars
        /\ Path(disk, f.walk) /\ f.rest # <<>> /\ n \in Names
        /\ Known(t) /\ t = ReadTable(disk, Last(f.walk).cluster) /\ t.self = Last(f.walk)
        /\ \/ Lose(s) /\ f.fn = "source" /\ ~Found(t, n)
           \/ \E g : GoOn(s, <<g>>) /\ ExamineWay(t, f, g)
    BY ExamineGoes
  <1>2. Fine(disk, w, l, f)
    BY <1>1, FineBelow
  <1>3. ASSUME f.fn = "source"
        PROVE  /\ n = f.name /\ Found(t, n)
               /\ EntryIn(t, n) = EntryOf(disk, Last(w).cluster, f.name)
    <2>1. FineSource(disk, w, l, f)
      BY <1>2, <1>3 DEF Fine
    <2>2. /\ f.rest = <<f.name>> /\ f.walk = w /\ f.name \notin {Last(w).name, Above(w).name}
          /\ Has(disk, Last(w).cluster, f.name)
      BY <2>1 DEF FineSource
    <2>3. t = ReadTable(disk, Last(w).cluster) /\ n = f.name
      BY <1>1, <2>2
    <2>4. t.self = Last(w) /\ t.parent = Above(w)
      BY <1>1, <2>2, <2>3, StoreServed, ParentTable
    <2> HIDE DEF f, t, n
    <2>5. n \in DOMAIN t.entries
      BY <2>2, <2>3 DEF Has
    <2>6. n \notin {t.self.name, t.parent.name}
      BY <2>2, <2>3, <2>4
    <2>7. EntryIn(t, n) = t.entries[n] /\ Found(t, n)
      BY <2>5, <2>6 DEF EntryIn, Found
    <2> QED
      BY <2>3, <2>7 DEF EntryOf
  <1>4. ~(Lose(s) /\ f.fn = "source" /\ ~Found(t, n))
    BY <1>3
  <1>5. PICK g : GoOn(s, <<g>>) /\ ExamineWay(t, f, g)
    BY <1>1, <1>4
  <1>6. /\ g.fn = f.fn /\ g.at = "name" /\ g.rest = f.rest /\ g.walk = f.walk
        /\ f.fn \in {"source", "dest"} => g.name = f.name
        /\ f.fn = "source" => g.to = f.to /\ g.dir = {EntryIn(t, n).dir}
        /\ f.fn = "dest" => g.isfile = f.isfile /\ g.want = f.want
    BY <1>3, <1>5 DEF ExamineWay
  <1> HIDE DEF f, t, n
  <1>7. Fine(disk, w, l, g)
    <2>1. CASE f.fn \in {"mkdir", "cat"}
      BY <1>1, <1>2, <1>6, <2>1, LedLike DEF Fine
    <2>2. CASE f.fn = "source"
      <3>1. FineSource(disk, w, l, f)
        BY <1>2, <2>2 DEF Fine
      <3>2. FineSource(disk, w, l, g)
        BY <1>3, <1>6, <2>2, <3>1 DEF FineSource
      <3> QED
        BY <1>6, <2>2, <3>2 DEF Fine
    <2>3. CASE f.fn = "dest"
      <3>1. FineDest(disk, w, l, f)
        BY <1>2, <2>3 DEF Fine
      <3>2. Led(disk, w, [path |-> l.dest], g)
        BY <1>6, <3>1, LedLike DEF FineDest
      <3>3. FineDest(disk, w, l, g)
        BY <1>1, <1>6, <2>3, <3>1, <3>2 DEF FineDest
      <3> QED
        BY <1>6, <2>3, <3>3 DEF Fine
    <2>4. CASE f.fn \in {"cd", "rm"}
      BY <1>6, <2>4, FineEasy DEF Easy
    <2> QED
      BY <1>1, <2>1, <2>2, <2>3, <2>4 DEF Loops
  <1>8. g.fn # "copy" /\ call[s] # <<>>
    <2>1. "copy" \notin Loops
      BY DEF Loops
    <2> QED
      BY <1>1, <1>6, <2>1
  <1> QED
    BY <1>1, <1>5, <1>7, <1>8, FineStays

-----------------------------------------------------------------------------
\* The frames that wait are fine.
LEMMA EasyOne ==
    ASSUME CallsInv, NEW s \in Shells, call[s] # <<>>, FineWaits(s), NEW f, Easy(f),
           call'[s] = Tail(call[s]) \/ call'[s] = <<f>> \o Tail(call[s])
    PROVE  FineOn(s)
  <1>1. FineTop(s, f)
    BY FineEasy DEF FineTop
  <1> QED
    BY <1>1, FineOne

\* The same with two frames.
LEMMA EasyTwo ==
    ASSUME CallsInv, NEW s \in Shells, call[s] # <<>>, FineWaits(s), NEW f, Easy(f), NEW g, Easy(g),
           call'[s] = <<f, g>> \o Tail(call[s])
    PROVE  FineOn(s)
  <1>1. FineTop(s, f) /\ FineTop(s, g) /\ Over(disk', f, g)
    BY FineEasy DEF FineTop
  <1> QED
    BY <1>1, FineTwo

\* Those below rm are its own.
LEMMA RemovingWaits ==
    ASSUME CallsInv, PathInv, NEW s \in Shells, call[s] # <<>>, Head(call[s]).fn \in {"rm", "flush"}
    PROVE  FineWaits(s)
  <1> DEFINE t == Tail(call[s])
  <1>1. OnTop(Head(call[s]), t)
    BY PathsHave
  <1>2. \A b \in FramesOf(t) : b.fn = "flush"
    BY <1>1 DEF OnTop, Under, FramesOf
  <1>3. \A b \in FramesOf(t) : Fine(disk', dts[s], line[s], b) /\ \A c : Over(disk', b, c)
    <2>1. SUFFICES ASSUME NEW b \in FramesOf(t)
                   PROVE  Fine(disk', dts[s], line[s], b) /\ \A c : Over(disk', b, c)
      OBVIOUS
    <2>2. Easy(b)
      BY <1>2 DEF Easy
    <2> QED
      BY <2>2, FineEasy
  <1>4. \A a, b : Atop(t, a, b) => a \in FramesOf(t)
    BY DEF Atop, FramesOf
  <1>5. FineCall(disk', dts[s], line[s], t)
    <2> HIDE DEF t
    <2> QED
      BY <1>3, <1>4 DEF FineCall
  <1> QED
    BY <1>5 DEF FineWaits

\* The turns that end the loop.
LEMMA FineEnds ==
    ASSUME Served, CallsInv, PathInv, FineInv, NEW s \in Shells, Refuse(s) \/ EndOfPath(s)
    PROVE  FineOn(s)
  <1>1. call[s] # <<>> /\ UNCHANGED vars
    BY DEF Refuse, EndOfPath, In
  <1>2. CASE Return(s)
    BY <1>1, <1>2, FineReturns
  <1>3. CASE call' = [call EXCEPT ![s] = <<>>]
    <2>1. call'[s] = <<>>
      BY <1>3 DEF CallsInv
    <2> QED
      BY <2>1, FineNothing DEF FineOn
  <1> QED
    BY <1>2, <1>3 DEF Refuse, EndOfPath

-----------------------------------------------------------------------------
\* mkdir and cat.
LEMMA FineLook ==
    ASSUME Served, CallsInv, PathInv, FineInv, NEW s \in Shells, Look(s) PROVE FineOn(s)
  <1> DEFINE f == Head(call[s])
             g == [f EXCEPT !.at = "write"]
  <1>0. In(s, {"mkdir"}, "name") /\ "mkdir" \in Loops
    BY DEF Look, Loops
  <1>1. /\ call[s] # <<>> /\ f.fn = "mkdir" /\ {"fn", "at", "rest", "walk", "cwd"} \subseteq DOMAIN f
        /\ f.rest # <<>>
    BY <1>0, LoopNowIn
  <1>2. UNCHANGED vars /\ Len(f.rest) = 1 /\ (Return(s) \/ GoOn(s, <<g>>))
    BY DEF Look, IsLast
  <1>3. CASE Return(s)
    BY <1>1, <1>2, <1>3, FineReturns
  <1>4. CASE GoOn(s, <<g>>)
    <2>1. g.fn = "mkdir" /\ g.rest = f.rest /\ g.walk = f.walk
      BY <1>1
    <2>2. Fine(disk, dts[s], line[s], f)
      BY <1>1, FineBelow
    <2>3. line[s].cmd = "mkdir" /\ Led(disk, dts[s], line[s], f)
      BY <1>1, <2>2 DEF Fine
    <2> HIDE DEF f, g
    <2>4. Led(disk, dts[s], line[s], g)
      BY <2>1, <2>3, LedLike
    <2>5. Fine(disk, dts[s], line[s], g)
      BY <1>2, <2>1, <2>3, <2>4 DEF Fine
    <2> QED
      BY <1>1, <1>2, <1>4, <2>1, <2>5, FineStays
  <1> QED
    BY <1>2, <1>3, <1>4

\* mkdir makes its directory and is done.
LEMMA FineMakes ==
    ASSUME Served, CallsInv, PathInv, NEW s \in Shells, MakeDirectory(s) PROVE FineOn(s)
  <1>0. In(s, {"mkdir"}, "write") /\ "mkdir" \in Loops
    BY DEF MakeDirectory, Loops
  <1>1. call[s] # <<>> /\ Head(call[s]).fn = "mkdir"
    BY <1>0 DEF In
  <1>2. Tail(call[s]) = <<>>
    BY <1>0, <1>1, LoopOutermost
  <1>3. Return(s)
    BY DEF MakeDirectory
  <1>4. call'[s] = <<>>
    BY <1>1, <1>2, <1>3, OwnWays
  <1> QED
    BY <1>4, FineNothing DEF FineOn

\* cat shows its file and is done.
LEMMA FineShow ==
    ASSUME Served, CallsInv, PathInv, FineInv, NEW s \in Shells, Show(s) PROVE FineOn(s)
  <1> DEFINE f == Head(call[s])
             g == Advanced(f)
  <1>0. In(s, {"cat"}, "name") /\ "cat" \in Loops
    BY DEF Show, Loops
  <1>1. /\ call[s] # <<>> /\ f.fn = "cat" /\ {"fn", "at", "rest", "walk", "cwd"} \subseteq DOMAIN f
        /\ f.rest # <<>> /\ f.rest \in Seq(Parts)
    BY <1>0, LoopNowIn
  <1>2. UNCHANGED vars /\ Len(f.rest) = 1
    BY DEF Show, IsLast
  <1>3. Return(s) \/ call' = [call EXCEPT ![s] = <<g>> \o Tail(call[s])]
    BY DEF Show
  <1>4. CASE Return(s)
    BY <1>1, <1>2, <1>4, FineReturns
  <1>5. CASE call' = [call EXCEPT ![s] = <<g>> \o Tail(call[s])]
    <2>0. call'[s] = <<g>> \o Tail(call[s])
      BY <1>5 DEF CallsInv
    <2>1. g.fn = "cat" /\ g.rest = Tail(f.rest) /\ g.at = "peek"
      BY <1>1 DEF Advanced
    <2>2. Tail(f.rest) = <<>>
      BY <1>1, <1>2, RestOf
    <2>3. Fine(disk, dts[s], line[s], f)
      BY <1>1, FineBelow
    <2>4. line[s].cmd = "cat"
      BY <1>1, <2>3 DEF Fine
    <2> HIDE DEF f, g
    <2>5. Fine(disk, dts[s], line[s], g)
      BY <2>1, <2>2, <2>4 DEF Fine
    <2>6. \A b : Over(disk, g, b)
      BY <2>1 DEF Over
    <2> QED
      BY <1>1, <1>2, <2>0, <2>5, <2>6, FineGoesOn
  <1> QED
    BY <1>3, <1>4, <1>5

-----------------------------------------------------------------------------
\* rm.
LEMMA FineRemove ==
    ASSUME Served, CallsInv, PathInv, NEW s \in Shells, RemoveLast(s) \/ OpenRemoved(s) PROVE FineOn(s)
  <1> DEFINE f == Head(call[s])
  <1>1. PICK at \in {"name", "open"} : In(s, {"rm"}, at)
    BY DEF RemoveLast, OpenRemoved
  <1>2. /\ call[s] # <<>> /\ f.fn = "rm" /\ {"fn", "at"} \subseteq DOMAIN f
    <2>1. "rm" \in Loops /\ at # "peek"
      BY DEF Loops
    <2> QED
      BY <1>1, <2>1, LoopNowIn
  <1>3. FineWaits(s)
    BY <1>2, RemovingWaits
  <1> DEFINE g == [f EXCEPT !.at = "open"]
             h == Flush(f, ReadDirectory(ClusterNumber(f.cwd), Head(f.rest)))
  <1>4. Easy(g) /\ Easy(h)
    BY <1>2 DEF Easy, Flush
  <1>5. Return(s) \/ GoOn(s, <<g>>) \/ GoOn(s, <<h>>)
    BY DEF RemoveLast, OpenRemoved
  <1> HIDE DEF g, h
  <1>6. call'[s] = Tail(call[s]) \/ call'[s] = <<g>> \o Tail(call[s]) \/ call'[s] = <<h>> \o Tail(call[s])
    BY <1>2, <1>5, OwnWays
  <1> QED
    BY <1>2, <1>3, <1>4, <1>6, EasyOne

\* The children of what is removed, and the directory itself.
LEMMA FineFlush ==
    ASSUME Served, CallsInv, PathInv, NEW s \in Shells, FlushChild(s) \/ FlushEnd(s) PROVE FineOn(s)
  <1> DEFINE f == Head(call[s])
  <1>1. In(s, {"flush"}, "each")
    BY DEF FlushChild, FlushEnd
  <1>2. call[s] # <<>> /\ f.fn = "flush" /\ {"fn", "at"} \subseteq DOMAIN f
    BY <1>1, FlushNow
  <1>3. FineWaits(s)
    BY <1>2, RemovingWaits
  <1>4. CASE FlushEnd(s)
    <2>1. Return(s)
      BY <1>4 DEF FlushEnd
    <2>2. call'[s] = Tail(call[s])
      BY <1>2, <2>1, OwnWays
    <2>3. Easy(f)
      BY <1>2 DEF Easy
    <2> QED
      BY <1>2, <1>3, <2>2, <2>3, EasyOne
  <1>5. CASE FlushChild(s)
    <2>1. PICK n : \/ GoOn(s, <<Loop("rm", <<n>>, f.walk), [f EXCEPT !.left = @ \ {n}]>>)
                   \/ GoOn(s, <<[f EXCEPT !.left = @ \ {n}]>>)
      BY <1>5 DEF FlushChild
    <2> DEFINE g == [f EXCEPT !.left = @ \ {n}]
               h == Loop("rm", <<n>>, f.walk)
    <2>2. Easy(g) /\ Easy(h)
      BY <1>2 DEF Easy, Loop
    <2> HIDE DEF g, h
    <2>3. call'[s] = <<h, g>> \o Tail(call[s]) \/ call'[s] = <<g>> \o Tail(call[s])
      BY <1>2, <2>1, OwnWays DEF g, h
    <2> QED
      BY <1>2, <1>3, <2>2, <2>3, EasyOne, EasyTwo
  <1> QED
    BY <1>4, <1>5

-----------------------------------------------------------------------------
\* find.
LEMMA FineScan ==
    ASSUME Served, CallsInv, PathInv, FineInv, NEW s \in Shells,
           PeekScan(s) \/ ScanEntry(s) \/ ScanOn(s) \/ ScanEnd(s)
    PROVE  FineOn(s)
  <1> DEFINE f == Head(call[s])
             r == Tail(call[s])
  <1>1. PICK at : In(s, {"scan"}, at)
    BY DEF PeekScan, ScanEntry, ScanOn, ScanEnd
  <1>2. /\ call[s] # <<>> /\ f.fn = "scan" /\ {"fn", "at", "name", "walk", "cwd", "first", "seen"} \subseteq DOMAIN f
        /\ Peeked(f) = ReadTable(disk, Last(f.walk).cluster)
    BY <1>1, ScanNow
  <1>3. disk' = disk /\ Peeked(f) # Unread
    <2>1. Peeked(f) # Unread
      BY <1>2 DEF ReadTable, Table, Unread
    <2>2. UNCHANGED vars
      BY DEF PeekScan, ScanEntry, ScanOn, ScanEnd
    <2> QED
      BY <2>1, <2>2 DEF vars
  <1>4. FineWaits(s)
    BY <1>2, <1>3, FineSame
  <1>5. CASE PeekScan(s) \/ ScanOn(s)
    <2> DEFINE g == [f EXCEPT !.at = "each", !.cwd = Peeked(f), !.first = DOMAIN Peeked(f).entries]
               h == [f EXCEPT !.at = "each", !.cwd = Peeked(f)]
    <2>1. GoOn(s, <<g>>) \/ GoOn(s, <<h>>)
      BY <1>3, <1>5 DEF PeekScan, ScanOn
    <2>2. Easy(g) /\ Easy(h)
      BY <1>2 DEF Easy
    <2> HIDE DEF g, h
    <2>3. call'[s] = <<g>> \o r \/ call'[s] = <<h>> \o r
      BY <1>2, <2>1, OwnWays
    <2> QED
      BY <1>2, <1>4, <2>2, <2>3, EasyOne
  <1>6. CASE ScanEntry(s)
    <2> DEFINE p == ClusterNumber(f.cwd)
    <2>1. PICK n : LET t == ReadDirectory(p, n)
                       g == [f EXCEPT !.seen = @ \cup {n}]
                   IN  call' = [call EXCEPT ![s] =
                         IF ~f.cwd.entries[n].dir THEN <<g>> \o Tail(@)
                         ELSE IF Reads(p, n)
                           THEN <<Scan(f.name, Pushed(f.walk, t)), [g EXCEPT !.at = "back", !.cwd = t]>> \o Tail(@)
                           ELSE Tail(@)]
      BY <1>6 DEF ScanEntry
    <2> DEFINE t == ReadDirectory(p, n)
               g == [f EXCEPT !.seen = @ \cup {n}]
               b == [g EXCEPT !.at = "back", !.cwd = t]
               h == Scan(f.name, Pushed(f.walk, t))
    <2>2. call'[s] = r \/ call'[s] = <<g>> \o r \/ call'[s] = <<h, b>> \o r
      BY <2>1 DEF CallsInv
    <2>3. Easy(g) /\ Easy(h) /\ Easy(b)
      BY <1>2 DEF Easy, Scan
    <2> HIDE DEF g, b, h
    <2> QED
      BY <1>2, <1>4, <2>2, <2>3, EasyOne, EasyTwo
  <1>7. CASE ScanEnd(s)
    BY <1>2, <1>7, FineReturns DEF ScanEnd
  <1> QED
    BY <1>5, <1>6, <1>7

\* find at the root, and at its end.
LEMMA FineFind ==
    ASSUME CallsInv, PathInv, FineInv, NEW s \in Shells, FindRoot(s) \/ FindEnd(s) PROVE FineOn(s)
  <1> DEFINE f == Head(call[s])
             g == [f EXCEPT !.at = "done"]
  <1>1. call[s] # <<>> /\ f.fn = "find"
    BY DEF FindRoot, FindEnd, In
  <1>2. CASE FindEnd(s)
    BY <1>1, <1>2, FineReturns DEF FindEnd
  <1>3. CASE FindRoot(s)
    <2>1. call'[s] = <<g>>
      BY <1>3 DEF FindRoot, CallsInv
    <2>2. {"fn", "at"} \subseteq DOMAIN f
      <3>1. FrameOK(f)
        BY CallStack, <1>1, FramesReplaced
      <3> QED
        BY <3>1 DEF FrameOK
    <2>3. Easy(g)
      BY <1>1, <2>2 DEF Easy
    <2> HIDE DEF g
    <2>4. Fine(disk', dts[s], line[s], g)
      BY <2>3, FineEasy
    <2> QED
      BY <2>1, <2>4, FewFrames DEF FineOn, FineCall
  <1> QED
    BY <1>2, <1>3

-----------------------------------------------------------------------------
\* cp and mv, up to where cp_helper starts.

\* A directory is read whole, and is fit to be copied when there is no file below it.
LEMMA TableRead ==
    ASSUME Served, NEW p \in Clusters, NEW n, ~MakesRoot(p, n), NEW c, Leads(disk, p, n, c)
    PROVE  LET t == ReadDirectory(p, n)
           IN  /\ Reads(p, n) /\ Known(t) /\ t.self = Link(n, c) /\ t.self.name = n /\ t.self.cluster = c
               /\ t = ReadTable(disk, c) /\ Covers(disk, t)
               /\ NoFiles(disk, c) => Clean(disk, t)
  <1> DEFINE t == ReadDirectory(p, n)
             x == t.self.cluster
  <1>1. Reads(p, n)
    BY LedIsRead
  <1>2. Known(t) /\ x \in Clusters /\ t.self = Link(n, x) /\ Leads(disk, p, n, x) /\ t = ReadTable(disk, x)
    BY <1>1, ReadBelow
  <1>3. x = c
    BY <1>2 DEF Leads
  <1>4. t.self.name = n /\ t.self.cluster = c
    BY <1>2, <1>3 DEF Link
  <1> HIDE DEF t, x
  <1>5. Covers(disk, t)
    BY <1>2, <1>3, <1>4 DEF Covers, Has, EntryOf
  <1>6. NoFiles(disk, c) => Clean(disk, t)
    BY <1>2, <1>3, <1>4, CleanTable
  <1>7. t.self = Link(n, c) /\ t = ReadTable(disk, c)
    BY <1>2, <1>3
  <1> QED
    BY <1>1, <1>2, <1>4, <1>5, <1>6, <1>7 DEF t

\* What an entry is.
LEMMA EntryKind ==
    ASSUME NEW d, IsStore(d), NEW p \in Clusters, NEW n, Has(d, p, n)
    PROVE  /\ EntryOf(d, p, n).dir \in BOOLEAN /\ EntryOf(d, p, n).cluster \in Clusters /\ n \in Names
           /\ EntryOf(d, p, n).size \in Sizes \cup {0}
  <1> DEFINE x == <<p, n>>
  <1>1. x \in EntriesOn(d) /\ x[1] = p /\ x[2] = n /\ DiskOK(d)
    BY HasIsEntry DEF IsStore
  <1> HIDE DEF x
  <1>2. EntryOf(d, x[1], x[2]) \in [dir: BOOLEAN, cluster: Clusters, size: Sizes \cup {0}] /\ x[2] \in Names
    BY <1>1, EntryTypes
  <1> QED
    BY <1>1, <1>2

\* cp goes to its destination with what it found.
Taken(f, w, p, g) ==
    \E size, data, other :
      g = IF f.dir = {FALSE} THEN Dest(f, w, TRUE, size, data, other)
          ELSE Dest(f, w, FALSE, 0, Junk, IF Reads(p, f.name) THEN ReadDirectory(p, f.name) ELSE f.cwd)

\* What it found is what it takes there.
LEMMA FineTakes ==
    ASSUME NEW w, Path(disk, w), Served, NEW l, NEW f, FineSource(disk, w, l, f), f.name \in Names, f.name # RootName,
           f.dir = {EntryOf(disk, Last(w).cluster, f.name).dir}, NEW p, p = Last(w).cluster, NEW g, Taken(f, w, p, g)
    PROVE  FineDest(disk, w, l, g) /\ g.fn = "dest"
  <1>0. PICK size, data, other :
          g = IF f.dir = {FALSE} THEN Dest(f, w, TRUE, size, data, other)
              ELSE Dest(f, w, FALSE, 0, Junk, IF Reads(p, f.name) THEN ReadDirectory(p, f.name) ELSE f.cwd)
    BY DEF Taken
  <1> DEFINE n == f.name
             e == EntryOf(disk, p, n)
             c == e.cluster
             k == [path |-> l.dest]
  <1>1. IsStore(disk) /\ DiskOK(disk) /\ w \in Seq(Links) /\ p \in Clusters
    BY StoreServed, PathHas
  <1>2. /\ l.path = <<n>> /\ f.to = l.dest /\ Up \notin Range(l.dest) /\ Rootless(l.dest)
        /\ Has(disk, p, n) /\ (e.dir => l.alone /\ NoFiles(disk, c) /\ OntoFree(disk, w, l))
    BY DEF FineSource
  <1>3. g.fn = "dest" /\ g.at = "peek" /\ g.rest = k.path /\ g.walk = w /\ g.name = n
    BY <1>0, <1>2 DEF Dest
  <1>4. Led(disk, w, k, g)
    <2>1. Rootless(k.path)
      BY <1>2
    <2> HIDE DEF k
    <2> QED
      BY <1>1, <1>3, <2>1, LedStart
  <1>5. e.dir \in BOOLEAN
    BY <1>1, <1>2, EntryKind
  <1>6. ASSUME ~g.isfile
        PROVE  /\ l.alone /\ Clean(disk, g.want) /\ Covers(disk, g.want) /\ g.want.self.name = n
               /\ OntoFree(disk, w, l)
    <2>1. f.dir # {FALSE}
      BY <1>0, <1>6 DEF Dest
    <2>2. e.dir
      BY <1>5, <2>1
    <2>3. Leads(disk, p, n, c) /\ ~MakesRoot(p, n)
      BY <1>2, <2>2 DEF Leads, MakesRoot
    <2> DEFINE t == ReadDirectory(p, n)
    <2>4. Reads(p, n) /\ t.self.name = n /\ Covers(disk, t) /\ (NoFiles(disk, c) => Clean(disk, t))
      BY <1>1, <2>3, TableRead
    <2>5. g.want = t
      BY <1>0, <2>1, <2>4 DEF Dest
    <2> HIDE DEF t
    <2> QED
      BY <1>2, <2>2, <2>4, <2>5
  <1> HIDE DEF n, e, c
  <1>7. FineDest(disk, w, l, g)
    BY <1>2, <1>3, <1>4, <1>6 DEF FineDest
  <1> QED
    BY <1>3, <1>7

\* So the step that reads the source keeps it.
LEMMA FineReadSource ==
    ASSUME Served, CallsInv, PathInv, FineInv, NEW s \in Shells, ReadSource(s) PROVE FineOn(s)
  <1> DEFINE f == Head(call[s])
             w == dts[s]
             p == ClusterNumber(f.cwd)
             size == IF f.name \notin Extended /\ Found(f.cwd, f.name)
                     THEN EntryIn(f.cwd, f.name).size ELSE f.size
             g == IF f.dir = {FALSE} THEN Dest(f, w, TRUE, size, Bytes(p, f.name, size), Unread)
                  ELSE Dest(f, w, FALSE, 0, Junk, IF Reads(p, f.name) THEN ReadDirectory(p, f.name) ELSE f.cwd)
  <1>0. In(s, {"source"}, "name") /\ "source" \in Loops
    BY DEF ReadSource, Loops
  <1>1. /\ call[s] # <<>> /\ f.fn = "source" /\ f.at = "name" /\ f.name \in Names
        /\ Good(disk, dts, w, line[s], f) /\ p = Last(f.walk).cluster
    BY <1>0, LoopNowIn
  <1>2. UNCHANGED vars /\ GoOn(s, <<g>>)
    BY <1>1 DEF ReadSource
  <1>3. Fine(disk, w, line[s], f)
    BY <1>1, FineBelow
  <1>4. FineSource(disk, w, line[s], f) /\ f.name # RootName
    BY <1>1, <1>3 DEF Fine, Good
  <1>5. f.walk = w /\ f.dir = {EntryOf(disk, Last(w).cluster, f.name).dir} /\ p = Last(w).cluster
    BY <1>1, <1>4 DEF FineSource
  <1>6. Path(disk, w)
    BY DEF PathInv
  <1>7. FineDest(disk, w, line[s], g) /\ g.fn = "dest"
    <2>1. Taken(f, w, p, g)
      BY DEF Taken
    <2>2. f.name \in Names
      BY <1>1
    <2> DEFINE l == line[s]
    <2>3. FineSource(disk, w, l, f)
      BY <1>4
    <2> HIDE DEF f, w, p, size, g, l
    <2>4. FineDest(disk, w, l, g) /\ g.fn = "dest"
      BY <1>4, <1>5, <1>6, <2>1, <2>2, <2>3, FineTakes
    <2> QED
      BY <2>4 DEF l
  <1> HIDE DEF f, w, g
  <1>8. Fine(disk, w, line[s], g)
    BY <1>7 DEF Fine
  <1> QED
    BY <1>1, <1>2, <1>7, <1>8, FineStays DEF w

\* cp returned: mv's rm may run whatever there is.
LEMMA FineSucceeds ==
    ASSUME CallsInv, NEW s \in Shells, call[s] # <<>>, Tail(call[s]) = <<>>, NEW f, Return(s) \/ Succeed(s, f)
    PROVE  FineOn(s)
  <1> DEFINE g == Loop("rm", <<f.name>>, dts[s])
  <1>1. FineWaits(s)
    BY FineOutermost
  <1>2. Easy(g)
    BY DEF Easy, Loop
  <1>3. call'[s] = Tail(call[s]) \/ call'[s] = <<g>> \o Tail(call[s])
    BY OwnWays
  <1> HIDE DEF g
  <1> QED
    BY <1>1, <1>2, <1>3, EasyOne

\* A file is written, or a directory has been copied: cp is done.
LEMMA FineWrites ==
    ASSUME Served, CallsInv, PathInv, NEW s \in Shells, WriteUnder(s) \/ PutFile(s) \/ Copied(s) PROVE FineOn(s)
  <1>1. PICK at : at # "peek" /\ In(s, {"dest"}, at)
    BY DEF WriteUnder, PutFile, Copied
  <1>2. call[s] # <<>> /\ Tail(call[s]) = <<>>
    BY <1>1, DestNow
  <1>3. Return(s) \/ Succeed(s, Head(call[s]))
    BY DEF WriteUnder, PutFile, Copied
  <1> QED
    BY <1>2, <1>3, FineSucceeds

\* cp looks at the table of the destination it has reached.
LEMMA FinePeekInto ==
    ASSUME Served, CallsInv, PathInv, FineInv, NEW s \in Shells, PeekInto(s) PROVE FineOn(s)
  <1> DEFINE f == Head(call[s])
             w == dts[s]
             l == line[s]
             g == [f EXCEPT !.at = "put", !.cwd = Peeked(f)]
  <1>0. In(s, {"dest"}, "into")
    BY DEF PeekInto
  <1>1. /\ call[s] # <<>> /\ f.fn = "dest" /\ f.at = "into"
        /\ {"fn", "at", "rest", "walk", "cwd"} \subseteq DOMAIN f
        /\ {"name", "mv", "dir", "isfile", "size", "data", "want"} \subseteq DOMAIN f
    BY <1>0, DestNow
  <1>2. UNCHANGED vars /\ GoOn(s, <<g>>)
    BY DEF PeekInto
  <1>3. /\ g.fn = "dest" /\ g.at = "put" /\ g.rest = f.rest /\ g.walk = f.walk /\ g.name = f.name
        /\ g.isfile = f.isfile /\ g.want = f.want
    BY <1>1
  <1>4. Fine(disk, w, l, f)
    BY <1>1, FineBelow
  <1> HIDE DEF g, f
  <1>5. FineDest(disk, w, l, f)
    BY <1>1, <1>4 DEF Fine
  <1>6. Led(disk, w, [path |-> l.dest], g)
    BY <1>3, <1>5, LedLike DEF FineDest
  <1>7. FineDest(disk, w, l, g)
    BY <1>1, <1>3, <1>5, <1>6 DEF FineDest
  <1>8. Fine(disk, w, l, g)
    BY <1>3, <1>7 DEF Fine
  <1> QED
    BY <1>1, <1>2, <1>3, <1>8, FineStays DEF f

\* cp_helper starts in the directory the destination names.
LEMMA FinePutDirectory ==
    ASSUME Served, CallsInv, PathInv, FineInv, NEW s \in Shells, PutDirectory(s) PROVE FineOn(s)
  <1> DEFINE f == Head(call[s])
             w == dts[s]
             l == line[s]
             p == ClusterNumber(f.cwd)
             h == Copy(f.want, p)
             g == [f EXCEPT !.at = "copied"]
             k == [path |-> l.dest]
  <1>0. In(s, {"dest"}, "put") /\ "dest" \in Loops
    BY DEF PutDirectory, Loops
  <1>1. /\ call[s] # <<>> /\ Tail(call[s]) = <<>> /\ f.fn = "dest" /\ f.at = "put"
        /\ {"fn", "at", "rest", "walk", "cwd"} \subseteq DOMAIN f
        /\ {"name", "mv", "dir", "isfile", "size", "data", "want"} \subseteq DOMAIN f
        /\ Path(disk, f.walk) /\ p \in Clusters
    BY <1>0, DestNow
  <1>2. p = Last(f.walk).cluster /\ DiskOK(disk)
    BY <1>0, LoopNowIn
  <1>3. UNCHANGED vars /\ ~f.isfile /\ GoOn(s, <<h, g>>)
    BY DEF PutDirectory
  <1>4. /\ g.fn = "dest" /\ g.at = "copied" /\ g.rest = f.rest /\ g.walk = f.walk /\ g.name = f.name
        /\ g.isfile = f.isfile /\ g.want = f.want
        /\ h.fn = "copy" /\ h.at = "make" /\ h.want = f.want /\ h.into = p
    BY <1>1 DEF Copy
  <1>5. Fine(disk, w, l, f)
    BY <1>1, FineBelow
  <1>6. call'[s] = <<h, g>> \o Tail(call[s])
    BY <1>1, <1>3, OwnWays
  <1> HIDE DEF g, h, f
  <1>7. FineDest(disk, w, l, f)
    BY <1>1, <1>5 DEF Fine
  <1>8. Led(disk, w, k, f) /\ f.rest = <<>> /\ l.path = <<f.name>> /\ l.alone /\ Clean(disk, f.want) /\ Covers(disk, f.want)
        /\ f.want.self.name = f.name /\ OntoFree(disk, w, l) /\ Up \notin Range(l.dest)
    BY <1>1, <1>3, <1>7 DEF FineDest
  <1>9. Follow(disk, w, l.dest) = f.walk
    <2>1. k.path = l.dest
      OBVIOUS
    <2> HIDE DEF k
    <2> QED
      BY <1>8, <2>1, LedEnds
  <1>10. FineDest(disk, w, l, g)
    <2>1. Led(disk, w, k, g)
      BY <1>4, <1>8, LedLike
    <2> QED
      BY <1>3, <1>4, <1>8, <2>1 DEF FineDest
  <1>11. FineCopy(disk, w, l, h)
    <2>1. f.walk # <<>> /\ Last(l.path) = f.name
      BY <1>1, <1>8, PathHas DEF Last
    <2>2. Destination(disk, w, l) = <<p, f.name>>
      BY <1>2, <1>9, <2>1 DEF Destination
    <2>3. ~Has(disk, p, f.name) /\ RoomIn(disk, p)
      BY <1>2, <1>8, <1>9, <2>1 DEF OntoFree
    <2>4. p \in Tables(disk)
      BY <1>1, <1>2, PathTables
    <2>5. Rootless(l.dest)
      BY <1>8 DEF Led
    <2> QED
      BY <1>4, <1>8, <1>9, <2>1, <2>2, <2>3, <2>4, <2>5 DEF FineCopy, CopyGoing
  <1>12. Fine(disk', w, l, g) /\ Fine(disk', w, l, h) /\ Over(disk', h, g)
    <2>1. disk' = disk
      BY <1>3 DEF vars
    <2> QED
      BY <1>4, <1>10, <1>11, <2>1 DEF Fine, Over
  <1>13. FineWaits(s) /\ FineTop(s, g) /\ FineTop(s, h)
    BY <1>1, <1>12, FineOutermost
  <1> QED
    BY <1>1, <1>6, <1>12, <1>13, FineTwo DEF f

-----------------------------------------------------------------------------
\* cp_helper.

\* The directory the destination is in.
LEMMA TargetIn ==
    ASSUME NEW d, DiskOK(d), NEW w \in Seq(Links), NEW l, Rootless(l.dest), Follow(d, w, l.dest) # <<>>
    PROVE  Destination(d, w, l)[1] \in Clusters
  <1> DEFINE to == Follow(d, w, l.dest)
  <1>1. Len(l.dest) \in Nat
    BY DEF Rootless
  <1>2. to \in Seq(Links)
    <2> DEFINE path == l.dest
    <2>1. Len(path) \in Nat /\ Len(path) \in 0 .. Len(path)
      BY <1>1
    <2> HIDE DEF path
    <2>2. Follow(d, w, path) = Trail(d, w, path)[Len(path)]
      BY <2>1, TrailUnfold
    <2>3. Trail(d, w, path)[Len(path)] \in Seq(Links)
      BY <2>1, TrailStacks
    <2> QED
      BY <2>2, <2>3 DEF path
  <1>3. Last(to) \in Links
    BY <1>2 DEF Last
  <1>4. Destination(d, w, l)[1] = Last(to).cluster
    BY DEF Destination
  <1> QED
    BY <1>3, <1>4, LinkFields

\* What is made while it waits leaves a copy where it is going.
LEMMA CopyGoingGrows ==
    ASSUME NEW d, IsStore(d), NEW e, IsStore(e), NEW p, NEW n, Grows(d, e, p, n, TRUE), NEW w \in Seq(Links), NEW l,
           NEW f, CopyGoing(d, w, l, f)
    PROVE  CopyGoing(e, w, l, f)
  <1> DEFINE t == f.want
             to == Follow(d, w, l.dest)
             target == Destination(d, w, l)
  <1>0. DiskOK(d) /\ DiskOK(e) /\ Keeps(d, e)
    BY GrowsKeeps DEF IsStore
  <1>1. Len(l.dest) \in Nat /\ to # <<>>
    BY DEF CopyGoing, Rootless
  <1>2. Follow(e, w, l.dest) = to
    <2> DEFINE path == l.dest
    <2>1. Len(path) \in Nat /\ Follow(d, w, path) # <<>>
      BY <1>1
    <2>2. PICK isdir : Grows(d, e, p, n, isdir)
      OBVIOUS
    <2> HIDE DEF path
    <2>3. Follow(e, w, path) = Follow(d, w, path)
      BY <1>0, <2>1, <2>2, FollowGrows
    <2> QED
      BY <2>3 DEF path
  <1>3. Destination(e, w, l) = target
    BY <1>1, <1>2 DEF Destination
  <1>4. target[1] \in Clusters
    BY <1>0, <1>1, TargetIn DEF CopyGoing
  <1>5. Clean(d, t) /\ Covers(d, t)
    BY DEF CopyGoing
  <1> HIDE DEF t, to, target
  <1>6. Clean(e, t)
    BY <1>5, CleanGrows
  <1>7. Covers(e, t)
    <2>1. t.self.cluster \in Clusters
      BY <1>5, NoFilesFacts DEF Clean
    <2> QED
      BY <1>5, <2>1 DEF Covers, Grows
  <1>8. InsideOf(d, target) \subseteq InsideOf(e, target)
    BY <1>0, <1>4, InsideGrows
  <1> QED
    BY <1>1, <1>2, <1>3, <1>6, <1>7, <1>8 DEF CopyGoing, t, to, target

\* What frame a makes, b has waited for.
LEMMA BelowCopyGrows ==
    ASSUME NEW d, IsStore(d), NEW e, IsStore(e), NEW w \in Seq(Links), NEW l, NEW a, a.fn = "copy",
           NEW p, p = a.into, NEW n, n = a.want.self.name, Grows(d, e, p, n, TRUE),
           NEW b, Fine(d, w, l, b), Over(d, a, b), Under(a, b), b.fn = "dest" => Path(d, b.walk),
           b.fn = "copy" => b.into \in Clusters /\ (b.at = "each" => b.new \in Clusters)
    PROVE  Fine(e, w, l, b) /\ Over(e, a, b)
  <1>0. DiskOK(d) /\ DiskOK(e) /\ Keeps(d, e)
    BY GrowsKeeps DEF IsStore
  <1>1. Over(e, a, b)
    BY <1>0, ReachKept DEF Over
  <1>2. CASE b.fn = "dest"
    <2>1. FineDest(d, w, l, b) /\ b.at = "copied" /\ ~b.isfile
      BY <1>2 DEF Fine, Over, Under
    <2> DEFINE k == [path |-> l.dest]
               t == b.want
    <2>2. Led(d, w, k, b) /\ Clean(d, t) /\ Covers(d, t)
      BY <2>1 DEF FineDest
    <2> HIDE DEF k, t
    <2>3. b.walk # <<>>
      BY <1>2, PathHas
    <2>4. Led(e, w, k, b)
      BY <1>0, <2>2, <2>3, LedGrows
    <2>5. Clean(e, t)
      BY <2>2, CleanGrows
    <2>6. t.self.cluster \in Clusters
      BY <2>2, NoFilesFacts DEF Clean
    <2>7. Covers(e, t)
      BY <2>2, <2>6 DEF Covers, Grows
    <2>8. FineDest(e, w, l, b)
      BY <2>1, <2>4, <2>5, <2>7 DEF FineDest, k, t
    <2> QED
      BY <1>1, <1>2, <2>8 DEF Fine
  <1>3. CASE b.fn = "copy"
    <2> DEFINE m == b.want.self.name
    <2>1. FineCopy(d, w, l, b) /\ b.at = "each" /\ (p = b.new => n \in DOMAIN b.want.entries \ b.left)
      BY <1>3 DEF Fine, Over
    <2>2. CopyGoing(d, w, l, b) /\ Leads(d, b.into, m, b.new)
          /\ \A x : Has(d, b.new, x) => x \in DOMAIN b.want.entries \ b.left
      BY <2>1 DEF FineCopy
    <2>3. CopyGoing(e, w, l, b)
      BY <2>2, CopyGoingGrows
    <2>4. Leads(e, b.into, m, b.new)
      BY <1>3, <2>1, <2>2, LeadsGrows
    <2>5. \A x : Has(e, b.new, x) => Has(d, b.new, x) \/ (b.new = p /\ x = n)
      BY <1>3, <2>1 DEF Grows
    <2>6. \A x : Has(e, b.new, x) => x \in DOMAIN b.want.entries \ b.left
      BY <2>1, <2>2, <2>5
    <2>7. FineCopy(e, w, l, b)
      BY <2>1, <2>3, <2>4, <2>6 DEF FineCopy
    <2> QED
      BY <1>1, <1>3, <2>7 DEF Fine
  <1> QED
    BY <1>2, <1>3 DEF Under

\* The frames below it.
LEMMA CopyBelow ==
    ASSUME CallsInv, PathInv, NEW s \in Shells, call[s] # <<>>, NEW b \in FramesOf(Tail(call[s]))
    PROVE  /\ Under(Head(call[s]), b) /\ (b.fn = "dest" => Path(disk, b.walk))
           /\ b.fn = "copy" => b.into \in Clusters /\ (b.at = "each" => b.new \in Clusters)
  <1> DEFINE a == Head(call[s])
             c == Tail(call[s])
  <1>1. OnTop(a, c) /\ FramesOK(c) /\ \E S : call[s] \in Seq(S)
    BY PathsHave, FramesReplaced, CallStack
  <1>2. PICK i \in DOMAIN c : b = c[i]
    BY DEF FramesOf
  <1>3. Under(a, b)
    BY <1>1, <1>2 DEF OnTop
  <1>4. b \in FramesOf(call[s])
    BY <1>1, FramesAre
  <1>5. b.fn = "dest" => Path(disk, b.walk)
    BY <1>4, FramesOnPaths DEF Loops
  <1>6. FrameOK(b)
    <2>1. PICK S : c \in Seq(S)
      BY <1>1 DEF FramesOK
    <2>2. DOMAIN c = 1 .. Len(c)
      BY <2>1
    <2> QED
      BY <1>1, <1>2, <2>2 DEF FramesOK
  <1>7. b.fn = "copy" => b.into \in Clusters /\ (b.at = "each" => b.new \in Clusters)
    BY <1>6 DEF FrameOK, CopyFrame
  <1> QED
    BY <1>3, <1>5, <1>7

\* So all that waits below cp_helper is as fine as before.
LEMMA CopyWaits ==
    ASSUME Served, Served', CallsInv, PathInv, FineInv, NEW s \in Shells, call[s] # <<>>, Head(call[s]).fn = "copy",
           Grows(disk, disk', Head(call[s]).into, Head(call[s]).want.self.name, TRUE)
    PROVE  FineWaits(s) /\ \A b \in FramesOf(Tail(call[s])) : Over(disk', Head(call[s]), b)
  <1> DEFINE a == Head(call[s])
             c == Tail(call[s])
             w == dts[s]
             l == line[s]
             p == a.into
             n == a.want.self.name
  <1>0. IsStore(disk) /\ IsStore(disk')
    <2>1. IsStore(disk)
      BY StoreServed
    <2>2. IsStore(disk')
      BY NothingMisused, FormattedWhenUsed DEF Served, OwnershipInv
    <2> QED
      BY <2>1, <2>2
  <1>1. w \in Seq(Links)
    BY PathHas DEF PathInv
  <1>2. FineCall(disk, w, l, c) /\ \A b \in FramesOf(c) : Over(disk, a, b)
    BY FineBelow
  <1>4. ASSUME NEW b \in FramesOf(c)
        PROVE  /\ Under(a, b) /\ (b.fn = "dest" => Path(disk, b.walk))
               /\ b.fn = "copy" => b.into \in Clusters /\ (b.at = "each" => b.new \in Clusters)
    BY <1>4, CopyBelow
  <1> HIDE DEF a, c, w, l
  <1>5. ASSUME NEW b \in FramesOf(c) PROVE Fine(disk', w, l, b) /\ Over(disk', a, b)
    <2>1. Fine(disk, w, l, b) /\ Over(disk, a, b)
      BY <1>2 DEF FineCall
    <2> HIDE DEF p, n
    <2>2. a.fn = "copy" /\ p = a.into /\ n = a.want.self.name /\ Grows(disk, disk', p, n, TRUE)
      BY DEF a, p, n
    <2> QED
      BY <1>0, <1>1, <1>4, <2>1, <2>2, BelowCopyGrows
  <1>6. ASSUME NEW x, NEW y, Atop(c, x, y) PROVE Over(disk', x, y)
    <2>1. Over(disk, x, y)
      BY <1>2, <1>6 DEF FineCall
    <2>2. Keeps(disk, disk')
      BY GrowsKeeps DEF a
    <2> QED
      BY <2>1, <2>2, ReachKept DEF Over
  <1>7. FineCall(disk', w, l, c)
    BY <1>5, <1>6 DEF FineCall
  <1> QED
    BY <1>5, <1>7 DEF FineWaits, a, c, w, l

\* Where there is a place for it a directory is made, with nothing in it.
LEMMA DirectoryMade ==
    ASSUME Served, NEW p \in Tables(disk), NEW n \in Names, ~Has(disk, p, n), RoomIn(disk, p),
           SysWrite(p, n, 0, Junk)
    PROVE  \E c \in Clusters : Leads(disk', p, n, c) /\ \A m : ~Has(disk', c, m)
  <1>0. IsStore(disk) /\ DiskOK(disk) /\ OwnershipInv /\ WellUsed
    BY StoreServed, NothingMisused DEF Served
  <1>1. p \in Clusters
    BY <1>0, TablesClosed
  <1>2. IsDirectory(p)
    BY <1>0, IsDirectoryKnows
  <1>3. WriteCode(p, n) = 0
    BY <1>2 DEF WriteCode, HasRoom, RoomIn
  <1>4. WriteDirectory(p, n)
    BY <1>3 DEF SysWrite
  <1>5. losses' = losses
    BY <1>1, <1>4, OperationKeepsStore
  <1> DEFINE c == GetEmptyCluster(fat)
             entry == Entry(TRUE, c, 0)
             g == <<c>>
  <1>6. Adds(disk, disk', p, n, entry, g)
    BY <1>0, <1>1, <1>4, <1>5, WriteDirectoryAdds
  <1>7. entry.dir = TRUE /\ entry.cluster = c
    BY DEF Entry
  <1> HIDE DEF entry, g, c
  <1>8. Has(disk', p, n) /\ EntryOf(disk', p, n) = entry
    BY <1>6 DEF Adds, Has
  <1>9. PICK isdir : isdir = TRUE /\ Grows(disk, disk', p, n, isdir)
    <2> DEFINE size == 0
               data == Junk
               isdir == (size = 0)
    <2>1. size \in Sizes \cup {0} /\ SysWrite(p, n, size, data)
      OBVIOUS
    <2>2. isdir = TRUE
      OBVIOUS
    <2> HIDE DEF size, data
    <2>3. Grows(disk, disk', p, n, isdir)
      BY <1>1, <2>1, WriteGrows
    <2> HIDE DEF isdir
    <2> QED
      BY <2>2, <2>3
  <1>10. c \in Clusters /\ \A m : ~Has(disk', c, m)
    BY <1>7, <1>8, <1>9 DEF Grows
  <1> QED
    BY <1>7, <1>8, <1>10 DEF Leads

\* The directory cp_helper was to make.
LEMMA FineMakeCopy ==
    ASSUME Served, CallsInv, PathInv, FineInv, NEW s \in Shells, MakeCopy(s) PROVE FineOn(s)
  <1> DEFINE f == Head(call[s])
             w == dts[s]
             l == line[s]
             p == f.into
             n == f.want.self.name
             g == [f EXCEPT !.at = "open"]
  <1>1. /\ call[s] # <<>> /\ f.fn = "copy" /\ f.at = "make"
        /\ {"fn", "at", "want", "into", "new", "left"} \subseteq DOMAIN f
        /\ p \in Clusters /\ n \in Names
    BY CopyNow DEF MakeCopy
  <1>2. SysWrite(p, n, 0, Junk) /\ GoOn(s, <<g>>)
    BY DEF MakeCopy
  <1>3. g.fn = "copy" /\ g.at = "open" /\ g.want = f.want /\ g.into = f.into
    BY <1>1
  <1>4. call'[s] = <<g>> \o Tail(call[s])
    BY <1>1, <1>2, OwnWays
  <1>5. Fine(disk, w, l, f)
    BY <1>1, FineBelow
  <1>6. IsStore(disk) /\ w \in Seq(Links)
    BY StoreServed, PathHas DEF PathInv
  <1> HIDE DEF g, f, p, n, w, l
  <1>7. /\ CopyGoing(disk, w, l, f)
        /\ ~Has(disk, p, n) /\ RoomIn(disk, p) /\ p \in Tables(disk)
    BY <1>1, <1>5 DEF Fine, FineCopy, p, n
  <1>8. Served' /\ Grows(disk, disk', p, n, 0 = 0)
    BY <1>1, <1>2, WriteGrows
  <1>9. Grows(disk, disk', p, n, TRUE) /\ IsStore(disk')
    BY <1>8, NothingMisused, FormattedWhenUsed DEF Served, OwnershipInv
  <1>10. PICK c \in Clusters : Leads(disk', p, n, c) /\ \A m : ~Has(disk', c, m)
    BY <1>1, <1>2, <1>7, DirectoryMade
  <1>11. CopyGoing(disk', w, l, f)
    BY <1>6, <1>7, <1>9, CopyGoingGrows
  <1>12. FineCopy(disk', w, l, g)
    BY <1>3, <1>10, <1>11 DEF FineCopy, CopyGoing, p, n
  <1>13. Fine(disk', w, l, g)
    BY <1>3, <1>12 DEF Fine
  <1>14. FineWaits(s) /\ \A b \in FramesOf(Tail(call[s])) : Over(disk', f, b)
    BY <1>1, <1>8, <1>9, CopyWaits DEF f, p, n
  <1>15. FineTop(s, g)
    BY <1>1, <1>3, <1>13, <1>14 DEF FineTop, Over, w, l
  <1> QED
    BY <1>1, <1>4, <1>14, <1>15, FineOne

\* It is opened.
LEMMA FineOpenCopy ==
    ASSUME Served, CallsInv, PathInv, FineInv, NEW s \in Shells, OpenCopy(s) PROVE FineOn(s)
  <1> DEFINE f == Head(call[s])
             w == dts[s]
             l == line[s]
             p == f.into
             n == f.want.self.name
             t == ReadDirectory(p, n)
             g == [f EXCEPT !.at = "each", !.new = ClusterNumber(t), !.left = DOMAIN f.want.entries]
  <1>1. /\ call[s] # <<>> /\ f.fn = "copy" /\ f.at = "open"
        /\ {"fn", "at", "want", "into", "new", "left"} \subseteq DOMAIN f
        /\ p \in Clusters /\ n \in Names
    BY CopyNow DEF OpenCopy
  <1>2. UNCHANGED vars /\ IF Reads(p, n) THEN GoOn(s, <<g>>) ELSE Lose(s)
    BY DEF OpenCopy
  <1>3. /\ g.fn = "copy" /\ g.at = "each" /\ g.want = f.want /\ g.into = f.into
        /\ g.new = ClusterNumber(t) /\ g.left = DOMAIN f.want.entries
    BY <1>1
  <1>4. Fine(disk, w, l, f) /\ \A b \in FramesOf(Tail(call[s])) : Over(disk, f, b)
    BY <1>1, FineBelow
  <1> HIDE DEF g
  <1>5. CopyGoing(disk, w, l, f) /\ \E c \in Clusters : Leads(disk, p, n, c) /\ \A m : ~Has(disk, c, m)
    BY <1>1, <1>4 DEF Fine, FineCopy
  <1>6. PICK c \in Clusters : Leads(disk, p, n, c) /\ \A m : ~Has(disk, c, m)
    BY <1>5
  <1>7. ~MakesRoot(p, n)
    BY <1>6 DEF MakesRoot, PathInv, RootFree
  <1> HIDE DEF p, n
  <1>8. Reads(p, n) /\ Known(t) /\ t.self.cluster = c
    BY <1>1, <1>6, <1>7, TableRead
  <1>9. ClusterNumber(t) = c
    BY <1>8, KnownFacts
  <1> HIDE DEF t
  <1>10. Fine(disk, w, l, g)
    <2>1. FineCopy(disk, w, l, g)
      BY <1>3, <1>5, <1>6, <1>9 DEF FineCopy, CopyGoing, p, n
    <2> QED
      BY <1>3, <2>1 DEF Fine
  <1>11. \A b \in FramesOf(Tail(call[s])) : Over(disk, g, b)
    BY <1>1, <1>3, <1>4 DEF Over
  <1>12. call'[s] = <<g>> \o Tail(call[s])
    BY <1>1, <1>2, <1>8, OwnWays
  <1> QED
    BY <1>1, <1>2, <1>10, <1>11, <1>12, FineGoesOn

\* All its children are copied.
LEMMA FineCopyEnd ==
    ASSUME CallsInv, PathInv, FineInv, NEW s \in Shells, CopyEnd(s) PROVE FineOn(s)
  <1>1. call[s] # <<>> /\ UNCHANGED vars /\ Return(s)
    BY CopyNow DEF CopyEnd
  <1> QED
    BY <1>1, FineReturns

\* The directory a copy makes is one of the disk, and inside the destination.
LEMMA CopyIsInside ==
    ASSUME NEW d, IsStore(d), NEW w \in Seq(Links), NEW l, NEW f, FineCopy(d, w, l, f), f.at = "each", f.into \in Clusters
    PROVE  f.new \in Tables(d) /\ f.new \in InsideOf(d, Destination(d, w, l))
  <1> DEFINE n == f.want.self.name
             target == Destination(d, w, l)
             e == <<f.into, n>>
  <1>1. CopyGoing(d, w, l, f) /\ Leads(d, f.into, n, f.new) /\ DiskOK(d)
    BY DEF FineCopy, IsStore
  <1>2. target[1] \in Clusters
    BY <1>1, TargetIn DEF CopyGoing
  <1>3. f.new \in Clusters /\ n \in Names
    BY <1>1, LedToOnce
  <1>4. f.new \in Tables(d)
    <2>1. e[1] = f.into /\ e[2] = n /\ f.into # NoCluster /\ f.new = EntryOf(d, e[1], e[2]).cluster
      BY <1>1, IsNoCluster DEF Leads
    <2> HIDE DEF e
    <2>2. IsFolder(d, e)
      BY <1>1, <2>1, FolderLeads
    <2> QED
      BY <2>1, <2>2, FolderLeads
  <1>5. CASE e = target
    <2>1. Leads(d, target[1], target[2], f.new)
      BY <1>1, <1>5
    <2>2. Reach(d, f.new, <<>>, f.new)
      BY <1>3, ReachNothing
    <2> HIDE DEF target
    <2>3. f.new \in InsideOf(d, target)
      BY <1>2, <2>1, <2>2, InsideIs
    <2> QED
      BY <1>4, <2>3 DEF target
  <1>6. CASE f.into \in InsideOf(d, target)
    <2> HIDE DEF target
    <2>1. PICK c, r : Leads(d, target[1], target[2], c) /\ Reach(d, c, r, f.into)
      BY <1>2, <1>6, InsideIs
    <2>2. Reach(d, c, Append(r, n), f.new)
      BY <1>1, <1>3, <2>1, ReachAppend
    <2>3. f.new \in InsideOf(d, target)
      BY <1>2, <2>1, <2>2, InsideIs
    <2> QED
      BY <1>4, <2>3 DEF target
  <1> QED
    BY <1>1, <1>5, <1>6 DEF CopyGoing

\* It has room while there is something left to copy.
LEMMA RoomLeft ==
    ASSUME NEW d, DiskOK(d), NEW t, TableOK(t), t.self.cluster \in Clusters, Covers(d, t), NEW z, NEW n \in DOMAIN t.entries,
           \A m : Has(d, z, m) => m \in DOMAIN t.entries \ {n}
    PROVE  RoomIn(d, z)
  <1> DEFINE S1 == DOMAIN ReadTable(d, z).entries
             S2 == DOMAIN t.entries
             S3 == DOMAIN ReadTable(d, t.self.cluster).entries
  <1>1. IsFiniteSet(S3)
    BY ReadTableOK
  <1>2. S2 \subseteq S3
    BY DEF Covers, Has
  <1>3. S1 \subseteq S2 \ {n}
    BY DEF Has
  <1>4. n \in S2 /\ Cardinality(S2) <= DIRECTORY_ENTRIES
    BY DEF TableOK
  <1> HIDE DEF S1, S2, S3
  <1>5. IsFiniteSet(S2)
    BY <1>1, <1>2, FS_Subset
  <1>6. IsFiniteSet(S2 \ {n}) /\ Cardinality(S2 \ {n}) = Cardinality(S2) - 1
    BY <1>4, <1>5, FS_RemoveElement
  <1>7. IsFiniteSet(S1) /\ Cardinality(S1) <= Cardinality(S2 \ {n})
    BY <1>3, <1>6, FS_Subset
  <1>8. Cardinality(S1) \in Nat /\ Cardinality(S2) \in Nat /\ DIRECTORY_ENTRIES \in Nat
    BY <1>5, <1>7, FS_CardinalityType, Fat32Assumption
  <1>9. Cardinality(S1) < DIRECTORY_ENTRIES
    BY <1>4, <1>6, <1>7, <1>8
  <1> QED
    BY <1>9 DEF RoomIn, S1

\* A child: g goes on when copy h of it returns.
ChildCopied(d, f, n, t, h, g) ==
    /\ h.fn = "copy" /\ h.at = "make" /\ h.want = t /\ h.into = f.new
    /\ g.fn = "copy" /\ g.at = "each" /\ g.want = f.want /\ g.into = f.into /\ g.new = f.new
    /\ g.left = f.left \ {n}
    /\ t.self.name = n /\ Covers(d, t) /\ Clean(d, t)

\* Then the copy of the child is fine, and so is the one that waits for it.
LEMMA ChildIsFine ==
    ASSUME NEW d, IsStore(d), NEW w \in Seq(Links), NEW l, NEW f, FineCopy(d, w, l, f), f.at = "each",
           f.into \in Clusters, Known(f.want), f.left \subseteq DOMAIN f.want.entries,
           NEW n \in f.left, NEW t, NEW h, NEW g, ChildCopied(d, f, n, t, h, g)
    PROVE  FineCopy(d, w, l, h) /\ FineCopy(d, w, l, g) /\ Over(d, h, g)
  <1> DEFINE u == f.want
  <1>0. DiskOK(d) /\ CopyGoing(d, w, l, f) /\ \A m : Has(d, f.new, m) => m \in DOMAIN u.entries \ f.left
    BY DEF FineCopy, IsStore
  <1>1. f.new \in Tables(d) /\ f.new \in InsideOf(d, Destination(d, w, l))
    BY CopyIsInside
  <1>2. f.new \in Clusters
    BY <1>0, <1>1, TablesClosed
  <1>3. TableOK(u) /\ u.self.cluster \in Clusters
    BY KnownFacts DEF Known
  <1>4. RoomIn(d, f.new)
    <2> DEFINE z == f.new
    <2>1. Covers(d, u) /\ n \in DOMAIN u.entries /\ \A m : Has(d, z, m) => m \in DOMAIN u.entries \ {n}
      BY <1>0 DEF CopyGoing
    <2> HIDE DEF u, z
    <2>2. RoomIn(d, z)
      BY <1>0, <1>3, <2>1, RoomLeft
    <2> QED
      BY <2>2 DEF z
  <1>5. ~Has(d, f.new, n)
    BY <1>0
  <1>6. CopyGoing(d, w, l, h)
    BY <1>0, <1>1 DEF CopyGoing, ChildCopied
  <1>7. FineCopy(d, w, l, h)
    BY <1>1, <1>4, <1>5, <1>6 DEF FineCopy, ChildCopied
  <1>8. FineCopy(d, w, l, g)
    BY <1>0 DEF FineCopy, CopyGoing, ChildCopied
  <1>9. Over(d, h, g)
    <2>1. Reach(d, f.new, <<>>, f.new)
      BY <1>2, ReachNothing
    <2>2. h.into = f.new /\ g.fn = "copy" /\ g.at = "each" /\ g.new = f.new
          /\ h.want.self.name \in DOMAIN g.want.entries \ g.left
      BY DEF ChildCopied
    <2> QED
      BY <2>1, <2>2 DEF Over
  <1> QED
    BY <1>7, <1>8, <1>9

\* What is made one directory further down is not what the frames below made.
LEMMA OverChild ==
    ASSUME NEW d, IsStore(d), NEW w \in Seq(Links), NEW l, NEW f, FineCopy(d, w, l, f), f.fn = "copy", f.at = "each",
           f.into \in Clusters,
           NEW b, Over(d, f, b), Fine(d, w, l, b), b.fn = "copy" => b.into \in Clusters, b.fn = "copy" \/ b.fn = "dest",
           NEW h, h.fn = "copy", h.into = f.new
    PROVE  Over(d, h, b)
  <1>1. CASE b.fn = "dest"
    BY <1>1 DEF Over
  <1>2. CASE b.fn = "copy"
    <2> DEFINE n == f.want.self.name
    <2>1. FineCopy(d, w, l, b) /\ b.at = "each"
      BY <1>2 DEF Fine, Over
    <2>2. b.new \in Tables(d)
      BY <1>2, <2>1, CopyIsInside
    <2>3. PICK r : Reach(d, b.new, r, f.into)
      BY <1>2 DEF Over
    <2>4. Leads(d, f.into, n, f.new)
      BY DEF FineCopy
    <2>5. n \in Names /\ f.new \in Clusters /\ f.into \in Clusters
      BY <2>3, <2>4, ReachTypes, LedToOnce
    <2>6. Reach(d, b.new, Append(r, n), f.new)
      BY <2>3, <2>4, <2>5, ReachAppend
    <2>7. f.new # b.new
      <3>1. SUFFICES ASSUME f.new = b.new PROVE FALSE
        OBVIOUS
      <3> DEFINE q == Append(r, n)
      <3>2. Reach(d, b.new, <<>>, b.new) /\ Reach(d, b.new, q, b.new)
        BY <2>5, <2>6, <3>1, ReachNothing
      <3> HIDE DEF q
      <3>3. q = <<>>
        <4> DEFINE c == b.new
                   o == <<>>
        <4>1. Reach(d, c, o, c) /\ Reach(d, c, q, c) /\ c \in Tables(d)
          BY <2>2, <3>2
        <4> HIDE DEF c, o
        <4>2. q = o
          BY <4>1, TableOnce
        <4> QED
          BY <4>2 DEF o
      <3>4. r \in Seq(Names)
        BY <2>3, ReachTypes
      <3> HIDE DEF n
      <3>5. Append(r, n) # <<>>
        BY <2>5, <3>4, AppendProperties
      <3> QED
        BY <3>3, <3>5 DEF q
    <2> HIDE DEF n
    <2> QED
      BY <1>2, <2>1, <2>6, <2>7 DEF Over
  <1> QED
    BY <1>1, <1>2
LEMMA FineCopyChild ==
    ASSUME Served, CallsInv, PathInv, FineInv, NEW s \in Shells, CopyChild(s) PROVE FineOn(s)
  <1> DEFINE f == Head(call[s])
             w == dts[s]
             l == line[s]
             u == f.want
             p == ClusterNumber(u)
  <1>1. /\ call[s] # <<>> /\ f.fn = "copy" /\ f.at = "each"
        /\ {"fn", "at", "want", "into", "new", "left"} \subseteq DOMAIN f
        /\ Known(u) /\ f.into \in Clusters /\ f.left \subseteq DOMAIN u.entries
    BY CopyNow DEF CopyChild
  <1>2. PICK n \in f.left :
          LET g == [f EXCEPT !.left = @ \ {n}]
          IN  u.entries[n].dir =>
                /\ IF Reads(p, n) THEN GoOn(s, <<Copy(ReadDirectory(p, n), f.new), g>>) ELSE Lose(s)
                /\ UNCHANGED vars
    BY DEF CopyChild
  <1> DEFINE t == ReadDirectory(p, n)
             g == [f EXCEPT !.left = @ \ {n}]
             h == Copy(t, f.new)
  <1>3. Fine(disk, w, l, f) /\ \A b \in FramesOf(Tail(call[s])) : Over(disk, f, b)
    BY <1>1, FineBelow
  <1>4. FineCopy(disk, w, l, f) /\ CopyGoing(disk, w, l, f) /\ Clean(disk, u) /\ Covers(disk, u)
    BY <1>1, <1>3 DEF Fine, FineCopy, CopyGoing
  <1>5. p = u.self.cluster /\ p \in Clusters
    BY <1>1, KnownFacts
  <1>6. IsStore(disk) /\ w \in Seq(Links)
    BY StoreServed, PathHas DEF PathInv
  <1>7. n \in DOMAIN u.entries /\ u.entries[n].dir
    BY <1>1, <1>4 DEF Clean
  <1> DEFINE c == EntryOf(disk, p, n).cluster
  <1>8. Leads(disk, p, n, c)
    BY <1>4, <1>5, <1>7 DEF Covers, Leads
  <1>9. c \in Clusters /\ ~MakesRoot(p, n) /\ NoFiles(disk, c)
    <2>1. c \in Clusters
      BY <1>5, <1>6, <1>8, LedToOnce
    <2>2. ~MakesRoot(p, n)
      BY <1>8, <2>1 DEF MakesRoot, PathInv, RootFree
    <2>3. NoFiles(disk, p)
      BY <1>4, <1>5 DEF Clean
    <2> HIDE DEF p, c
    <2>4. NoFiles(disk, c)
      BY <1>8, <2>3, NoFilesFacts
    <2> QED
      BY <2>1, <2>2, <2>4
  <1> HIDE DEF p, c
  <1>10. Reads(p, n) /\ t.self.name = n /\ Covers(disk, t) /\ Clean(disk, t)
    BY <1>5, <1>8, <1>9, TableRead
  <1>11. GoOn(s, <<h, g>>) /\ UNCHANGED vars
    BY <1>2, <1>7, <1>10
  <1>12. ChildCopied(disk, f, n, t, h, g)
    BY <1>1, <1>10 DEF ChildCopied, Copy
  <1>13. call'[s] = <<h, g>> \o Tail(call[s])
    BY <1>1, <1>11, OwnWays
  <1>14. h.fn = "copy" /\ h.into = f.new /\ g.fn = "copy" /\ g.at = "each" /\ g.want = f.want /\ g.into = f.into
    BY <1>12 DEF ChildCopied
  <1> HIDE DEF h, g, t, u, f, w, l
  <1>15. FineCopy(disk, w, l, h) /\ FineCopy(disk, w, l, g) /\ Over(disk, h, g)
    <2>1. Known(f.want) /\ f.left \subseteq DOMAIN f.want.entries
      BY <1>1 DEF u
    <2> QED
      BY <1>1, <1>4, <1>6, <1>12, <2>1, ChildIsFine
  <1>16. FineWaits(s)
    BY <1>1, <1>11, FineSame DEF vars, f
  <1>17. disk' = disk
    BY <1>11 DEF vars
  <1>18. ASSUME NEW b \in FramesOf(Tail(call[s])) PROVE Over(disk, h, b) /\ Over(disk, g, b)
    <2>1. Over(disk, f, b)
      BY <1>3
    <2>2. Over(disk, g, b)
      BY <1>1, <1>14, <2>1 DEF Over
    <2>3. (b.fn = "copy" \/ b.fn = "dest") /\ (b.fn = "copy" => b.into \in Clusters)
      BY <1>1, CopyBelow DEF Under, f
    <2>4. Fine(disk, w, l, b)
      BY <1>1, FineBelow DEF FineCall, w, l
    <2>5. Over(disk, h, b)
      BY <1>1, <1>4, <1>6, <1>14, <2>1, <2>3, <2>4, OverChild
    <2> QED
      BY <2>2, <2>5
  <1>19. FineTop(s, h) /\ FineTop(s, g) /\ Over(disk', h, g)
    BY <1>14, <1>15, <1>17, <1>18 DEF FineTop, Fine, w, l
  <1> QED
    BY <1>1, <1>13, <1>16, <1>19, FineTwo

\* All steps of a command keep it.
LEMMA FineStep ==
    ASSUME Served, CallsInv, PathInv, FineInv, NEW s \in Shells, Step(s) PROVE FineInv'
  <1>1. FineOn(s)
    BY FineLoop, FineExamine, FineEnds, FineLook, FineMakes, FineShow, FineRemove, FineFlush, FineReadSource,
       FineWrites, FinePeekInto, FinePutDirectory, FineMakeCopy, FineOpenCopy, FineCopyChild, FineCopyEnd,
       FineScan, FineFind DEF Step
  <1> QED
    BY <1>1, FineKept

-----------------------------------------------------------------------------
\* What is typed is fine.

\* A cp or mv that is served names what is there, and a place that can be made.
LEMMA TypedToCopy ==
    ASSUME Slips = {}, NEW s \in Shells, NEW l, SlipsOf(s, l) \subseteq Slips, l.cmd \in {"cp", "mv"}
    PROVE  LET e == Named(s, l)
               to == Follow(disk, dts[s], l.dest)
               target == Destination(disk, dts[s], l)
           IN  /\ Exists(disk, e) /\ Up \notin Range(l.dest)
               /\ InsideOf(disk, e) # {} => \A x \in TreeAt(disk, e) : x.is.dir
               /\ to # <<>> /\ InsideOf(disk, e) # {} /\ target[1] # NoCluster =>
                    ~Exists(disk, target) /\ HasRoom(target[1])
  <1> DEFINE e == Named(s, l)
             tree == TreeAt(disk, e)
             inside == InsideOf(disk, e)
             to == Follow(disk, dts[s], l.dest)
             target == Destination(disk, dts[s], l)
  <1>1. \A slip \in AllSlips : slip \notin SlipsOf(s, l)
    OBVIOUS
  <1>2. {"missing_source", "dest_up", "onto", "copy_files"} \subseteq AllSlips
    BY DEF AllSlips
  <1>3. tree # {}
    BY <1>1, <1>2 DEF SlipsOf
  <1>4. Up \notin Range(l.dest)
    BY <1>1, <1>2 DEF SlipsOf
  <1>5. ~(to # <<>> /\ inside # {} /\ target[1] # NoCluster /\ (Exists(disk, target) \/ ~HasRoom(target[1])))
    BY <1>1, <1>2 DEF SlipsOf, InsideOf
  <1>6. ~(inside # {} /\ \E x \in tree : ~x.is.dir)
    BY <1>1, <1>2 DEF SlipsOf, InsideOf
  <1>7. Exists(disk, e)
    BY <1>3 DEF TreeAt
  <1> QED
    BY <1>4, <1>5, <1>6, <1>7

\* A path of one name.
LEMMA OneName ==
    ASSUME NEW S, NEW q \in Seq(S), q # <<>>, Len(q) <= 1
    PROVE  Len(q) = 1 /\ q = <<Head(q)>> /\ Front(q) = <<>> /\ Last(q) = Head(q)
  <1>1. Len(q) \in Nat /\ Len(q) > 0
    BY RestOf
  <1>2. Len(q) = 1
    <2>1. \A k \in Nat : k > 0 /\ k <= 1 => k = 1
      OBVIOUS
    <2> QED
      BY <1>1, <2>1
  <1>3. q = <<Head(q)>> /\ Last(q) = Head(q)
    BY <1>2, RestOf
  <1>4. Front(q) \in Seq(S) /\ Len(Front(q)) = 0
    BY <1>1, <1>2, FrontIs
  <1>5. Front(q) = <<>>
    BY <1>4
  <1> QED
    BY <1>2, <1>3, <1>5

\* What is asked of the source, item by item.
LEMMA SourceIsFine ==
    ASSUME NEW d, NEW w, NEW l, NEW f, NEW x, x = EntryOf(d, Last(w).cluster, f.name),
           l.path = <<f.name>>, f.rest = l.path, f.walk = w, f.to = l.dest, f.at = "peek",
           Up \notin Range(l.dest), Rootless(l.dest), f.name \notin {Last(w).name, Above(w).name},
           Has(d, Last(w).cluster, f.name), x.dir => l.alone /\ NoFiles(d, x.cluster) /\ OntoFree(d, w, l)
    PROVE  FineSource(d, w, l, f)
  BY DEF FineSource

\* cp and mv.
LEMMA FineSourceStarts ==
    ASSUME Slips = {}, Served, NEW s \in Shells, Path(disk, dts[s]), NEW l, SlipsOf(s, l) \subseteq Slips,
           l.cmd \in {"cp", "mv"}, l.path \in Seq(Parts), l.path # <<>>, l.dest \in Seq(Parts),
           NEW k, k.path = l.path, k.dest = l.dest, k.alone = NeedsAlone(s, l)
    PROVE  FineSource(disk, dts[s], k, Source(l.path, l.dest, dts[s], l.cmd = "mv"))
  <1> DEFINE w == dts[s]
             top == Last(w)
             p == top.cluster
             f == Source(l.path, l.dest, w, l.cmd = "mv")
             n == Head(l.path)
             e == Named(s, l)
             x == EntryOf(disk, p, n)
  <1>1. IsStore(disk) /\ DiskOK(disk) /\ w \in Seq(Links) /\ p \in Clusters
    BY StoreServed, PathHas
  <1>2. Len(l.path) = 1 /\ l.path = <<n>> /\ Front(l.path) = <<>> /\ Last(l.path) = n
    <2>1. Len(l.path) <= 1
      BY TypedWell
    <2> QED
      BY <2>1, OneName
  <1>3. e = <<p, n>> /\ e[1] # NoCluster
    <2>1. Follow(disk, w, <<>>) = w
      BY <1>1, FollowNothing
    <2>2. w # <<>>
      BY PathHas
    <2> QED
      BY <1>1, <1>2, <2>1, <2>2, IsNoCluster DEF Named, Place
  <1>4. n \notin {top.name, Above(w).name}
    <2>1. e[2] \notin {ReadTable(disk, p).self.name, ReadTable(disk, p).parent.name}
      BY <1>3, TypedWell
    <2>2. ReadTable(disk, p).self = top /\ ReadTable(disk, p).parent = Above(w)
      BY <1>1, TopTable, ParentTable
    <2> QED
      BY <1>3, <2>1, <2>2
  <1>5. Has(disk, p, n) /\ Up \notin Range(l.dest)
    BY <1>3, TypedToCopy DEF Exists
  <1>6. Rootless(l.dest)
    BY TypedWell, NamesNoRoot
  <1>7. ASSUME x.dir PROVE NeedsAlone(s, l) /\ NoFiles(disk, x.cluster) /\ OntoFree(disk, w, k)
    <2>1. IsFolder(disk, e) /\ Leads(disk, e[1], e[2], x.cluster)
      BY <1>3, <1>5, <1>7 DEF IsFolder, Exists, Leads
    <2>2. x.cluster \in Clusters
      BY <1>1, <1>3, <2>1, LedToOnce
    <2>3. InsideOf(disk, e) # {} => \A y \in TreeAt(disk, e) : y.is.dir
      BY TypedToCopy
    <2>4. NoFiles(disk, x.cluster) /\ x.cluster \in InsideOf(disk, e)
      <3> DEFINE c == x.cluster
      <3> HIDE DEF c, e
      <3>1. c \in Clusters /\ Leads(disk, e[1], e[2], c)
        BY <2>1, <2>2 DEF c
      <3>2. NoFiles(disk, c) /\ c \in InsideOf(disk, e)
        BY <1>1, <1>3, <2>3, <3>1, TreeWithoutFiles
      <3> QED
        BY <3>2 DEF c
    <2>5. NeedsAlone(s, l)
      BY <2>1 DEF NeedsAlone
    <2> DEFINE to == Follow(disk, w, l.dest)
               target == Destination(disk, w, l)
    <2>6. ASSUME to # <<>> PROVE ~Has(disk, Last(to).cluster, n) /\ RoomIn(disk, Last(to).cluster)
      <3>1. target = <<Last(to).cluster, n>>
        BY <1>2, <2>6 DEF Destination
      <3>2. target[1] \in Clusters
        BY <1>1, <1>6, <2>6, TargetIn
      <3>3. target[1] # NoCluster
        BY <3>2, IsNoCluster
      <3>4. ~Exists(disk, target) /\ HasRoom(target[1])
        BY <2>4, <2>6, <3>3, TypedToCopy
      <3> QED
        BY <3>1, <3>3, <3>4 DEF Exists, HasRoom, RoomIn
    <2>7. OntoFree(disk, w, k)
      BY <1>2, <2>6 DEF OntoFree
    <2> QED
      BY <2>4, <2>5, <2>7
  <1>8. f.name = n /\ f.at = "peek" /\ f.rest = k.path /\ f.walk = w /\ f.to = k.dest
    BY DEF Source, AfterSplit
  <1>9. k.path = <<f.name>> /\ Up \notin Range(k.dest) /\ Rootless(k.dest)
    BY <1>2, <1>5, <1>6, <1>8
  <1>10. EntryOf(disk, Last(w).cluster, f.name) = x /\ Has(disk, Last(w).cluster, f.name)
    BY <1>5, <1>8
  <1>11. f.name \notin {Last(w).name, Above(w).name}
    BY <1>4, <1>8
  <1>12. x.dir => k.alone /\ NoFiles(disk, x.cluster) /\ OntoFree(disk, w, k)
    BY <1>7
  <1> HIDE DEF f, x, w
  <1>13. FineSource(disk, w, k, f)
    BY <1>8, <1>9, <1>10, <1>11, <1>12, SourceIsFine
  <1> QED
    BY <1>13 DEF f, w

\* Any command.
LEMMA FineStarts ==
    ASSUME Slips = {}, Served, NEW s \in Shells, Path(disk, dts[s]), NEW l, SlipsOf(s, l) \subseteq Slips,
           l.path \in Seq(Parts), l.path # <<>>, l.dest \in Seq(Parts),
           l.cmd \in {"cd", "mkdir", "cat", "rm", "cp", "mv", "find"},
           NEW k, k.cmd = l.cmd, k.path = l.path, k.dest = l.dest, k.alone = NeedsAlone(s, l)
    PROVE  FineCall(disk, dts[s], k, FirstFrames(l, dts[s]))
  <1> DEFINE w == dts[s]
             d == disk
  <1>1. DiskOK(d) /\ w \in Seq(Links)
    BY StoreServed, PathHas
  <1>2. CASE l.cmd \in {"cp", "mv"}
    <2> DEFINE f == Source(l.path, l.dest, w, l.cmd = "mv")
    <2>1. FirstFrames(l, w) = <<f>>
      BY <1>2 DEF FirstFrames
    <2>2. FineSource(d, w, k, f)
      BY <1>2, FineSourceStarts
    <2>3. f.fn = "source"
      BY DEF Source
    <2> HIDE DEF f
    <2>4. Fine(d, w, k, f)
      BY <2>2, <2>3 DEF Fine
    <2> QED
      BY <2>1, <2>4, FewFrames DEF FineCall
  <1>3. CASE l.cmd = "find"
    <2> DEFINE f == Scan(Last(l.path), <<RootLink>>)
               g == [fn |-> "find", at |-> "root", name |-> Last(l.path)]
    <2>1. FirstFrames(l, w) = <<f, g>>
      BY <1>3 DEF FirstFrames
    <2>2. Easy(f) /\ Easy(g)
      BY DEF Easy, Scan
    <2> HIDE DEF f, g
    <2>3. Fine(d, w, k, f) /\ Fine(d, w, k, g) /\ Over(d, f, g)
      BY <2>2, FineEasy
    <2> QED
      BY <2>1, <2>3, FewFrames DEF FineCall
  <1>4. CASE l.cmd \in {"cd", "mkdir", "cat", "rm"}
    <2> DEFINE f == Loop(l.cmd, l.path, w)
    <2>1. FirstFrames(l, w) = <<f>>
      BY <1>4 DEF FirstFrames
    <2>2. f.fn = k.cmd /\ f.at = "peek" /\ f.rest = k.path /\ f.walk = w
      BY DEF Loop
    <2>3. Rootless(k.path)
      BY <1>4, TypedWell, NamesNoRoot
    <2> HIDE DEF f
    <2>4. Led(d, w, k, f)
      BY <1>1, <2>2, <2>3, LedStart
    <2>5. Fine(d, w, k, f)
      BY <1>4, <2>2, <2>4 DEF Fine
    <2> QED
      BY <2>1, <2>5, FewFrames DEF FineCall
  <1> QED
    BY <1>2, <1>3, <1>4

\* So does a line that is typed.
LEMMA FineType ==
    ASSUME Slips = {}, Served, CallsInv, PathInv, FineInv, session \in Sessions, NEW s \in Shells, Type(s)
    PROVE  FineInv'
  <1>1. PICK l \in session.lines[s] :
          /\ SlipsOf(s, l) \subseteq Slips
          /\ call' = [call EXCEPT ![s] = FirstFrames(l, dts[s])] /\ UNCHANGED <<vars, dts>>
          /\ line' = [line EXCEPT ![s] =
               [cmd |-> l.cmd, path |-> l.path, dest |-> l.dest,
                at |-> Named(s, l), alone |-> NeedsAlone(s, l),
                due |-> IF l.cmd = "find" THEN Matches(disk, Last(l.path)) ELSE {}]]
    BY DEF Type
  <1> DEFINE w == dts[s]
             k == [cmd |-> l.cmd, path |-> l.path, dest |-> l.dest,
                   at |-> Named(s, l), alone |-> NeedsAlone(s, l),
                   due |-> IF l.cmd = "find" THEN Matches(disk, Last(l.path)) ELSE {}]
             c == FirstFrames(l, w)
  <1>2. /\ l.path \in Seq(Parts) /\ l.dest \in Seq(Parts) /\ l.path # <<>>
        /\ l.cmd \in {"cd", "mkdir", "cat", "rm", "cp", "mv", "find"}
    BY ShellAssumption DEF Parts
  <1>3. /\ k.cmd = l.cmd /\ k.path = l.path /\ k.dest = l.dest /\ k.alone = NeedsAlone(s, l)
        /\ disk' = disk /\ dts' = dts
    BY <1>1 DEF vars
  <1>4. /\ call' = [call EXCEPT ![s] = c] /\ line' = [line EXCEPT ![s] = k]
    BY <1>1
  <1>5. Path(disk, w)
    BY DEF PathInv
  <1> HIDE DEF k
  <1>6. FineCall(disk, w, k, c)
    BY <1>1, <1>2, <1>3, <1>5, FineStarts
  <1>7. DOMAIN call = Shells /\ DOMAIN line = Shells
    BY DEF CallsInv
  <1> HIDE DEF c
  <1>8. /\ call'[s] = c /\ line'[s] = k
        /\ \A z \in Shells : z # s => call'[z] = call[z] /\ line'[z] = line[z]
    BY <1>4, <1>7
  <1> SUFFICES ASSUME NEW z \in Shells PROVE FineCall(disk', dts'[z], line'[z], call'[z])
    BY DEF FineInv
  <1>9. CASE z = s
    BY <1>3, <1>6, <1>8, <1>9
  <1>10. CASE z # s
    BY <1>3, <1>8, <1>10 DEF FineInv
  <1> QED
    BY <1>9, <1>10

-----------------------------------------------------------------------------
\* The invariant, with what it rests on.
CopyInv == ServedInv /\ FineInv

\* It holds at first,
LEMMA InitCopyInv == ShellInit => CopyInv
  <1> SUFFICES ASSUME ShellInit PROVE FineInv
    BY InitServedInv DEF CopyInv
  <1>1. \A s \in Shells : call[s] = <<>>
    BY DEF ShellInit
  <1> QED
    BY <1>1, FineNothing DEF FineInv

\* and every step keeps it.
LEMMA NextCopyInv ==
    ASSUME Slips = {} PROVE CopyInv /\ [ShellNext]_shvars => CopyInv'
  <1> SUFFICES ASSUME CopyInv, [ShellNext]_shvars PROVE FineInv'
    BY NextServedInv DEF CopyInv
  <1>1. ServedInv /\ FineInv /\ Served /\ CallsInv /\ PathInv /\ session \in Sessions
    BY DEF CopyInv, ServedInv, ShellInv
  <1>2. CASE \E s \in Shells : Type(s)
    BY <1>1, <1>2, FineType
  <1>3. CASE \E s \in Shells : Step(s)
    BY <1>1, <1>3, FineStep
  <1>4. CASE Restart
    <2>1. \A s \in Shells : call'[s] = <<>>
      BY <1>4 DEF Restart
    <2> QED
      BY <2>1, FineNothing DEF FineInv
  <1>5. CASE UNCHANGED shvars
    <2>1. disk' = disk /\ dts' = dts /\ call' = call /\ line' = line
      BY <1>5 DEF shvars, vars
    <2> QED
      BY <1>1, <2>1 DEF FineInv
  <1> QED
    BY <1>2, <1>3, <1>4, <1>5 DEF ShellNext

\* A lost command is no frame of a fine one.
LEMMA FineIsNotLost == CopyInv => NoneIsLost
  <1> SUFFICES ASSUME FineInv, NEW s \in Shells, call[s] = <<Lost>> PROVE FALSE
    BY DEF NoneIsLost, CopyInv
  <1>1. Fine(disk, dts[s], line[s], Lost)
    BY FewFrames DEF FineInv, FineCall
  <1> QED
    BY <1>1 DEF Fine, Lost

\* No command goes on with a table or a size that was never read: the source of a cp or
\* mv is still there when the command looks for it, and every directory cp_helper was to
\* make is there when it opens it, whatever the other shells do in between.
THEOREM CommandsFindTheirWay == ASSUME Slips = {} PROVE ShellSpec => []NoneIsLost
  <1>1. ShellInit => CopyInv
    BY InitCopyInv
  <1>2. CopyInv /\ [ShellNext]_shvars => CopyInv'
    BY NextCopyInv
  <1>3. CopyInv => NoneIsLost
    BY FineIsNotLost
  <1> QED
    BY <1>1, <1>2, <1>3, PTL DEF ShellSpec

-----------------------------------------------------------------------------
\* What comes, comes where the command names it.
MadeAsNamed(e) ==
    \/ \E s \in Does({"mkdir"}) : e = Named(s, line[s]) /\ IsFolder(disk', e)
    \/ \E s \in Does({"cp", "mv"}) : e \in PlacesIn(disk', Destination(disk, dts[s], line[s]))

\* Everything that comes is such an entry.
AllMade == \A e \in NewPlaces : MadeAsNamed(e)

\* Where the disk gains nothing there is nothing to show.
LEMMA NothingMade ==
    ASSUME NewPlaces = {} PROVE AllMade
  BY DEF AllMade

\* sys_write makes one entry at most.
LEMMA OneMade ==
    ASSUME Served, Served', NEW p, NEW n, NEW isdir, Grows(disk, disk', p, n, isdir), p \in Clusters,
           Has(disk', p, n) /\ ~Has(disk, p, n) => MadeAsNamed(<<p, n>>)
    PROVE  AllMade
  <1>1. IsStore(disk) /\ IsStore(disk')
    BY NothingMisused, FormattedWhenUsed DEF Served, OwnershipInv
  <1> SUFFICES ASSUME NEW x \in NewPlaces PROVE MadeAsNamed(x)
    BY DEF AllMade
  <1>2. x = <<p, n>>
    BY <1>1, GrowsOn DEF NewPlaces
  <1>3. Has(disk', p, n) /\ ~Has(disk, p, n)
    BY <1>1, <1>2, HasIsEntry DEF NewPlaces
  <1> QED
    BY <1>2, <1>3

\* A command whose innermost frame is another one has done something.
LEMMA OtherDoes ==
    ASSUME CallsInv, NEW s \in Shells, call[s] # <<>>, NEW g, g # Head(call[s]),
           call'[s] = <<g>> \o Tail(call[s]), NEW cmds, line[s].cmd \in cmds
    PROVE  s \in Does(cmds)
  <1> DEFINE c == call[s]
  <1>1. PICK S : c \in Seq(S)
    BY CallStack DEF FramesOK
  <1>2. c # <<>> /\ call'[s] = <<g>> \o Tail(c) /\ g # Head(c)
    OBVIOUS
  <1> HIDE DEF c
  <1>3. Tail(c) \in Seq(S)
    BY <1>1, <1>2, RestOf
  <1>4. Head(<<g>> \o Tail(c)) = g
    <2> DEFINE U == S \cup {g}
    <2>1. Tail(c) \in Seq(U) /\ <<g>> \in Seq(U) /\ Len(<<g>>) = 1
      BY <1>3
    <2>2. (<<g>> \o Tail(c))[1] = g
      BY <2>1
    <2> QED
      BY <2>1, <2>2
  <1>5. <<g>> \o Tail(c) # c
    BY <1>2, <1>4
  <1> QED
    BY <1>2, <1>5 DEF Does, c

\* cp is done, and mv goes on to its rm: both have done something.
LEMMA SucceedDoes ==
    ASSUME CallsInv, NEW s \in Shells, call[s] # <<>>, NEW f, f = Head(call[s]), f.fn = "dest",
           Succeed(s, f) \/ Return(s), NEW cmds, line[s].cmd \in cmds
    PROVE  s \in Does(cmds)
  <1>1. CASE Return(s)
    BY <1>1, ReturnDoes
  <1>2. CASE Succeed(s, f) /\ ~f.mv
    BY <1>2, ReturnDoes DEF Succeed
  <1>3. CASE Succeed(s, f) /\ f.mv
    <2> DEFINE g == Loop("rm", <<f.name>>, dts[s])
    <2>1. call'[s] = <<g>> \o Tail(call[s])
      BY <1>3, OwnWays
    <2>2. g.fn = "rm"
      BY DEF Loop
    <2> HIDE DEF g
    <2> QED
      BY <2>1, <2>2, OtherDoes
  <1> QED
    BY <1>1, <1>2, <1>3

\* mkdir.
LEMMA MakeDirectoryMade ==
    ASSUME Served, CallsInv, PathInv, FineInv, NEW s \in Shells, MakeDirectory(s) PROVE AllMade
  <1> DEFINE f == Head(call[s])
             p == Last(f.walk).cluster
             n == Head(f.rest)
  <1>1. In(s, {"mkdir"}, "write") /\ "mkdir" \in Loops
    BY DEF MakeDirectory, Loops
  <1>2. /\ call[s] # <<>> /\ f.fn = "mkdir" /\ f.at = "write" /\ Path(disk, f.walk)
        /\ p \in Clusters /\ ClusterNumber(f.cwd) = p /\ f.rest \in Seq(Parts) /\ n \in Names /\ f.rest # <<>>
    BY <1>1, LoopNowIn
  <1>3. SysWrite(p, n, 0, Junk) /\ Return(s)
    BY <1>2 DEF MakeDirectory
  <1>4. line[s].cmd = "mkdir" /\ Led(disk, dts[s], line[s], f) /\ Len(f.rest) = 1
    BY <1>2, FineBelow DEF Fine
  <1>5. Named(s, line[s]) = <<p, n>>
    <2>1. f.walk # <<>> /\ f.rest[1] = n
      BY <1>2, PathHas, RestOf
    <2> QED
      BY <1>4, <2>1, LedLast DEF Named
  <1>6. s \in Does({"mkdir"})
    BY <1>2, <1>3, <1>4, ReturnDoes
  <1> HIDE DEF p, n
  <1>7. Served' /\ Grows(disk, disk', p, n, 0 = 0)
    BY <1>2, <1>3, WriteGrows
  <1>8. ASSUME Has(disk', p, n), ~Has(disk, p, n) PROVE MadeAsNamed(<<p, n>>)
    <2>1. EntryOf(disk', p, n).dir
      BY <1>7, <1>8 DEF Grows
    <2>2. IsFolder(disk', <<p, n>>)
      BY <1>2, <1>8, <2>1, IsNoCluster DEF IsFolder, Exists
    <2> QED
      BY <1>5, <1>6, <2>2 DEF MadeAsNamed
  <1> QED
    BY <1>2, <1>7, <1>8, OneMade

\* What is written at the destination.
LEMMA TargetMade ==
    ASSUME Served, NEW s \in Shells, s \in Does({"cp", "mv"}), NEW p \in Clusters, NEW n \in Names,
           NEW size \in Sizes \cup {0}, NEW data, SysWrite(p, n, size, data),
           ~Has(disk, p, n) => Destination(disk, dts[s], line[s]) = <<p, n>>
    PROVE  AllMade
  <1> DEFINE isdir == size = 0
  <1>1. Served' /\ Grows(disk, disk', p, n, isdir)
    BY WriteGrows
  <1>2. ASSUME ~Has(disk, p, n) PROVE MadeAsNamed(<<p, n>>)
    BY <1>2, PlacesAre DEF MadeAsNamed
  <1> HIDE DEF isdir
  <1> QED
    BY <1>1, <1>2, OneMade

\* cp and mv, of a file.
LEMMA FileMade ==
    ASSUME Served, CallsInv, PathInv, FineInv, NEW s \in Shells, WriteUnder(s) \/ PutFile(s) PROVE AllMade
  <1> DEFINE f == Head(call[s])
             w == dts[s]
             l == line[s]
             k == [path |-> l.dest]
             p == Last(f.walk).cluster
  <1>1. PICK at \in {"name", "put"} : In(s, {"dest"}, at)
    BY DEF WriteUnder, PutFile
  <1>2. /\ call[s] # <<>> /\ f.fn = "dest" /\ f.at = at /\ Path(disk, f.walk) /\ f.rest \in Seq(Parts)
        /\ f.name \in Names /\ f.size \in Sizes \cup {0} /\ (at = "name" => Head(f.rest) \in Names)
        /\ l.cmd \in {"cp", "mv"}
    BY <1>1, DestNow
  <1>3. "dest" \in Loops /\ ClusterNumber(f.cwd) = p /\ p \in Clusters
    <2>1. "dest" \in Loops
      BY DEF Loops
    <2> QED
      BY <1>1, <2>1, LoopNowIn
  <1>4. Succeed(s, f) \/ Return(s)
    BY DEF WriteUnder, PutFile
  <1>5. s \in Does({"cp", "mv"})
    BY <1>2, <1>4, SucceedDoes
  <1>6. l.path = <<f.name>> /\ Led(disk, w, k, f) /\ (at = "put" => f.rest = <<>>)
    BY <1>2, FineBelow DEF Fine, FineDest
  <1>7. DiskOK(disk) /\ w \in Seq(Links) /\ f.walk # <<>>
    BY <1>2, StoreServed, PathHas DEF PathInv
  <1>8. CASE WriteUnder(s)
    <2> DEFINE n == Head(f.rest)
    <2>1. /\ at = "name" /\ Len(f.rest) = 1 /\ SysWrite(p, n, f.size, f.data)
      BY <1>1, <1>2, <1>3, <1>8 DEF WriteUnder, In, IsLast
    <2>2. f.rest # <<>> /\ n = f.rest[1] /\ Tail(f.rest) = <<>> /\ n \in Names
      BY <1>2, <2>1, RestOf
    <2>3. ASSUME ~Has(disk, p, n) PROVE Destination(disk, w, l) = <<p, n>>
      <3> DEFINE v == PathStep(disk, f.walk, n)
                 g == [rest |-> Tail(f.rest), walk |-> v]
      <3>1. v = <<>>
        BY <1>7, <2>2, <2>3, UpAndHere DEF PathStep
      <3>2. g.rest = Tail(f.rest) /\ g.walk = PathStep(disk, f.walk, Head(f.rest)) /\ g.rest = <<>>
        BY <2>2
      <3> HIDE DEF g
      <3>3. Led(disk, w, k, g)
        BY <1>6, <1>7, <2>2, <3>2, LedStep
      <3>4. Follow(disk, w, k.path) = g.walk
        BY <3>2, <3>3, LedEnds
      <3>5. Follow(disk, w, l.dest) = <<>>
        BY <3>1, <3>2, <3>4
      <3>6. Place(disk, w, k.path) = <<p, f.rest[1]>>
        BY <1>6, <1>7, <2>1, LedLast
      <3> QED
        BY <2>2, <3>5, <3>6 DEF Destination
    <2> HIDE DEF n, p, f, w, l
    <2>4. SysWrite(p, n, f.size, f.data) /\ p \in Clusters /\ n \in Names /\ f.size \in Sizes \cup {0}
          /\ (~Has(disk, p, n) => Destination(disk, dts[s], line[s]) = <<p, n>>)
      BY <1>2, <1>3, <2>1, <2>2, <2>3 DEF w, l
    <2> QED
      BY <1>5, <2>4, TargetMade
  <1>9. CASE PutFile(s)
    <2> DEFINE n == f.name
    <2>1. at = "put" /\ SysWrite(p, n, f.size, f.data)
      BY <1>1, <1>2, <1>3, <1>9 DEF PutFile, In
    <2>2. Follow(disk, w, k.path) = f.walk
      BY <1>6, <2>1, LedEnds
    <2>3. Last(l.path) = n
      BY <1>6 DEF Last
    <2>4. Destination(disk, w, l) = <<p, n>>
      BY <1>7, <2>2, <2>3 DEF Destination
    <2> HIDE DEF n, p, f, w, l
    <2>5. SysWrite(p, n, f.size, f.data) /\ p \in Clusters /\ n \in Names /\ f.size \in Sizes \cup {0}
          /\ Destination(disk, dts[s], line[s]) = <<p, n>>
      BY <1>2, <1>3, <2>1, <2>4 DEF w, l, n
    <2> QED
      BY <1>5, <2>5, TargetMade
  <1> QED
    BY <1>8, <1>9

\* A directory cp_helper makes is the destination, or inside.
LEMMA CopyMade ==
    ASSUME Served, CallsInv, PathInv, FineInv, NEW s \in Shells, MakeCopy(s) PROVE AllMade
  <1> DEFINE f == Head(call[s])
             w == dts[s]
             l == line[s]
             p == f.into
             n == f.want.self.name
             g == [f EXCEPT !.at = "open"]
             target == Destination(disk, w, l)
  <1>1. /\ call[s] # <<>> /\ f.fn = "copy" /\ f.at = "make" /\ {"fn", "at"} \subseteq DOMAIN f
        /\ p \in Clusters /\ n \in Names /\ l.cmd \in {"cp", "mv"}
    BY CopyNow DEF MakeCopy
  <1>2. SysWrite(p, n, 0, Junk) /\ GoOn(s, <<g>>)
    BY DEF MakeCopy
  <1>3. g # f
    BY <1>1
  <1>4. call'[s] = <<g>> \o Tail(call[s])
    BY <1>1, <1>2, OwnWays
  <1> HIDE DEF g
  <1>5. s \in Does({"cp", "mv"})
    BY <1>1, <1>3, <1>4, OtherDoes
  <1>6. CopyGoing(disk, w, l, f)
    BY <1>1, FineBelow DEF Fine, FineCopy
  <1>7. IsStore(disk) /\ DiskOK(disk) /\ w \in Seq(Links)
    BY StoreServed, PathHas DEF PathInv
  <1>8. Served' /\ Grows(disk, disk', p, n, 0 = 0)
    BY <1>1, <1>2, WriteGrows
  <1>9. IsStore(disk')
    BY <1>8, NothingMisused, FormattedWhenUsed DEF Served, OwnershipInv
  <1>10. <<p, n>> = target \/ p \in InsideOf(disk, target)
    BY <1>6 DEF CopyGoing
  <1>11. target[1] \in Clusters
    BY <1>6, <1>7, TargetIn DEF CopyGoing
  <1> HIDE DEF f, w, l, p, n, target
  <1>12. InsideOf(disk, target) \subseteq InsideOf(disk', target)
    BY <1>7, <1>8, <1>9, <1>11, GrowsKeeps, InsideGrows
  <1>13. ASSUME Has(disk', p, n) PROVE <<p, n>> \in PlacesIn(disk', target)
    BY <1>10, <1>12, <1>13, PlacesAre
  <1>14. ASSUME Has(disk', p, n) PROVE MadeAsNamed(<<p, n>>)
    BY <1>5, <1>13, <1>14 DEF MadeAsNamed, target, w, l
  <1> QED
    BY <1>1, <1>8, <1>14, OneMade

\* What cp_helper copies has no file in it.
LEMMA CopyChildMade ==
    ASSUME Served, CallsInv, PathInv, FineInv, NEW s \in Shells, CopyChild(s) PROVE AllMade
  <1> DEFINE f == Head(call[s])
  <1>1. /\ call[s] # <<>> /\ f.fn = "copy" /\ f.at = "each" /\ f.left \subseteq DOMAIN f.want.entries
    BY CopyNow DEF CopyChild
  <1>2. Clean(disk, f.want)
    BY <1>1, FineBelow DEF Fine, FineCopy, CopyGoing
  <1>3. \A n \in f.left : f.want.entries[n].dir
    BY <1>1, <1>2 DEF Clean
  <1>4. UNCHANGED vars
    BY <1>3 DEF CopyChild
  <1> QED
    BY <1>4, NothingMade DEF vars, NewPlaces

\* rm makes nothing.
LEMMA RemovesMakeNothing ==
    ASSUME Served, CallsInv, PathInv, NEW s \in Shells, RemoveLast(s) \/ FlushChild(s) \/ FlushEnd(s)
    PROVE  NewPlaces = {}
  <1>1. CASE UNCHANGED vars
    BY <1>1 DEF vars, NewPlaces
  <1>2. ASSUME NEW p \in Clusters, NEW n \in Names, SysDelete(p, n) PROVE NewPlaces = {}
    <2>1. Served' /\ Shrinks(disk, disk', p, n)
      BY <1>2, DeleteShrinks
    <2>2. IsStore(disk) /\ IsStore(disk')
      BY <2>1, NothingMisused, FormattedWhenUsed DEF Served, OwnershipInv
    <2> QED
      BY <2>1, <2>2, ShrinksOn DEF NewPlaces
  <1>3. CASE RemoveLast(s)
    <2> DEFINE f == Head(call[s])
    <2>1. In(s, {"rm"}, "name") /\ "rm" \in Loops
      BY <1>3 DEF RemoveLast, Loops
    <2>2. ClusterNumber(f.cwd) \in Clusters /\ Head(f.rest) \in Names
      BY <2>1, LoopNowIn
    <2> QED
      BY <1>1, <1>2, <1>3, <2>2 DEF RemoveLast
  <1>4. CASE FlushChild(s)
    <2> DEFINE f == Head(call[s])
    <2>1. FlushGood(disk, dts, line[s], f)
      BY <1>4, FlushNow DEF FlushChild
    <2>2. UNCHANGED vars
      BY <1>4, <2>1 DEF FlushGood, FlushChild
    <2> QED
      BY <1>1, <2>2
  <1>5. CASE FlushEnd(s)
    <2> DEFINE f == Head(call[s])
    <2>1. f.holder \in Clusters /\ f.name \in Names /\ SysDelete(f.holder, f.name)
      BY <1>5, FlushNow DEF FlushEnd, FlushFrame
    <2> QED
      BY <1>2, <2>1
  <1> QED
    BY <1>3, <1>4, <1>5

\* The steps of a command, all of them.
LEMMA StepMade ==
    ASSUME Served, CallsInv, PathInv, FineInv, NEW s \in Shells, Step(s) PROVE AllMade
  <1>1. CASE UNCHANGED vars
    BY <1>1, NothingMade DEF vars, NewPlaces
  <1> QED
    BY <1>1, StepDisk, MakeDirectoryMade, FileMade, CopyMade, CopyChildMade, RemovesMakeNothing, NothingMade

\* What appears on the disk is what a running mkdir, cp or mv names, or lies in the
\* directory it copies there: never another name, never another directory.
THEOREM MakesTheNamed == ASSUME Slips = {} PROVE ShellSpec => MakesWhatIsNamed
  <1>1. CopyInv /\ [ShellNext]_shvars => [AllMade]_shvars
    <2> SUFFICES ASSUME CopyInv, ShellNext PROVE AllMade
      OBVIOUS
    <2>1. Served /\ CallsInv /\ PathInv /\ FineInv
      BY DEF CopyInv, ServedInv, ShellInv
    <2>2. CASE Restart
      BY <2>2, NothingMade DEF Restart, NewPlaces
    <2>3. ASSUME NEW s \in Shells, Type(s) PROVE AllMade
      BY <2>3, NothingMade DEF Type, vars, NewPlaces
    <2>4. ASSUME NEW s \in Shells, Step(s) PROVE AllMade
      BY <2>1, <2>4, StepMade
    <2> QED
      BY <2>2, <2>3, <2>4 DEF ShellNext
  <1> QED
    BY <1>1, InitCopyInv, NextCopyInv, PTL DEF ShellSpec, MakesWhatIsNamed, AllMade, MadeAsNamed

-----------------------------------------------------------------------------
\* What find looks for.

\* In the directory the names of r lead to from the root is an entry n.
There(d, r, n) == \E z \in Clusters : Reach(d, ROOT_CLUSTER_NUMBER, r, z) /\ Has(d, z, n)

\* How find prints it.
Printout(r, n) == (<<RootName>> \o r) \o <<n>>

\* What find may print.
IsMatch(d, n, m) ==
    \/ m = <<RootName>> /\ n = RootName
    \/ \E r : There(d, r, n) /\ m = Printout(r, n)

\* An entry n is a name, and so is every one on the way.
LEMMA ThereNames ==
    ASSUME NEW d, IsStore(d), NEW r, NEW n, There(d, r, n)
    PROVE  r \in Seq(Names) /\ n \in Names /\ Len(r) \in Nat
  BY ReachTypes, EntryKind DEF There

\* The two ways to put the path and the name together.
LEMMA PrintoutIs ==
    ASSUME NEW r \in Seq(Names), NEW n \in Names
    PROVE  <<RootName>> \o Append(r, n) = Printout(r, n) /\ Last(Append(r, n)) = n
  <1>1. RootName \in Names
    BY Fat32Assumption
  <1>2. <<RootName>> \in Seq(Names) /\ <<n>> \in Seq(Names)
    BY <1>1
  <1>3. Append(r, n) = r \o <<n>>
    BY AppendIsConcat
  <1>4. (<<RootName>> \o r) \o <<n>> = <<RootName>> \o (r \o <<n>>)
    BY <1>2, ConcatAssociative
  <1>5. Last(Append(r, n)) = n
    BY AppendProperties DEF Last
  <1> QED
    BY <1>3, <1>4, <1>5 DEF Printout

\* What is below the root, and its path.
LEMMA ContentsAre ==
    ASSUME NEW d, IsStore(d), NEW q
    PROVE  (\E y \in Contents(d, ROOT_CLUSTER_NUMBER) : y.path = q) <=>
             \E r, n : There(d, r, n) /\ q = Append(r, n)
  <1> DEFINE c == ROOT_CLUSTER_NUMBER
             shown(x, n) == [path |-> Append(x.path, n), is |-> Shape(d, x.at, n)]
             of(x) == {shown(x, n) : n \in DOMAIN ReadTable(d, x.at).entries}
  <1>0. c \in Tables(d)
    BY DEF Tables
  <1>1. Contents(d, c) = UNION {of(x) : x \in Folders(d, c)}
    BY DEF Contents
  <1>2. ASSUME NEW y \in Contents(d, c), y.path = q PROVE \E r, n : There(d, r, n) /\ q = Append(r, n)
    <2>1. PICK x \in Folders(d, c) : y \in of(x)
      BY <1>1
    <2>2. PICK n \in DOMAIN ReadTable(d, x.at).entries : y = shown(x, n)
      BY <2>1
    <2>3. PICK r, z : Reach(d, c, r, z) /\ x = [path |-> r, at |-> z]
      BY <1>0, FoldersAre
    <2>4. x.path = r /\ x.at = z /\ Has(d, z, n)
      BY <2>2, <2>3 DEF Has
    <2>5. There(d, r, n)
      BY <2>3, <2>4, ReachTypes DEF There
    <2>6. q = Append(r, n)
      BY <1>2, <2>2, <2>4
    <2> QED
      BY <2>5, <2>6
  <1>3. ASSUME NEW r, NEW n, There(d, r, n), q = Append(r, n)
        PROVE  \E y \in Contents(d, c) : y.path = q
    <2>1. PICK z \in Clusters : Reach(d, c, r, z) /\ Has(d, z, n)
      BY <1>3 DEF There
    <2> DEFINE x == [path |-> r, at |-> z]
    <2>2. x \in Folders(d, c)
      BY <1>0, <2>1, FoldersAre
    <2>3. shown(x, n) \in of(x)
      BY <2>1 DEF Has
    <2>4. shown(x, n).path = q
      BY <1>3
    <2> HIDE DEF shown, of, x
    <2>5. shown(x, n) \in Contents(d, c)
      BY <1>1, <2>2, <2>3
    <2> QED
      BY <2>4, <2>5
  <1> QED
    BY <1>2, <1>3

\* These are the matches.
LEMMA MatchesAre ==
    ASSUME NEW d, IsStore(d), NEW n, NEW m
    PROVE  m \in Matches(d, n) <=> IsMatch(d, n, m)
  <1> DEFINE C == Contents(d, ROOT_CLUSTER_NUMBER)
             below == {<<RootName>> \o x.path : x \in {y \in C : Last(y.path) = n}}
  <1>1. Matches(d, n) = below \cup {<<RootName>> : k \in {n} \cap {RootName}}
    BY DEF Matches
  <1>2. m \in {<<RootName>> : k \in {n} \cap {RootName}} <=> m = <<RootName>> /\ n = RootName
    OBVIOUS
  <1>3. ASSUME m \in below PROVE \E r : There(d, r, n) /\ m = Printout(r, n)
    <2>1. PICK y \in C : Last(y.path) = n /\ m = <<RootName>> \o y.path
      BY <1>3
    <2> DEFINE p == y.path
    <2>4. \E x \in C : x.path = p
      OBVIOUS
    <2> HIDE DEF p
    <2>5. \E r, k : There(d, r, k) /\ p = Append(r, k)
      BY <2>4, ContentsAre
    <2>2. PICK r, k : There(d, r, k) /\ y.path = Append(r, k)
      BY <2>5 DEF p
    <2>3. k = n /\ m = Printout(r, n)
      BY <2>1, <2>2, ThereNames, PrintoutIs
    <2> QED
      BY <2>2, <2>3
  <1>4. ASSUME NEW r, There(d, r, n), m = Printout(r, n) PROVE m \in below
    <2>1. PICK y \in C : y.path = Append(r, n)
      BY <1>4, ContentsAre
    <2>2. Last(y.path) = n /\ m = <<RootName>> \o y.path
      BY <1>4, <2>1, ThereNames, PrintoutIs
    <2> QED
      BY <2>2
  <1> HIDE DEF C, below
  <1> QED
    BY <1>1, <1>2, <1>3, <1>4 DEF IsMatch

-----------------------------------------------------------------------------
\* A stack on the way there.

\* The directories of stack w below the root have the first names of r.
Along(w, r) == Len(w) - 1 <= Len(r) /\ \A i \in 1 .. Len(w) - 1 : w[i + 1].name = r[i]

\* The name that comes next.
Sought(w, r, n) == IF Len(w) - 1 < Len(r) THEN r[Len(w)] ELSE n

\* Its top holds an entry of this name, a directory but for the last.
LEMMA SoughtIsThere ==
    ASSUME NEW d, IsStore(d), NEW w, Path(d, w), NEW r, NEW n, There(d, r, n), Along(w, r)
    PROVE  /\ Has(d, Last(w).cluster, Sought(w, r, n))
           /\ Len(w) - 1 < Len(r) => \E c : Leads(d, Last(w).cluster, Sought(w, r, n), c)
  <1> DEFINE k == Len(w) - 1
             q == SubSeq(r, 1, k)
             s == SubSeq(r, k + 1, Len(r))
             c == ROOT_CLUSTER_NUMBER
  <1>1. r \in Seq(Names) /\ Len(r) \in Nat /\ Len(w) \in Nat /\ Len(w) > 0
    BY ThereNames, PathHas
  <1>2. k \in 0 .. Len(r) /\ k + 1 = Len(w)
    BY <1>1 DEF Along
  <1>3. PICK z \in Clusters : Reach(d, c, r, z) /\ Has(d, z, n)
    BY DEF There
  <1>4. PICK y \in Clusters : Reach(d, c, q, y) /\ Reach(d, y, s, z)
    <2> HIDE DEF k
    <2> QED
      BY <1>2, <1>3, ReachSplit
  <1>5. Reach(d, c, NamesFrom(w, 1), Last(w).cluster)
    <2>1. 1 \in 1 .. Len(w) /\ w[1].cluster = c
      BY <1>1, PathHas DEF Path, StackOK, RootLink, Link
    <2> QED
      BY <2>1, PathReaches
  <1>6. NamesFrom(w, 1) = q
    <2>1. NamesFrom(w, 1) = [i \in 1 .. k |-> w[1 + i].name]
      BY DEF NamesFrom
    <2>2. q = [i \in 1 .. k |-> r[i]]
      <3> HIDE DEF k
      <3> QED
        BY <1>1, <1>2
    <2>3. \A i \in 1 .. k : w[1 + i].name = r[i]
      BY <1>1 DEF Along
    <2> QED
      BY <2>1, <2>2, <2>3
  <1>7. y = Last(w).cluster
    BY <1>4, <1>5, <1>6, ReachOnce
  <1>8. CASE k = Len(r)
    <2>1. s = <<>>
      <3> HIDE DEF k
      <3> QED
        BY <1>1, <1>2, <1>8, PathParts
    <2>2. z = y
      <3> HIDE DEF s
      <3> QED
        BY <1>4, <2>1, ReachNothing
    <2>3. Sought(w, r, n) = n /\ ~(Len(w) - 1 < Len(r))
      BY <1>1, <1>8 DEF Sought
    <2> QED
      BY <1>3, <1>7, <2>2, <2>3
  <1>9. CASE k < Len(r)
    <2>1. s # <<>> /\ Head(s) = r[k + 1]
      <3> HIDE DEF k
      <3> QED
        BY <1>1, <1>2, <1>9, PathParts
    <2>2. PICK x \in Clusters : Leads(d, y, Head(s), x)
      BY <1>4, <2>1, ReachHead
    <2>3. Sought(w, r, n) = r[k + 1]
      BY <1>2, <1>9 DEF Sought
    <2> HIDE DEF k, s
    <2>4. Leads(d, Last(w).cluster, Sought(w, r, n), x)
      BY <1>7, <2>1, <2>2, <2>3
    <2> QED
      BY <2>4 DEF Leads
  <1>10. k = Len(r) \/ k < Len(r)
    <2> HIDE DEF k
    <2> QED
      BY <1>1, <1>2
  <1> QED
    BY <1>8, <1>9, <1>10

\* What the top holds is there, at the end of the names of the stack.
LEMMA TopHoldsThere ==
    ASSUME NEW d, NEW w, Path(d, w), NEW n, Has(d, Last(w).cluster, n)
    PROVE  There(d, NamesFrom(w, 1), n)
  <1>1. 1 \in 1 .. Len(w) /\ w[1].cluster = ROOT_CLUSTER_NUMBER /\ Last(w).cluster \in Clusters
    <2>1. Len(w) \in Nat /\ Len(w) > 0 /\ StackOK(w) /\ Last(w).cluster \in Clusters
      BY PathHas
    <2>2. w[1] = RootLink
      BY <2>1 DEF StackOK
    <2>3. RootLink.cluster = ROOT_CLUSTER_NUMBER
      BY DEF RootLink, Link
    <2>4. 1 \in 1 .. Len(w)
      BY <2>1
    <2> QED
      BY <2>1, <2>2, <2>3, <2>4
  <1>2. Reach(d, ROOT_CLUSTER_NUMBER, NamesFrom(w, 1), Last(w).cluster)
    BY <1>1, PathReaches
  <1> QED
    BY <1>1, <1>2 DEF There

\* get_full_path prints these.
LEMMA PathPrinted ==
    ASSUME NEW d, NEW w, Path(d, w)
    PROVE  [i \in DOMAIN w |-> w[i].name] = <<RootName>> \o NamesFrom(w, 1)
  <1> DEFINE r == NamesFrom(w, 1)
             a == [i \in DOMAIN w |-> w[i].name]
             b == <<RootName>> \o r
             N == Len(w)
  <1>1. /\ N \in Nat /\ N > 0 /\ DOMAIN w = 1 .. N /\ w[1] = RootLink
        /\ \A i \in 1 .. N : w[i].name \in Names
    <2>1. /\ StackOK(w) /\ N \in Nat /\ N > 0
          /\ \A i \in 1 .. N : w[i].name \in Names
      BY PathHas
    <2>2. w \in Seq(Links) /\ w[1] = RootLink
      BY <2>1 DEF StackOK
    <2>3. DOMAIN w = 1 .. N
      BY <2>2
    <2> QED
      BY <2>1, <2>2, <2>3
  <1>2. RootName \in Names /\ w[1].name = RootName
    BY <1>1, Fat32Assumption DEF RootLink, Link
  <1>3. r = [i \in 1 .. N - 1 |-> w[1 + i].name]
    BY DEF NamesFrom
  <1>4. \A i \in 1 .. N - 1 : w[1 + i].name \in Names
    BY <1>1
  <1> HIDE DEF r, N
  <1>5. r \in Seq(Names) /\ Len(r) = N - 1 /\ \A i \in 1 .. N - 1 : r[i] = w[1 + i].name
    BY <1>1, <1>3, <1>4
  <1>6. a \in Seq(Names) /\ Len(a) = N /\ \A i \in 1 .. N : a[i] = w[i].name
    BY <1>1
  <1>7. <<RootName>> \in Seq(Names) /\ Len(<<RootName>>) = 1 /\ <<RootName>>[1] = RootName
    BY <1>2
  <1>8. b \in Seq(Names) /\ Len(b) = N
        /\ \A i \in 1 .. N : b[i] = IF i <= 1 THEN <<RootName>>[i] ELSE r[i - 1]
    BY <1>1, <1>5, <1>7, ConcatProperties
  <1>9. \A i \in 1 .. N : a[i] = b[i]
    <2> TAKE i \in 1 .. N
    <2>1. CASE i = 1
      BY <1>2, <1>6, <1>7, <1>8, <2>1
    <2>2. CASE i # 1
      <3>1. i - 1 \in 1 .. N - 1 /\ 1 + (i - 1) = i /\ ~(i <= 1)
        BY <1>1, <2>2
      <3> QED
        BY <1>5, <1>6, <1>8, <3>1
    <2> QED
      BY <2>1, <2>2
  <1> HIDE DEF a, b
  <1>10. a = b
    BY <1>6, <1>8, <1>9, SeqEqual
  <1> QED
    BY <1>10 DEF a, b, r

\* So what a stack that went along the whole way prints is the printout.
LEMMA PrintedAlong ==
    ASSUME NEW d, NEW w, Path(d, w), NEW r \in Seq(Names), Along(w, r), ~(Len(w) - 1 < Len(r))
    PROVE  NamesFrom(w, 1) = r
  <1>1. Len(w) \in Nat /\ Len(w) > 0 /\ Len(r) \in Nat /\ \A i \in 1 .. Len(w) : w[i].name \in Names
    BY PathHas
  <1>2. Len(r) = Len(w) - 1
    BY <1>1 DEF Along
  <1>3. NamesFrom(w, 1) = [i \in 1 .. Len(r) |-> w[1 + i].name]
    BY <1>2 DEF NamesFrom
  <1>4. \A i \in 1 .. Len(r) : w[1 + i].name = r[i]
    BY <1>1, <1>2 DEF Along
  <1>5. r = [i \in 1 .. Len(r) |-> r[i]]
    OBVIOUS
  <1> QED
    BY <1>3, <1>4, <1>5

-----------------------------------------------------------------------------
\* The invariant of find.

\* A scan still comes to the entry n that r leads to: it is on the way, and has not been
\* at the next name yet; as long as it goes through a table this has it.
Meets(f, r, n) ==
    /\ f.fn = "scan" /\ Along(f.walk, r)
    /\ f.at # "peek" => Sought(f.walk, r, n) \in f.first \ f.seen
    /\ f.at = "each" => Sought(f.walk, r, n) \in DOMAIN f.cwd.entries

\* A frame of find; what it goes through is on the disk.
Looks(d, n, f) ==
    /\ f.fn \in {"scan", "find"} /\ f.name = n
    /\ f.fn = "scan" => /\ f.at \in {"peek", "each", "back"}
                        /\ f.at = "peek" => f.seen = {}
                        /\ f.at = "each" => Covers(d, f.cwd)

\* m has been printed, or will be by one of the frames F.
Coming(d, n, F, o, m) ==
    \/ m \in o
    \/ m = <<RootName>> /\ n = RootName /\ \E f \in F : f.fn = "find" /\ f.at = "root"
    \/ \E r : There(d, r, n) /\ m = Printout(r, n) /\ \E f \in F : Meets(f, r, n)

\* A find for n with call stack c that has printed o, of what is due; find itself runs at
\* the end.
Finds(d, n, c, o, due) ==
    /\ \A f \in FramesOf(c) : Looks(d, n, f)
    /\ \A a, b : Atop(c, a, b) => a.fn = "scan"
    /\ \A m \in o : IsMatch(d, n, m)
    /\ \A m \in due : Coming(d, n, FramesOf(c), o, m)

\* What a shell works on, when that is a find.
FindOf(d, l, c, o) == l.cmd = "find" => Finds(d, Last(l.path), c, o, l.due)

FindInv == \A s \in Shells : FindOf(disk, line[s], call[s], out[s])

\* No find is for a name that only begins as the root's does.
NotRootLike(l) == l.cmd = "find" => Last(l.path) \notin RootLike \ {RootName}

NoRootLike == \A s \in Shells : NotRootLike(line[s])

-----------------------------------------------------------------------------
\* What is made elsewhere.

\* No match goes,
LEMMA ThereGrows ==
    ASSUME NEW d, NEW e, NEW p, NEW k, NEW isdir, Grows(d, e, p, k, isdir), NEW r, NEW n, There(d, r, n)
    PROVE  There(e, r, n)
  <1>1. PICK z \in Clusters : Reach(d, ROOT_CLUSTER_NUMBER, r, z) /\ Has(d, z, n)
    BY DEF There
  <1>2. Reach(e, ROOT_CLUSTER_NUMBER, r, z)
    BY <1>1, GrowsKeeps, ReachKept
  <1>3. Has(e, z, n)
    BY <1>1 DEF Grows
  <1> QED
    BY <1>2, <1>3 DEF There

\* no entry of a table that was read changes,
LEMMA CoversGrows ==
    ASSUME NEW d, NEW e, NEW p, NEW k, NEW isdir, Grows(d, e, p, k, isdir), NEW t, t.self.cluster \in Clusters,
           Covers(d, t)
    PROVE  Covers(e, t)
  BY DEF Covers, Grows

\* and a find finds as before.
LEMMA FindsGrows ==
    ASSUME NEW d, NEW e, NEW p, NEW k, NEW isdir, Grows(d, e, p, k, isdir),
           NEW n, NEW c, NEW o, NEW due, Finds(d, n, c, o, due),
           \A f \in FramesOf(c) : f.fn = "scan" /\ f.at = "each" => f.cwd.self.cluster \in Clusters
    PROVE  Finds(e, n, c, o, due)
  <1>1. \A r : There(d, r, n) => There(e, r, n)
    BY ThereGrows
  <1>2. ASSUME NEW f \in FramesOf(c) PROVE Looks(e, n, f)
    <2>1. Looks(d, n, f)
      BY DEF Finds
    <2>2. f.fn = "scan" /\ f.at = "each" => Covers(e, f.cwd)
      BY <2>1, CoversGrows DEF Looks
    <2> QED
      BY <2>1, <2>2 DEF Looks
  <1>3. ASSUME NEW m \in o PROVE IsMatch(e, n, m)
    BY <1>1, <1>3 DEF Finds, IsMatch
  <1>4. ASSUME NEW m \in due PROVE Coming(e, n, FramesOf(c), o, m)
    BY <1>1, <1>4 DEF Finds, Coming
  <1> QED
    BY <1>2, <1>3, <1>4 DEF Finds

\* What stands on a path and goes through a table goes through one of the disk.
LEMMA ScansAtTables ==
    ASSUME PathInv, NEW s \in Shells, NEW f \in FramesOf(call[s]), f.fn = "scan", f.at = "each"
    PROVE  f.cwd.self = Last(f.walk) /\ f.cwd.self.cluster \in Clusters
  <1>1. Good(disk, dts, dts[s], line[s], f)
    BY FramesOnPaths
  <1>2. Path(disk, f.walk) /\ ScanGood(f)
    BY <1>1 DEF Good
  <1> QED
    BY <1>2, PathHas DEF ScanGood

\* Only rm and mv remove.
LEMMA RemoversKill ==
    ASSUME Served, CallsInv, PathInv, NEW s \in Shells, RemoveLast(s) \/ FlushChild(s) \/ FlushEnd(s)
    PROVE  Kills(line[s])
  <1>1. CASE RemoveLast(s)
    <2> DEFINE f == Head(call[s])
    <2>1. In(s, {"rm"}, "name") /\ "rm" \in Loops /\ Len(f.rest) = 1
      BY <1>1 DEF RemoveLast, Loops, IsLast
    <2>2. f.fn = "rm" /\ Good(disk, dts, dts[s], line[s], f)
      BY <2>1, LoopNowIn
    <2> QED
      BY <2>1, <2>2, RemovedIsDoomed
  <1>2. CASE FlushChild(s) \/ FlushEnd(s)
    <2>1. In(s, {"flush"}, "each")
      BY <1>2 DEF FlushChild, FlushEnd
    <2> QED
      BY <2>1, FlushNow DEF FlushGood
  <1> QED
    BY <1>1, <1>2

\* A step keeps this for the command that takes it, if that goes on.
FindOn(s) == call'[s] # <<>> => FindOf(disk', line[s], call'[s], out'[s])

\* Then it does for all.
LEMMA FindKept ==
    ASSUME Served, CallsInv, PathInv, FindInv, NEW s \in Shells, Step(s), FindOn(s) PROVE FindInv'
  <1>0. CallsInv'
    BY StepKeeps
  <1>1. OwnStep(s) /\ call[s] # <<>>
    BY StepIsOwn
  <1> SUFFICES ASSUME NEW z \in Shells PROVE FindOf(disk', line'[z], call'[z], out'[z])
    BY DEF FindInv
  <1>2. CASE call'[z] = <<>>
    <2>1. line'[z] = NoLine
      BY <1>0, <1>2 DEF CallsInv
    <2> QED
      BY <2>1 DEF FindOf, NoLine
  <1>3. CASE z = s /\ call'[z] # <<>>
    <2>1. line'[s] = line[s]
      BY <1>1, <1>3 DEF OwnStep
    <2> QED
      BY <1>3, <2>1 DEF FindOn
  <1>4. CASE z # s /\ call'[z] # <<>>
    <2>1. call'[z] = call[z] /\ line'[z] = line[z] /\ out'[z] = out[z]
      BY <1>1, <1>4 DEF OwnStep
    <2>2. FindOf(disk, line[z], call[z], out[z])
      BY DEF FindInv
    <2>3. ~Kills(line[s])
      BY <1>1, <1>4, <2>1, OthersCalm
    <2>4. CASE UNCHANGED vars
      BY <2>1, <2>2, <2>4 DEF vars
    <2>5. CASE \E p \in Clusters, n \in Names, isdir \in BOOLEAN : Grows(disk, disk', p, n, isdir)
      <3>1. PICK p \in Clusters, n \in Names, isdir \in BOOLEAN : Grows(disk, disk', p, n, isdir)
        BY <2>5
      <3>2. \A f \in FramesOf(call[z]) : f.fn = "scan" /\ f.at = "each" => f.cwd.self.cluster \in Clusters
        BY ScansAtTables
      <3>3. FindOf(disk', line[z], call[z], out[z])
        BY <2>2, <3>1, <3>2, FindsGrows DEF FindOf
      <3> QED
        BY <2>1, <3>3
    <2>6. ~(RemoveLast(s) \/ FlushChild(s) \/ FlushEnd(s))
      BY <1>1, <2>3, RemoversKill
    <2> QED
      BY <2>4, <2>5, <2>6, StepGrows
  <1> QED
    BY <1>2, <1>3, <1>4

-----------------------------------------------------------------------------
\* The frames that are put on a stack are on it, and so are those below.
LEMMA FramesThere ==
    ASSUME NEW S, NEW c \in Seq(S), c # <<>>
    PROVE  LET t == Tail(c)
           IN  /\ \A f : {f} \cup FramesOf(t) \subseteq FramesOf(<<f>> \o t)
               /\ \A f, g : {f, g} \cup FramesOf(t) \subseteq FramesOf(<<f, g>> \o t)
  <1> DEFINE t == Tail(c)
             T == S
  <1>1. t \in Seq(S) /\ Len(t) \in Nat /\ DOMAIN t = 1 .. Len(t)
    OBVIOUS
  <1> HIDE DEF t
  <1>2. ASSUME NEW f PROVE {f} \cup FramesOf(t) \subseteq FramesOf(<<f>> \o t)
    <2> DEFINE u == <<f>> \o t
    <2>1. DOMAIN u = 1 .. Len(t) + 1 /\ u[1] = f /\ \A i \in 1 .. Len(t) : u[i + 1] = t[i]
      BY <1>1
    <2>2. \A i \in 1 .. Len(t) : i + 1 \in 1 .. Len(t) + 1
      BY <1>1
    <2>3. 1 \in 1 .. Len(t) + 1
      BY <1>1
    <2> HIDE DEF u
    <2>4. FramesOf(t) \subseteq FramesOf(u) /\ f \in FramesOf(u)
      BY <1>1, <2>1, <2>2, <2>3 DEF FramesOf
    <2> QED
      BY <2>4 DEF u
  <1>3. ASSUME NEW f, NEW g PROVE {f, g} \cup FramesOf(t) \subseteq FramesOf(<<f, g>> \o t)
    <2> DEFINE u == <<f, g>> \o t
    <2>1. DOMAIN u = 1 .. Len(t) + 2 /\ u[1] = f /\ u[2] = g /\ \A i \in 1 .. Len(t) : u[i + 2] = t[i]
      BY <1>1
    <2>2. \A i \in 1 .. Len(t) : i + 2 \in 1 .. Len(t) + 2
      BY <1>1
    <2>3. 1 \in 1 .. Len(t) + 2 /\ 2 \in 1 .. Len(t) + 2
      BY <1>1
    <2> HIDE DEF u
    <2>4. FramesOf(t) \subseteq FramesOf(u) /\ f \in FramesOf(u) /\ g \in FramesOf(u)
      BY <1>1, <2>1, <2>2, <2>3 DEF FramesOf
    <2> QED
      BY <2>4 DEF u
  <1> QED
    BY <1>2, <1>3 DEF t

\* A stack has a frame.
LEMMA NoFramesLeft ==
    ASSUME NEW S, NEW c \in Seq(S), FramesOf(c) = {}
    PROVE  c = <<>>
  <1> SUFFICES ASSUME c # <<>> PROVE FALSE
    OBVIOUS
  <1>1. 1 \in DOMAIN c
    OBVIOUS
  <1>2. c[1] \in FramesOf(c)
    BY <1>1 DEF FramesOf
  <1> QED
    BY <1>2

\* Frames N have been put on t, which was below the frame that ran.
PutOn(c, N, t) ==
    /\ FramesOf(c) = N \cup FramesOf(t)
    /\ \A a, b : Atop(c, a, b) => a \in N \/ Atop(t, a, b)

\* So a step leaves none, one or two.
LEMMA StackIsPut ==
    ASSUME NEW S, NEW c \in Seq(S), c # <<>>
    PROVE  LET t == Tail(c)
           IN  /\ PutOn(t, {}, t)
               /\ \A f : PutOn(<<f>> \o t, {f}, t)
               /\ \A f, g : PutOn(<<f, g>> \o t, {f, g}, t)
  <1> DEFINE t == Tail(c)
  <1>1. /\ \A f : {f} \cup FramesOf(t) \subseteq FramesOf(<<f>> \o t)
        /\ \A f, g : {f, g} \cup FramesOf(t) \subseteq FramesOf(<<f, g>> \o t)
    BY FramesThere
  <1>2. /\ \A f : /\ FramesOf(<<f>> \o t) \subseteq {f} \cup FramesOf(t)
                  /\ \A a, b : Atop(<<f>> \o t, a, b) => (a = f /\ b \in FramesOf(t)) \/ Atop(t, a, b)
        /\ \A f, g : /\ FramesOf(<<f, g>> \o t) \subseteq {f, g} \cup FramesOf(t)
                     /\ \A a, b : Atop(<<f, g>> \o t, a, b) =>
                          \/ a = f /\ b = g
                          \/ a \in {f, g} /\ b \in FramesOf(t)
                          \/ Atop(t, a, b)
    BY FramesAre
  <1> HIDE DEF t
  <1>3. PutOn(t, {}, t)
    BY DEF PutOn
  <1>4. ASSUME NEW f PROVE PutOn(<<f>> \o t, {f}, t)
    <2>1. FramesOf(<<f>> \o t) = {f} \cup FramesOf(t)
      BY <1>1, <1>2
    <2>2. \A a, b : Atop(<<f>> \o t, a, b) => a \in {f} \/ Atop(t, a, b)
      BY <1>2
    <2> QED
      BY <2>1, <2>2 DEF PutOn
  <1>5. ASSUME NEW f, NEW g PROVE PutOn(<<f, g>> \o t, {f, g}, t)
    <2>1. FramesOf(<<f, g>> \o t) = {f, g} \cup FramesOf(t)
      BY <1>1, <1>2
    <2>2. \A a, b : Atop(<<f, g>> \o t, a, b) => a \in {f, g} \/ Atop(t, a, b)
      BY <1>2
    <2> QED
      BY <2>1, <2>2 DEF PutOn
  <1> QED
    BY <1>3, <1>4, <1>5 DEF t

\* The frame that runs, and those that wait.
LEMMA FindBelow ==
    ASSUME CallsInv, FindInv, NEW s \in Shells, call[s] # <<>>, line[s].cmd = "find"
    PROVE  LET f == Head(call[s])
               t == Tail(call[s])
               n == Last(line[s].path)
           IN  /\ Finds(disk, n, call[s], out[s], line[s].due)
               /\ Looks(disk, n, f)
               /\ FramesOf(call[s]) = {f} \cup FramesOf(t)
               /\ \A b \in FramesOf(t) : Looks(disk, n, b)
               /\ \A a, b : Atop(t, a, b) => a.fn = "scan"
               /\ f.fn = "find" => t = <<>>
               /\ \E S : call[s] \in Seq(S)
  <1> DEFINE f == Head(call[s])
             t == Tail(call[s])
             n == Last(line[s].path)
  <1>1. PICK S : call[s] \in Seq(S)
    BY CallStack DEF FramesOK
  <1>2. Finds(disk, n, call[s], out[s], line[s].due)
    BY DEF FindInv, FindOf
  <1>3. f \in FramesOf(call[s]) /\ FramesOf(t) \subseteq FramesOf(call[s])
    BY <1>1, FramesAre
  <1>4. (\A a, b : Atop(t, a, b) => Atop(call[s], a, b)) /\ \A b \in FramesOf(t) : Atop(call[s], f, b)
    BY <1>1, FramesAre
  <1>5. FramesOf(call[s]) \subseteq {f} \cup FramesOf(t)
    <2>1. FramesOf(<<f>> \o t) \subseteq {f} \cup FramesOf(t)
      BY <1>1, FramesAre
    <2>2. call[s] = <<f>> \o t
      BY <1>1
    <2> QED
      BY <2>1, <2>2
  <1>6. t \in Seq(S)
    BY <1>1
  <1> HIDE DEF f, t, n
  <1>7. f.fn = "find" => t = <<>>
    <2>1. f.fn = "find" => FramesOf(t) = {}
      BY <1>2, <1>4 DEF Finds
    <2> QED
      BY <1>6, <2>1, NoFramesLeft
  <1>8. Looks(disk, n, f) /\ (\A b \in FramesOf(t) : Looks(disk, n, b)) /\ \A a, b : Atop(t, a, b) => a.fn = "scan"
    BY <1>2, <1>3, <1>4 DEF Finds
  <1> QED
    BY <1>1, <1>2, <1>3, <1>5, <1>7, <1>8 DEF f, t, n

\* A scan goes on with the frames N, which come to what it would have come to but for what
\* it prints.
LEMMA ScanGoes ==
    ASSUME CallsInv, FindInv, NEW s \in Shells, call[s] # <<>>, line[s].cmd = "find",
           Head(call[s]).fn = "scan", disk' = disk, NEW N, PutOn(call'[s], N, Tail(call[s])),
           NEW n, n = Last(line[s].path),
           \A f \in N : f.fn = "scan" /\ Looks(disk, n, f),
           out[s] \subseteq out'[s], \A m \in out'[s] \ out[s] : IsMatch(disk, n, m),
           \A r : There(disk, r, n) /\ Meets(Head(call[s]), r, n) =>
                    Printout(r, n) \in out'[s] \/ \E f \in N : Meets(f, r, n)
    PROVE  FindOn(s)
  <1> DEFINE f == Head(call[s])
             t == Tail(call[s])
             due == line[s].due
             F == FramesOf(call[s])
             G == FramesOf(call'[s])
  <1>1. /\ Finds(disk, n, call[s], out[s], due) /\ F = {f} \cup FramesOf(t)
        /\ \A b \in FramesOf(t) : Looks(disk, n, b)
        /\ \A a, b : Atop(t, a, b) => a.fn = "scan"
    BY FindBelow
  <1>2. G = N \cup FramesOf(t) /\ \A a, b : Atop(call'[s], a, b) => a \in N \/ Atop(t, a, b)
    BY DEF PutOn
  <1>3. f.fn = "scan"
    OBVIOUS
  <1>4. \A r : There(disk, r, n) /\ Meets(f, r, n) => Printout(r, n) \in out'[s] \/ \E x \in N : Meets(x, r, n)
    OBVIOUS
  <1> HIDE DEF f, t, F, G, due
  <1>5. \A x \in G : Looks(disk, n, x)
    BY <1>1, <1>2
  <1>6. \A a, b : Atop(call'[s], a, b) => a.fn = "scan"
    BY <1>1, <1>2
  <1>7. \A m \in out'[s] : IsMatch(disk, n, m)
    BY <1>1 DEF Finds
  <1>8. ASSUME NEW m \in due PROVE Coming(disk, n, G, out'[s], m)
    <2>1. Coming(disk, n, F, out[s], m)
      BY <1>1 DEF Finds, F
    <2>2. CASE m \in out[s]
      BY <2>2 DEF Coming
    <2>3. CASE m = <<RootName>> /\ n = RootName /\ \E x \in F : x.fn = "find" /\ x.at = "root"
      BY <1>1, <1>2, <1>3, <2>3 DEF Coming
    <2>4. ASSUME NEW r, There(disk, r, n), m = Printout(r, n), NEW x \in F, Meets(x, r, n)
          PROVE  Coming(disk, n, G, out'[s], m)
      BY <1>1, <1>2, <1>4, <2>4 DEF Coming
    <2> QED
      BY <2>1, <2>2, <2>3, <2>4 DEF Coming
  <1>9. Finds(disk, n, call'[s], out'[s], due)
    BY <1>5, <1>6, <1>7, <1>8 DEF Finds, G
  <1> QED
    BY <1>9 DEF FindOn, FindOf, due

-----------------------------------------------------------------------------
\* The steps of find.

\* A table just read.
LEMMA JustCovers ==
    ASSUME NEW d, NEW t, t = ReadTable(d, t.self.cluster)
    PROVE  Covers(d, t)
  BY DEF Covers, Has, EntryOf

\* One directory further on the way.
LEMMA AlongLonger ==
    ASSUME NEW w \in Seq(Links), Len(w) > 0, NEW r \in Seq(Names), NEW n, Along(w, r), Len(w) - 1 < Len(r),
           NEW x \in Links, x.name = Sought(w, r, n)
    PROVE  Along(Append(w, x), r)
  <1> DEFINE v == Append(w, x)
             N == Len(w)
  <1>1. N \in Nat /\ Len(r) \in Nat /\ N > 0
    OBVIOUS
  <1>2. Len(v) = N + 1 /\ v[N + 1] = x /\ \A i \in 1 .. N : v[i] = w[i]
    BY AppendProperties
  <1>3. x.name = r[N]
    BY DEF Sought
  <1> HIDE DEF v, N
  <1>4. (\A i \in 1 .. N - 1 : w[i + 1].name = r[i]) /\ N - 1 < Len(r)
    BY DEF Along, N
  <1>5. ASSUME NEW i \in 1 .. N PROVE v[i + 1].name = r[i]
    <2>1. CASE i = N
      BY <1>2, <1>3, <2>1
    <2>2. CASE i # N
      <3>1. i \in 1 .. N - 1 /\ i + 1 \in 1 .. N
        BY <1>1, <2>2
      <3> QED
        BY <1>2, <1>4, <3>1
    <2> QED
      BY <2>1, <2>2
  <1>6. Len(v) - 1 = N /\ N <= Len(r)
    BY <1>1, <1>2, <1>4
  <1>7. Along(v, r)
    BY <1>5, <1>6 DEF Along
  <1> QED
    BY <1>7 DEF v

\* The table of the directory is read: at first, and again after a subdirectory.  What
\* the scan still comes to is in it.
LEMMA FindReads ==
    ASSUME Served, CallsInv, PathInv, FindInv, NEW s \in Shells, PeekScan(s) \/ ScanOn(s)
    PROVE  FindOn(s)
  <1> DEFINE f == Head(call[s])
             t == Peeked(f)
             n == Last(line[s].path)
             a == [f EXCEPT !.at = "each", !.cwd = t, !.first = DOMAIN t.entries]
             b == [f EXCEPT !.at = "each", !.cwd = t]
  <1>1. PICK at : In(s, {"scan"}, at) /\ (PeekScan(s) => at = "peek") /\ (ScanOn(s) => at = "back")
    BY DEF PeekScan, ScanOn, In
  <1>2. /\ call[s] # <<>> /\ f.fn = "scan" /\ {"fn", "at", "name", "walk", "cwd", "first", "seen"} \subseteq DOMAIN f
        /\ Path(disk, f.walk) /\ f.at = at
        /\ t = ReadTable(disk, Last(f.walk).cluster) /\ t.self = Last(f.walk)
    BY <1>1, ScanNow
  <1>3. UNCHANGED vars /\ disk' = disk /\ t # Unread
    <2>1. t # Unread
      BY <1>2 DEF ReadTable, Table, Unread
    <2>2. UNCHANGED vars
      BY DEF PeekScan, ScanOn
    <2> QED
      BY <2>1, <2>2 DEF vars
  <1> SUFFICES ASSUME line[s].cmd = "find" PROVE FindOn(s)
    BY DEF FindOn, FindOf
  <1>4. Looks(disk, n, f) /\ \E S : call[s] \in Seq(S)
    BY <1>2, FindBelow
  <1>5. /\ PeekScan(s) => GoOn(s, <<a>>) /\ at = "peek"
        /\ ScanOn(s) => GoOn(s, <<b>>) /\ at = "back"
    BY <1>1, <1>3 DEF PeekScan, ScanOn
  <1>6. PICK g \in {a, b} : /\ GoOn(s, <<g>>) /\ (g.first \ g.seen = DOMAIN t.entries \/ (at # "peek" /\ g.first = f.first /\ g.seen = f.seen))
                            /\ g.fn = "scan" /\ g.name = n /\ g.at = "each" /\ g.walk = f.walk /\ g.cwd = t
    <2>1. CASE PeekScan(s)
      <3>1. f.seen = {} /\ f.name = n
        BY <1>1, <1>2, <1>4, <2>1 DEF Looks
      <3> QED
        BY <1>2, <1>5, <2>1, <3>1
    <2>2. CASE ScanOn(s)
      <3>1. f.name = n
        BY <1>4 DEF Looks
      <3> QED
        BY <1>2, <1>5, <2>2, <3>1
    <2> QED
      BY <2>1, <2>2
  <1> HIDE DEF a, b, t
  <1>7. call'[s] = <<g>> \o Tail(call[s]) /\ out' = out
    BY <1>2, <1>6, OwnWays
  <1>8. PutOn(call'[s], {g}, Tail(call[s]))
    BY <1>2, <1>4, <1>7, StackIsPut
  <1>9. Looks(disk, n, g)
    <2>1. Covers(disk, t)
      BY <1>2, JustCovers
    <2> QED
      BY <1>6, <2>1 DEF Looks
  <1>10. ASSUME NEW r, There(disk, r, n), Meets(f, r, n) PROVE Meets(g, r, n)
    <2>1. Along(f.walk, r) /\ (at # "peek" => Sought(f.walk, r, n) \in f.first \ f.seen)
      BY <1>2, <1>10 DEF Meets
    <2>2. Has(disk, Last(f.walk).cluster, Sought(f.walk, r, n))
      BY <1>2, <1>10, <2>1, StoreServed, SoughtIsThere
    <2>3. Sought(f.walk, r, n) \in DOMAIN t.entries
      BY <1>2, <2>2 DEF Has
    <2> QED
      BY <1>6, <2>1, <2>3 DEF Meets
  <1> HIDE DEF f, n
  <1>11. \A x \in {g} : x.fn = "scan" /\ Looks(disk, n, x)
    BY <1>6, <1>9
  <1> DEFINE N == {g}
  <1>12. \A r : There(disk, r, n) /\ Meets(f, r, n) => Printout(r, n) \in out'[s] \/ \E x \in N : Meets(x, r, n)
    BY <1>10
  <1>13. /\ PutOn(call'[s], N, Tail(call[s]))
         /\ \A x \in N : x.fn = "scan" /\ Looks(disk, n, x)
         /\ out[s] \subseteq out'[s] /\ \A m \in out'[s] \ out[s] : IsMatch(disk, n, m)
    BY <1>7, <1>8, <1>11
  <1> HIDE DEF N
  <1>14. call[s] # <<>> /\ Head(call[s]).fn = "scan" /\ n = Last(line[s].path)
    BY <1>2 DEF f, n
  <1>15. \A r : There(disk, r, n) /\ Meets(Head(call[s]), r, n) =>
                 Printout(r, n) \in out'[s] \/ \E x \in N : Meets(x, r, n)
    BY <1>12 DEF f
  <1> QED
    BY <1>3, <1>13, <1>14, <1>15, ScanGoes

\* At the end of its table a scan has come to all it was to come to.
LEMMA FindTurnsBack ==
    ASSUME Served, CallsInv, PathInv, FindInv, NEW s \in Shells, ScanEnd(s)
    PROVE  FindOn(s)
  <1> DEFINE f == Head(call[s])
             n == Last(line[s].path)
             N == {}
  <1>1. /\ In(s, {"scan"}, "each") /\ Return(s) /\ UNCHANGED vars
        /\ f.first \cap DOMAIN f.cwd.entries \subseteq f.seen
    BY DEF ScanEnd
  <1>2. call[s] # <<>> /\ f.fn = "scan" /\ f.at = "each" /\ disk' = disk
    BY <1>1, ScanNow DEF vars
  <1> SUFFICES ASSUME line[s].cmd = "find", call'[s] # <<>> PROVE FindOn(s)
    BY DEF FindOn, FindOf
  <1>3. \E S : call[s] \in Seq(S)
    BY <1>2, FindBelow
  <1>4. call'[s] = Tail(call[s]) /\ out' = out
    BY <1>1, <1>2, OwnWays
  <1>5. PutOn(call'[s], N, Tail(call[s]))
    BY <1>2, <1>3, <1>4, StackIsPut
  <1>6. \A r : ~Meets(f, r, n)
    BY <1>1, <1>2 DEF Meets
  <1> HIDE DEF f, n, N
  <1>7. /\ \A x \in N : x.fn = "scan" /\ Looks(disk, n, x)
        /\ \A r : There(disk, r, n) /\ Meets(f, r, n) => Printout(r, n) \in out'[s] \/ \E x \in N : Meets(x, r, n)
    BY <1>6 DEF N
  <1> QED
    BY <1>2, <1>4, <1>5, <1>7, ScanGoes DEF f, n

-----------------------------------------------------------------------------
\* find_helper meets an entry n, with the stack f.walk: what it prints, and where it
\* goes on.
LEMMA MetEntry ==
    ASSUME Served, CallsInv, PathInv, NEW s \in Shells, ScanEntry(s)
    PROVE  LET f == Head(call[s])
               p == Last(f.walk).cluster
           IN  /\ call[s] # <<>> /\ f.fn = "scan" /\ f.at = "each" /\ disk' = disk
               /\ {"fn", "at", "name", "walk", "cwd", "first", "seen"} \subseteq DOMAIN f
               /\ Path(disk, f.walk) /\ Known(f.cwd) /\ f.cwd.self = Last(f.walk)
               /\ \E n \in DOMAIN f.cwd.entries \ f.seen :
                    LET t == ReadDirectory(p, n)
                        g == [f EXCEPT !.seen = @ \cup {n}]
                        h == Scan(f.name, Pushed(f.walk, t))
                        b == [g EXCEPT !.at = "back", !.cwd = t]
                        dir == f.cwd.entries[n].dir
                    IN  /\ n \in Names /\ (dir => ~MakesRoot(p, n))
                        /\ out'[s] = out[s] \cup Printed(f, n)
                        /\ call'[s] = IF ~dir THEN <<g>> \o Tail(call[s])
                                      ELSE IF Reads(p, n) THEN <<h, b>> \o Tail(call[s])
                                      ELSE Tail(call[s])
  <1> DEFINE f == Head(call[s])
             p == Last(f.walk).cluster
  <1>0. In(s, {"scan"}, "each")
    BY DEF ScanEntry
  <1>1. /\ call[s] # <<>> /\ f.fn = "scan" /\ f.at = "each"
        /\ {"fn", "at", "name", "walk", "cwd", "first", "seen"} \subseteq DOMAIN f
        /\ Path(disk, f.walk) /\ ScanGood(f) /\ Known(f.cwd)
    BY <1>0, ScanNow
  <1>2. f.cwd.self = Last(f.walk) /\ \A n \in DOMAIN f.cwd.entries : f.cwd.entries[n].dir => ~MakesRoot(p, n)
    BY <1>1 DEF ScanGood
  <1>3. ClusterNumber(f.cwd) = p /\ DOMAIN f.cwd.entries \subseteq Names
    BY <1>1, <1>2, KnownFacts
  <1>4. disk' = disk
    BY DEF ScanEntry, vars
  <1>5. DOMAIN out = Shells /\ DOMAIN call = Shells
    BY DEF CallsInv
  <1>6. PICK n \in DOMAIN f.cwd.entries \ f.seen :
          LET t == ReadDirectory(p, n)
              g == [f EXCEPT !.seen = @ \cup {n}]
          IN  /\ out' = [out EXCEPT ![s] = @ \cup Printed(f, n)]
              /\ call' = [call EXCEPT ![s] =
                   IF ~f.cwd.entries[n].dir THEN <<g>> \o Tail(@)
                   ELSE IF Reads(p, n)
                     THEN <<Scan(f.name, Pushed(f.walk, t)), [g EXCEPT !.at = "back", !.cwd = t]>> \o Tail(@)
                     ELSE Tail(@)]
    BY <1>3 DEF ScanEntry
  <1> DEFINE t == ReadDirectory(p, n)
             g == [f EXCEPT !.seen = @ \cup {n}]
             h == Scan(f.name, Pushed(f.walk, t))
             b == [g EXCEPT !.at = "back", !.cwd = t]
             c == IF ~f.cwd.entries[n].dir THEN <<g>> \o Tail(call[s])
                  ELSE IF Reads(p, n) THEN <<h, b>> \o Tail(call[s])
                  ELSE Tail(call[s])
             o == out[s] \cup Printed(f, n)
  <1>7. call' = [call EXCEPT ![s] = c] /\ out' = [out EXCEPT ![s] = o]
    BY <1>6
  <1>8. call'[s] = c /\ out'[s] = o
    <2> HIDE DEF c, o
    <2> QED
      BY <1>5, <1>7
  <1>9. n \in Names /\ (f.cwd.entries[n].dir => ~MakesRoot(p, n))
    BY <1>2, <1>3
  <1> QED
    BY <1>1, <1>2, <1>4, <1>6, <1>8, <1>9

\* What is printed for an entry is its place.
LEMMA PrintedIs ==
    ASSUME NEW f, NEW d, Path(d, f.walk), NEW n \in Names, Has(d, Last(f.walk).cluster, n)
    PROVE  /\ f.name = n => Printed(f, n) = {Printout(NamesFrom(f.walk, 1), n)}
           /\ f.name # n => Printed(f, n) = {}
           /\ There(d, NamesFrom(f.walk, 1), n)
  <1>1. [i \in DOMAIN f.walk |-> f.walk[i].name] = <<RootName>> \o NamesFrom(f.walk, 1)
    BY PathPrinted
  <1>2. There(d, NamesFrom(f.walk, 1), n)
    BY TopHoldsThere
  <1>3. Printed(f, n) = {Printout(NamesFrom(f.walk, 1), n) : m \in {f.name} \cap {n}}
    BY <1>1 DEF Printed, Printout
  <1> QED
    BY <1>2, <1>3

\* The scan that met an entry and goes on in its table.
LEMMA MeetsStill ==
    ASSUME NEW f, NEW g, NEW k, NEW r, NEW n, Meets(f, r, n), f.at = "each",
           g.fn = "scan", g.walk = f.walk, g.first = f.first, g.seen = f.seen \cup {k},
           g.at = "back" \/ (g.at = "each" /\ g.cwd = f.cwd), Sought(f.walk, r, n) # k
    PROVE  Meets(g, r, n)
  BY DEF Meets

\* An entry is met: it is printed if it is sought, a directory is scanned, and the scan
\* goes on.
LEMMA FindMeets ==
    ASSUME Served, CallsInv, PathInv, FindInv, NEW s \in Shells, ScanEntry(s)
    PROVE  FindOn(s)
  <1> DEFINE f == Head(call[s])
             w == f.walk
             p == Last(w).cluster
             n == Last(line[s].path)
  <1>1. /\ call[s] # <<>> /\ f.fn = "scan" /\ f.at = "each" /\ disk' = disk
        /\ {"fn", "at", "name", "walk", "cwd", "first", "seen"} \subseteq DOMAIN f
        /\ Path(disk, w) /\ Known(f.cwd) /\ f.cwd.self = Last(w)
    BY MetEntry
  <1>2. PICK k \in DOMAIN f.cwd.entries \ f.seen :
          LET t == ReadDirectory(p, k)
              g == [f EXCEPT !.seen = @ \cup {k}]
              h == Scan(f.name, Pushed(w, t))
              b == [g EXCEPT !.at = "back", !.cwd = t]
              dir == f.cwd.entries[k].dir
          IN  /\ k \in Names /\ (dir => ~MakesRoot(p, k))
              /\ out'[s] = out[s] \cup Printed(f, k)
              /\ call'[s] = IF ~dir THEN <<g>> \o Tail(call[s])
                            ELSE IF Reads(p, k) THEN <<h, b>> \o Tail(call[s])
                            ELSE Tail(call[s])
    BY MetEntry
  <1> DEFINE t == ReadDirectory(p, k)
             g == [f EXCEPT !.seen = @ \cup {k}]
             h == Scan(f.name, Pushed(w, t))
             b == [g EXCEPT !.at = "back", !.cwd = t]
             dir == f.cwd.entries[k].dir
             names == NamesFrom(w, 1)
  <1>3. /\ k \in Names /\ (dir => ~MakesRoot(p, k)) /\ out'[s] = out[s] \cup Printed(f, k)
        /\ ~dir => call'[s] = <<g>> \o Tail(call[s])
        /\ dir /\ Reads(p, k) => call'[s] = <<h, b>> \o Tail(call[s])
    BY <1>2
  <1> SUFFICES ASSUME line[s].cmd = "find" PROVE FindOn(s)
    BY DEF FindOn, FindOf
  <1>4. Looks(disk, n, f) /\ \E S : call[s] \in Seq(S)
    BY <1>1, FindBelow
  <1>5. f.name = n /\ Has(disk, p, k) /\ EntryOf(disk, p, k) = f.cwd.entries[k] /\ Covers(disk, f.cwd)
    BY <1>1, <1>4 DEF Looks, Covers
  <1>6. IsStore(disk)
    BY StoreServed
  <1>7. /\ n = k => Printed(f, k) = {Printout(names, k)}
        /\ n # k => Printed(f, k) = {}
        /\ There(disk, names, k)
    BY <1>1, <1>3, <1>5, PrintedIs
  <1>8. out[s] \subseteq out'[s] /\ \A m \in out'[s] \ out[s] : IsMatch(disk, n, m)
    <2>1. \A m \in Printed(f, k) : n = k /\ m = Printout(names, n) /\ There(disk, names, n)
      BY <1>7
    <2> QED
      BY <1>3, <2>1 DEF IsMatch
  <1>9. /\ g.fn = "scan" /\ g.at = "each" /\ g.name = n /\ g.walk = w /\ g.cwd = f.cwd
        /\ g.first = f.first /\ g.seen = f.seen \cup {k}
        /\ b.fn = "scan" /\ b.at = "back" /\ b.name = n /\ b.walk = w
        /\ b.first = f.first /\ b.seen = f.seen \cup {k}
    BY <1>1, <1>5
  <1>10. h.fn = "scan" /\ h.at = "peek" /\ h.name = n /\ h.walk = Pushed(w, t) /\ h.seen = {}
    BY <1>5 DEF Scan
  <1>11. Looks(disk, n, g) /\ Looks(disk, n, b) /\ Looks(disk, n, h)
    <2> HIDE DEF g, b, h
    <2> QED
      BY <1>5, <1>9, <1>10 DEF Looks
  <1> HIDE DEF g, b, h, f
  <1>12. ASSUME NEW r, There(disk, r, n), Meets(f, r, n), Sought(w, r, n) # k
         PROVE  Meets(g, r, n) /\ Meets(b, r, n)
    BY <1>1, <1>9, <1>12, MeetsStill
  <1>13. ASSUME NEW r, There(disk, r, n), Meets(f, r, n), Sought(w, r, n) = k, ~(Len(w) - 1 < Len(r))
         PROVE  Printout(r, n) \in out'[s]
    <2>1. Along(w, r) /\ r \in Seq(Names) /\ k = n
      BY <1>6, <1>13, ThereNames DEF Meets, Sought
    <2>2. names = r
      <3> HIDE DEF w
      <3> QED
        BY <1>1, <1>13, <2>1, PrintedAlong
    <2> QED
      BY <1>3, <1>7, <2>1, <2>2
  <1>14. ASSUME NEW r, There(disk, r, n), Meets(f, r, n), Sought(w, r, n) = k, Len(w) - 1 < Len(r)
         PROVE  /\ dir
                /\ ~MakesRoot(p, k) /\ Reads(p, k) => Meets(h, r, n)
    <2>1. Along(w, r) /\ r \in Seq(Names)
      BY <1>6, <1>14, ThereNames DEF Meets
    <2>2. PICK c : Leads(disk, p, k, c)
      <3> HIDE DEF w
      <3> QED
        BY <1>1, <1>6, <1>14, <2>1, SoughtIsThere
    <2>3. dir
      BY <1>5, <2>2 DEF Leads
    <2>4. ASSUME ~MakesRoot(p, k), Reads(p, k) PROVE Meets(h, r, n)
      <3>1. Known(t) /\ t.self.name = k
        BY <1>1, <2>4, EnteredPath
      <3>2. t.self \in Links
        BY <3>1, KnownFacts
      <3>3. w \in Seq(Links) /\ Len(w) > 0
        BY <1>1, PathHas
      <3> HIDE DEF w, t
      <3>4. Along(Append(w, t.self), r)
        BY <1>14, <2>1, <3>1, <3>2, <3>3, AlongLonger
      <3> QED
        BY <1>10, <3>4 DEF Meets, Pushed
    <2> QED
      BY <2>3, <2>4
  <1>15. CASE ~dir
    <2> DEFINE N == {g}
    <2>1. PutOn(call'[s], N, Tail(call[s]))
      BY <1>1, <1>3, <1>4, <1>15, StackIsPut
    <2>2. \A x \in N : x.fn = "scan" /\ Looks(disk, n, x)
      BY <1>9, <1>11
    <2>3. \A r : There(disk, r, n) /\ Meets(f, r, n) => Printout(r, n) \in out'[s] \/ \E x \in N : Meets(x, r, n)
      BY <1>12, <1>13, <1>14, <1>15
    <2> HIDE DEF N, n
    <2> QED
      BY <1>1, <1>8, <2>1, <2>2, <2>3, ScanGoes DEF f, n
  <1>16. CASE dir
    <2> DEFINE N == {h, b}
    <2>1. Reads(p, k) /\ ~MakesRoot(p, k)
      <3>1. Leads(disk, p, k, EntryOf(disk, p, k).cluster)
        BY <1>5, <1>16 DEF Leads
      <3> QED
        BY <1>3, <1>16, <3>1, LedIsRead
    <2>2. PutOn(call'[s], N, Tail(call[s]))
      BY <1>1, <1>3, <1>4, <1>16, <2>1, StackIsPut
    <2>3. \A x \in N : x.fn = "scan" /\ Looks(disk, n, x)
      BY <1>9, <1>10, <1>11
    <2>4. \A r : There(disk, r, n) /\ Meets(f, r, n) => Printout(r, n) \in out'[s] \/ \E x \in N : Meets(x, r, n)
      BY <1>12, <1>13, <1>14, <2>1
    <2> HIDE DEF N, n
    <2> QED
      BY <1>1, <1>8, <2>2, <2>3, <2>4, ScanGoes DEF f, n
  <1> QED
    BY <1>15, <1>16

-----------------------------------------------------------------------------
\* After the scan find looks at the root's own name,
LEMMA FindTellsRoot ==
    ASSUME Served, CallsInv, PathInv, FindInv, NoRootLike, NEW s \in Shells, FindRoot(s)
    PROVE  FindOn(s)
  <1> DEFINE f == Head(call[s])
             g == [f EXCEPT !.at = "done"]
             n == Last(line[s].path)
             due == line[s].due
             o == {<<RootName>> : k \in {f.name} \cap RootLike}
  <1>1. call[s] # <<>> /\ f.fn = "find" /\ f.at = "root"
    BY DEF FindRoot, In
  <1>2. disk' = disk
    BY DEF FindRoot, vars
  <1>3. call'[s] = <<g>> /\ out'[s] = out[s] \cup o
    <2>1. DOMAIN call = Shells /\ DOMAIN out = Shells
      BY DEF CallsInv
    <2>2. call' = [call EXCEPT ![s] = <<g>>] /\ out' = [out EXCEPT ![s] = out[s] \cup o]
      BY DEF FindRoot
    <2> HIDE DEF g, o
    <2> QED
      BY <2>1, <2>2
  <1> SUFFICES ASSUME line[s].cmd = "find" PROVE FindOn(s)
    BY DEF FindOn, FindOf
  <1>4. /\ Finds(disk, n, call[s], out[s], due) /\ Looks(disk, n, f)
        /\ FramesOf(call[s]) = {f} \cup FramesOf(Tail(call[s])) /\ Tail(call[s]) = <<>>
    BY <1>1, FindBelow
  <1>5. FramesOf(call[s]) = {f}
    <2>1. FramesOf(<<>>) = {}
      BY FewFrames
    <2> QED
      BY <1>4, <2>1
  <1>6. f.name = n
    BY <1>4 DEF Looks
  <1>7. o = IF n = RootName THEN {<<RootName>>} ELSE {}
    <2>1. n \notin RootLike \ {RootName}
      BY DEF NoRootLike, NotRootLike
    <2>2. RootName \in RootLike
      BY ShellAssumption
    <2> QED
      BY <1>6, <2>1, <2>2
  <1>8. g.fn = "find" /\ g.name = n
    <2>1. FrameOK(f)
      BY CallStack, <1>1, FramesReplaced
    <2>2. {"fn", "at"} \subseteq DOMAIN f
      BY <2>1 DEF FrameOK
    <2> QED
      BY <1>1, <1>6, <2>2
  <1> HIDE DEF f, g, o, n, due
  <1>9. Looks(disk, n, g)
    BY <1>8 DEF Looks
  <1>10. \A m \in out'[s] : IsMatch(disk, n, m)
    BY <1>3, <1>4, <1>7 DEF Finds, IsMatch
  <1>11. ASSUME NEW m \in due PROVE m \in out'[s]
    <2>1. Coming(disk, n, {f}, out[s], m)
      BY <1>4, <1>5 DEF Finds
    <2>2. m \in out[s] \/ (m = <<RootName>> /\ n = RootName)
      BY <1>1, <2>1 DEF Coming, Meets
    <2> QED
      BY <1>3, <1>7, <2>2
  <1>12. Finds(disk, n, call'[s], out'[s], due)
    <2>1. FramesOf(<<g>>) = {g} /\ \A a, b : ~Atop(<<g>>, a, b)
      BY FewFrames
    <2> QED
      BY <1>3, <1>9, <1>10, <1>11, <2>1 DEF Finds, Coming
  <1> QED
    BY <1>2, <1>12 DEF FindOn, FindOf, n, due

\* and returns to the prompt.
LEMMA FindLeaves ==
    ASSUME Served, CallsInv, PathInv, FindInv, NEW s \in Shells, FindEnd(s)
    PROVE  FindOn(s)
  <1> DEFINE f == Head(call[s])
  <1>1. call[s] # <<>> /\ f.fn = "find" /\ Return(s)
    BY DEF FindEnd, In
  <1> SUFFICES ASSUME line[s].cmd = "find" PROVE FindOn(s)
    BY DEF FindOn, FindOf
  <1>2. Tail(call[s]) = <<>>
    BY <1>1, FindBelow
  <1>3. call'[s] = <<>>
    BY <1>1, <1>2, OwnWays
  <1> QED
    BY <1>3 DEF FindOn

\* No other step is one of a find.
LEMMA FindStep ==
    ASSUME Served, CallsInv, PathInv, FindInv, NoRootLike, NEW s \in Shells, Step(s) PROVE FindInv'
  <1> DEFINE f == Head(call[s])
  <1> SUFFICES ASSUME line[s].cmd = "find" PROVE FindOn(s)
    BY FindKept DEF FindOn, FindOf
  <1>1. call[s] # <<>>
    BY StepIsOwn
  <1>2. f.fn \in {"scan", "find"}
    BY <1>1, FindBelow DEF Looks
  <1> HIDE DEF f
  <1>3. f.fn \notin Loops \cup {"cd", "mkdir", "cat", "rm", "flush", "source", "dest", "copy"}
    BY <1>2 DEF Loops
  <1>4. \A fns, at : In(s, fns, at) => f.fn \in fns
    BY DEF In, f
  <1>5. ~(GoUp(s) \/ Stay(s) \/ Examine(s) \/ Refuse(s) \/ Enter(s) \/ EndOfPath(s))
    BY <1>3, <1>4 DEF GoUp, Stay, Examine, Refuse, Enter, EndOfPath, Loops
  <1>6. ~(Look(s) \/ MakeDirectory(s) \/ Show(s))
    BY <1>3, <1>4 DEF Look, MakeDirectory, Show, Loops
  <1>7. ~(RemoveLast(s) \/ OpenRemoved(s) \/ FlushChild(s) \/ FlushEnd(s))
    BY <1>3, <1>4 DEF RemoveLast, OpenRemoved, FlushChild, FlushEnd
  <1>8. ~(ReadSource(s) \/ WriteUnder(s) \/ PeekInto(s) \/ PutFile(s) \/ PutDirectory(s) \/ Copied(s))
    BY <1>3, <1>4 DEF ReadSource, WriteUnder, PeekInto, PutFile, PutDirectory, Copied
  <1>9. ~(MakeCopy(s) \/ OpenCopy(s) \/ CopyChild(s) \/ CopyEnd(s))
    BY <1>3, <1>4 DEF MakeCopy, OpenCopy, CopyChild, CopyEnd
  <1> QED
    BY <1>5, <1>6, <1>7, <1>8, <1>9, FindReads, FindMeets, FindTurnsBack, FindTellsRoot, FindLeaves DEF Step

-----------------------------------------------------------------------------
\* A find that is typed has everything before it.
LEMMA FindStarts ==
    ASSUME NEW d, IsStore(d), NEW n
    PROVE  Finds(d, n, <<Scan(n, <<RootLink>>), [fn |-> "find", at |-> "root", name |-> n]>>, {}, Matches(d, n))
  <1> DEFINE h == Scan(n, <<RootLink>>)
             e == [fn |-> "find", at |-> "root", name |-> n]
             w == <<RootLink>>
             c == <<h, e>>
  <1>1. FramesOf(c) = {h, e} /\ \A a, b : Atop(c, a, b) => a = h /\ b = e
    BY FewFrames
  <1>2. h.fn = "scan" /\ h.at = "peek" /\ h.name = n /\ h.walk = w /\ h.seen = {}
    BY DEF Scan
  <1>3. e.fn = "find" /\ e.at = "root" /\ e.name = n
    OBVIOUS
  <1> HIDE DEF h, e, c
  <1>4. Looks(d, n, h) /\ Looks(d, n, e)
    BY <1>2, <1>3 DEF Looks
  <1>5. ASSUME NEW r, There(d, r, n) PROVE Meets(h, r, n)
    <2>1. Len(r) \in Nat /\ Len(w) = 1
      BY <1>5, ThereNames
    <2> HIDE DEF w
    <2>2. Along(w, r)
      BY <2>1 DEF Along
    <2> QED
      BY <1>2, <2>2 DEF Meets
  <1>6. ASSUME NEW m \in Matches(d, n) PROVE Coming(d, n, {h, e}, {}, m)
    <2>1. IsMatch(d, n, m)
      BY <1>6, MatchesAre
    <2> QED
      BY <1>3, <1>5, <2>1 DEF IsMatch, Coming
  <1>7. Finds(d, n, c, {}, Matches(d, n))
    BY <1>1, <1>2, <1>4, <1>6 DEF Finds
  <1> QED
    BY <1>7 DEF c, h, e

\* A line that is typed keeps this.
LEMMA FindType ==
    ASSUME Served, CallsInv, FindInv, NEW s \in Shells, Type(s) PROVE FindInv'
  <1>1. PICK l \in session.lines[s] :
          /\ call' = [call EXCEPT ![s] = FirstFrames(l, dts[s])] /\ UNCHANGED <<vars, dts, out>>
          /\ line' = [line EXCEPT ![s] =
               [cmd |-> l.cmd, path |-> l.path, dest |-> l.dest,
                at |-> Named(s, l), alone |-> NeedsAlone(s, l),
                due |-> IF l.cmd = "find" THEN Matches(disk, Last(l.path)) ELSE {}]]
    BY DEF Type
  <1> DEFINE n == Last(l.path)
             k == [cmd |-> l.cmd, path |-> l.path, dest |-> l.dest,
                   at |-> Named(s, l), alone |-> NeedsAlone(s, l),
                   due |-> IF l.cmd = "find" THEN Matches(disk, n) ELSE {}]
             c == FirstFrames(l, dts[s])
  <1>2. /\ k.cmd = l.cmd /\ k.path = l.path /\ (l.cmd = "find" => k.due = Matches(disk, n))
        /\ call' = [call EXCEPT ![s] = c] /\ line' = [line EXCEPT ![s] = k] /\ disk' = disk /\ out' = out
    BY <1>1 DEF vars
  <1>3. l.cmd = "find" => c = <<Scan(n, <<RootLink>>), [fn |-> "find", at |-> "root", name |-> n]>>
    BY DEF FirstFrames
  <1>4. call[s] = <<>> /\ out[s] = {}
    <2>1. call[s] = <<>>
      BY DEF Type, Running
    <2> QED
      BY <2>1 DEF CallsInv
  <1>5. IsStore(disk)
    BY StoreServed
  <1> HIDE DEF n, k, c
  <1>6. FindOf(disk, k, c, {})
    <2> SUFFICES ASSUME l.cmd = "find" PROVE Finds(disk, n, c, {}, Matches(disk, n))
      BY <1>2 DEF FindOf, n
    <2> QED
      BY <1>3, <1>5, FindStarts
  <1>7. DOMAIN call = Shells /\ DOMAIN line = Shells
    BY DEF CallsInv
  <1>8. /\ call'[s] = c /\ line'[s] = k
        /\ \A z \in Shells : z # s => call'[z] = call[z] /\ line'[z] = line[z]
    BY <1>2, <1>7
  <1> SUFFICES ASSUME NEW z \in Shells PROVE FindOf(disk', line'[z], call'[z], out'[z])
    BY DEF FindInv
  <1>9. CASE z = s
    BY <1>2, <1>4, <1>6, <1>8, <1>9
  <1>10. CASE z # s
    BY <1>2, <1>8, <1>10 DEF FindInv
  <1> QED
    BY <1>9, <1>10

-----------------------------------------------------------------------------
\* What is served is no find of a name like the root's.
LEMMA TypedNotRootLike ==
    ASSUME Slips = {}, NEW s \in Shells, NEW l, SlipsOf(s, l) \subseteq Slips PROVE NotRootLike(l)
  <1>1. "root_like" \in AllSlips /\ "root_like" \notin SlipsOf(s, l)
    BY DEF AllSlips
  <1> QED
    BY <1>1 DEF SlipsOf, NotRootLike

\* Nor does a command change its line.
LEMMA NoRootLikeKept ==
    ASSUME Slips = {}, CallsInv, CallsInv', NoRootLike, NEW s \in Shells, Type(s) \/ Step(s)
    PROVE  NoRootLike'
  <1> SUFFICES ASSUME NEW z \in Shells PROVE NotRootLike(line'[z])
    BY DEF NoRootLike
  <1>1. CASE Type(s)
    <2>1. PICK l \in session.lines[s] :
            /\ SlipsOf(s, l) \subseteq Slips
            /\ line' = [line EXCEPT ![s] =
                 [cmd |-> l.cmd, path |-> l.path, dest |-> l.dest,
                  at |-> Named(s, l), alone |-> NeedsAlone(s, l),
                  due |-> IF l.cmd = "find" THEN Matches(disk, Last(l.path)) ELSE {}]]
      BY <1>1 DEF Type
    <2> DEFINE k == [cmd |-> l.cmd, path |-> l.path, dest |-> l.dest,
                     at |-> Named(s, l), alone |-> NeedsAlone(s, l),
                     due |-> IF l.cmd = "find" THEN Matches(disk, Last(l.path)) ELSE {}]
    <2>2. k.cmd = l.cmd /\ k.path = l.path
      OBVIOUS
    <2>3. NotRootLike(k)
      BY <2>1, <2>2, TypedNotRootLike DEF NotRootLike
    <2>4. line' = [line EXCEPT ![s] = k] /\ DOMAIN line = Shells
      BY <2>1 DEF CallsInv
    <2> HIDE DEF k
    <2> QED
      BY <2>3, <2>4 DEF NoRootLike
  <1>2. CASE Step(s)
    <2>1. CASE call'[z] = <<>>
      <3>1. line'[z] = NoLine
        BY <2>1 DEF CallsInv
      <3> QED
        BY <3>1 DEF NotRootLike, NoLine
    <2>2. CASE call'[z] # <<>>
      <3>1. line'[z] = line[z]
        BY <1>2, <2>2, StepIsOwn DEF OwnStep
      <3> QED
        BY <3>1 DEF NoRootLike
    <2> QED
      BY <2>1, <2>2
  <1> QED
    BY <1>1, <1>2

\* The invariant, with what it rests on.
FoundInv == ServedInv /\ FindInv /\ NoRootLike

\* It holds at first,
LEMMA InitFoundInv == ShellInit => FoundInv
  <1> SUFFICES ASSUME ShellInit PROVE FindInv /\ NoRootLike
    BY InitServedInv DEF FoundInv
  <1>1. \A s \in Shells : line[s] = NoLine
    BY DEF ShellInit
  <1> QED
    BY <1>1 DEF FindInv, FindOf, NoRootLike, NotRootLike, NoLine

\* and every step keeps it.
LEMMA NextFoundInv ==
    ASSUME Slips = {} PROVE FoundInv /\ [ShellNext]_shvars => FoundInv'
  <1> SUFFICES ASSUME FoundInv, [ShellNext]_shvars PROVE FindInv' /\ NoRootLike'
    BY NextServedInv DEF FoundInv
  <1>1. ServedInv /\ FindInv /\ NoRootLike /\ Served /\ CallsInv /\ PathInv
    BY DEF FoundInv, ServedInv, ShellInv
  <1>2. CallsInv'
    BY <1>1, NextServedInv DEF ServedInv, ShellInv
  <1>3. CASE \E s \in Shells : Type(s) \/ Step(s)
    BY <1>1, <1>2, <1>3, FindType, FindStep, NoRootLikeKept
  <1>4. CASE Restart
    <2>1. \A s \in Shells : line'[s] = NoLine
      BY <1>4 DEF Restart
    <2> QED
      BY <2>1 DEF FindInv, FindOf, NoRootLike, NotRootLike, NoLine
  <1>5. CASE UNCHANGED shvars
    <2>1. disk' = disk /\ call' = call /\ line' = line /\ out' = out
      BY <1>5 DEF shvars, vars
    <2> QED
      BY <1>1, <2>1 DEF FindInv, NoRootLike
  <1> QED
    BY <1>3, <1>4, <1>5 DEF ShellNext

\* What a find that is done has printed.
LEMMA FindIsDone ==
    ASSUME FoundInv, NEW s \in Shells, line[s].cmd = "find", call[s] # <<>>, Head(call[s]).at = "done"
    PROVE  line[s].due \subseteq out[s] /\ out[s] \subseteq Matches(disk, Last(line[s].path))
  <1> DEFINE f == Head(call[s])
             n == Last(line[s].path)
             due == line[s].due
  <1>0. CallsInv /\ FindInv /\ IsStore(disk)
    BY StoreServed DEF FoundInv, ServedInv, ShellInv
  <1>1. /\ Finds(disk, n, call[s], out[s], due) /\ Looks(disk, n, f)
        /\ FramesOf(call[s]) = {f} \cup FramesOf(Tail(call[s]))
        /\ f.fn = "find" => Tail(call[s]) = <<>>
    BY <1>0, FindBelow
  <1>2. f.fn = "find"
    BY <1>1 DEF Looks
  <1>3. FramesOf(call[s]) = {f}
    <2>1. FramesOf(<<>>) = {}
      BY FewFrames
    <2> QED
      BY <1>1, <1>2, <2>1
  <1> HIDE DEF n, due
  <1>4. ASSUME NEW m \in due PROVE m \in out[s]
    <2>1. Coming(disk, n, {f}, out[s], m)
      BY <1>1, <1>3 DEF Finds
    <2> QED
      BY <1>2, <2>1 DEF Coming, Meets
  <1>5. ASSUME NEW m \in out[s] PROVE m \in Matches(disk, n)
    BY <1>0, <1>1, <1>5, MatchesAre DEF Finds
  <1> QED
    BY <1>4, <1>5 DEF n, due

\* A find that ends has printed the path of every entry of that name there was when it
\* was typed, and nothing but paths of entries there are: it misses none and names no
\* wrong one, whatever the other shells make meanwhile.
THEOREM FindsAll == ASSUME Slips = {} PROVE ShellSpec => FindReportsAll
  <1> DEFINE Reported ==
               \A s \in Does({"find"}) :
                 call[s] # <<>> /\ Head(call[s]).at = "done" =>
                   /\ line[s].due \subseteq out[s]
                   /\ out[s] \subseteq Matches(disk, Last(line[s].path))
  <1>1. FoundInv /\ [ShellNext]_shvars => [Reported]_shvars
    <2> SUFFICES ASSUME FoundInv PROVE Reported
      OBVIOUS
    <2>1. \A s \in Does({"find"}) : s \in Shells /\ line[s].cmd = "find"
      BY DEF Does
    <2> QED
      BY <2>1, FindIsDone
  <1> QED
    BY <1>1, InitFoundInv, NextFoundInv, PTL DEF ShellSpec, FindReportsAll
=============================================================================
